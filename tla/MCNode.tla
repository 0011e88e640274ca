------------------------------- MODULE MCNode -------------------------------
(***************************************************************************)
(* Node on a small trie of prefixes: sessions over h1 and h2, one of which *)
(* grows to h3, and one-shot traffic; or two sessions of different prompts *)
(* behind one head block h1.                                               *)
(***************************************************************************)
EXTENDS NodeScan

CONSTANTS h1, h2, h3, o1

MCBlock == {h1, h2, h3, o1}
MCRequest == {<<h1, h2>>, <<h1, h2, h3>>, <<o1>>}
MCSharing == {<<h1, h2>>, <<h1, h3>>}

MCPriority == {NoPriority, -5, 10, 200}
=============================================================================
