--------------------------- MODULE MCConversation ---------------------------
(***************************************************************************)
(* Conversations of up to six messages: with and without a system message  *)
(* and a session header, single and parallel calls, unnamed calls, texts   *)
(* that are long by both measures, by one and by none; with and without    *)
(* the profiles a tool turn prefers.                                       *)
(***************************************************************************)
EXTENDS ProfileHandler

\* document is long by both measures, longWords in characters alone, shortWords in words alone.
CONSTANTS search, slow, short, document, longWords, shortWords, s1

MCCalls == {<<search>>, <<slow>>, <<search, slow>>, <<Unnamed>>}

\* The plugin's three routes, and two deployments that lack the first choice of a tool turn.
MCConfigurations ==
    {{"prefix-affinity", "rag-affinity", "round-robin"}, {"tool-affinity", "rag-affinity"},
     {"rag-affinity", "round-robin"}}
=============================================================================
