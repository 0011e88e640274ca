----------------------------- MODULE MCCluster -----------------------------
(***************************************************************************)
(* Two nodes and a handful of conversations over one system prompt: a tool *)
(* session, RAG queries of one document, one-shots.                        *)
(***************************************************************************)
EXTENDS Cluster

CONSTANTS search, slow, short, document,
          sys, a1, a2, a3, b1, b2, doc, q1, q2, o1, o2,
          alice, bob, rag1, rag2, one, two

Msg(role, text, calls) == [role |-> role, text |-> text, calls |-> calls]
Opened == <<Msg("system", short, <<>>), Msg("user", short, <<>>)>>
AfterTool(tool) ==
    Opened \o <<Msg("assistant", short, <<tool>>), Msg("tool", short, <<>>), Msg("user", short, <<>>)>>

Opener(blocks) == [blocks |-> blocks, messages |-> Opened, tool |-> NoTool, gen |-> 3]
ToolTurn(blocks, tool) == [blocks |-> blocks, messages |-> AfterTool(tool), tool |-> tool, gen |-> 2]
Query(blocks) ==
    [blocks |-> blocks, messages |-> <<Msg("system", short, <<>>), Msg("user", document, <<>>)>>,
     tool |-> NoTool, gen |-> 2]
OneShot(blocks) ==
    [blocks |-> blocks, messages |-> <<Msg("user", short, <<>>)>>, tool |-> NoTool, gen |-> 4]

Scripts ==
    [c \in {alice, bob, rag1, rag2, one, two} |->
        CASE c = alice -> <<Opener(<<sys, a1>>), ToolTurn(<<sys, a1, a2>>, search),
                            ToolTurn(<<sys, a1, a2, a3>>, search)>>
          [] c = bob   -> <<Opener(<<sys, b1>>), ToolTurn(<<sys, b1, b2>>, search)>>
          [] c = rag1  -> <<Query(<<sys, doc, q1>>)>>
          [] c = rag2  -> <<Query(<<sys, doc, q2>>)>>
          [] c = one   -> <<OneShot(<<o1>>)>>
          [] c = two   -> <<OneShot(<<o2>>)>>]

MCScript == [c \in Conversation |-> Scripts[c]]
MCRequests == UNION {{MCScript[c][i].blocks : i \in DOMAIN MCScript[c]} : c \in Conversation}
MCBlock == UNION {Range(r) : r \in MCRequests}
=============================================================================
