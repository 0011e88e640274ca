------------------------------ MODULE MCReplay ------------------------------
(***************************************************************************)
(* Small streams, generated and replayed: two sessions of three turns with *)
(* and without tools, and a mixture of one session, three queries and a    *)
(* one-shot.                                                               *)
(***************************************************************************)
EXTENDS Belady

CONSTANTS flaky, slow

Run(sessions, turns, tool, rag, oneshot, size, reliability) ==
    [num_sessions |-> sessions, turns |-> turns, block_size |-> size,
     mix |-> [tool |-> tool, rag |-> rag, oneshot |-> oneshot], tool_reliability |-> reliability]

MCOptions ==
    {Run(2, 3, 6, 0, 0, 2, FALSE), Run(2, 3, 6, 0, 0, 2, TRUE), Run(3, 2, 2, 3, 1, 2, TRUE)}

MCWordCount ==
    [kind \in {"system", "user", "reply", "result", "error", "next", "canned", "doc",
               "question", "oneshot"} |->
        IF kind \in {"system", "doc", "result"} THEN 2 ELSE 1]

MCLatency == [tool \in {flaky, slow} |-> IF tool = slow THEN 4 ELSE 0]

Tags == (0..2) \X (1..2)
Asked == {<<<<"doc", d>>, <<"question", i>>>> : d \in 1..2, i \in 0..2}
MCText ==
    Asked \cup {<<t>> : t \in {<<"system">>} \cup {<<"user", u>> : u \in 1..2}
                                \cup {<<"oneshot", i>> : i \in 0..2}
                                \cup {<<"canned", c>> : c \in 1..2}
                                \cup {<<kind, tag>> : tag \in Tags,
                                        kind \in {"reply", "result", "error", "next"}}}
=============================================================================
