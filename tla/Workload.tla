------------------------------ MODULE Workload ------------------------------
(***************************************************************************)
(* The generator of request streams (src/bench/sim/workload.py) and the    *)
(* block hashes of its token sequences (src/bench/sim/blocks.py).  Random  *)
(* draws are choices over everything that can be drawn; the seed that      *)
(* fixes them is left out.                                                 *)
(*                                                                         *)
(* A text is a tuple <<kind, id>>; different texts differ in their         *)
(* first word.  The content of a message is a sequence of texts, and so    *)
(* are the tokens of a request: those of its messages, one after another.  *)
(***************************************************************************)
EXTENDS Classify, Rounding

CONSTANTS
    Options,         \* command lines: [num_sessions, turns, mix, block_size, tool_reliability]
    MixUnit,         \* the fractions in mix are in 1/MixUnit
    WordCount,       \* words in a text, by its kind
    UserPrompts, CannedResults, RagDocs,    \* how many there are
    SuccessLatency,  \* of each tool
    Gaps,            \* what _arrival_gap may draw
    ThinkTime, NominalTurn, RetryGap

Class == {"tool", "rag", "oneshot"}

\* How many sessions, queries or one-shots a run generates.
Share(o, class) ==
    IF class = "tool" THEN Rounded(o.num_sessions * o.mix.tool, MixUnit)
    ELSE Rounded(o.num_sessions * o.turns * o.mix[class], MixUnit)

\* Session-id offsets "keeping the three class streams disjoint".
RAG_SID_BASE == 1000000
ONESHOT_SID_BASE == 2000000

\* The contents of the messages a run may generate: single texts, and the questions of queries,
\* which follow a document.
Openers == {<<<<"user", u>>>> : u \in 1..UserPrompts}
Questions(o) ==
    {<<<<"doc", doc>>, <<"question", i>>>> : doc \in 1..RagDocs, i \in 0..(Share(o, "rag") - 1)}
Contents(o) ==
    {<<<<"system">>>>} \cup Openers \cup Questions(o)
    \cup {<<<<"canned", c>>>> : c \in 1..CannedResults}
    \cup {<<<<kind, <<sid, turn>>>>>> : kind \in {"reply", "result", "error", "next"},
                sid \in 0..(Share(o, "tool") - 1), turn \in 1..(o.turns - 1)}
    \cup {<<<<"oneshot", i>>>> : i \in 0..(Share(o, "oneshot") - 1)}

ASSUME MixUnitIsPositive == MixUnit \in Nat \ {0}
ASSUME OptionsAreRuns ==
    \A o \in Options :
        /\ o.num_sessions \in Nat /\ o.turns \in Nat \ {0} /\ o.block_size \in Nat \ {0}
        /\ \A class \in Class : o.mix[class] \in Nat
        /\ o.mix.tool + o.mix.rag + o.mix.oneshot = MixUnit
ASSUME DelaysAreNat ==
    /\ Gaps \subseteq Nat /\ SuccessLatency \in [Tool -> Nat]
    /\ ThinkTime \in Nat /\ NominalTurn \in Nat /\ RetryGap \in Nat
ASSUME WordsAreCounted ==
    \A kind \in {"system", "user", "reply", "result", "error", "next", "canned", "doc",
                 "question", "oneshot"} : WordCount[kind] \in Nat
\* The classes' offsets leave room for every session of a run.
ASSUME SidsFit == \A o \in Options, class \in Class : Share(o, class) <= RAG_SID_BASE
ASSUME ContentsAreText == \A o \in Options : Contents(o) \subseteq Text
\* A query embeds a document and a session opens with a short question, whichever way a text is
\* measured (policies.py, lines 73-75, and classify.go, lines 17-20): rag_doc_tokens and the
\* question are 1040 words by default.
ASSUME OnlyQueriesAreLong ==
    /\ \A o \in Options : Questions(o) \subseteq LongInChars \cap LongInTokens
    /\ Openers \cap (LongInChars \cup LongInTokens) = {}
ASSUME NoScopeIsNoSession == NoScope \notin Nat

VARIABLES
    options,
    clock,      \* of each class: session_start, or the last arrival
    count,      \* how many sessions, queries and one-shots were begun
    session,    \* the session being generated, or the last one
    requests,   \* the list that will be the stream
    sorted      \* whether it has been sorted: the stream is ready

workloadVars == <<options, clock, count, session, requests, sorted>>

-----------------------------------------------------------------------------
(* Tokens and blocks *)

Words(texts) ==
    LET upTo[k \in 0..Len(texts)] ==
            IF k = 0 THEN 0 ELSE upTo[k - 1] + WordCount[texts[k][1]]
    IN  upTo[Len(texts)]

\* The texts that the first n words are taken from.
Spanned(texts, n) ==
    SubSeq(texts, 1, Min({k \in 0..Len(texts) : Words(SubSeq(texts, 1, k)) >= n}))

\* A chained hash stands for the tokens up to the end of its block; whole blocks only.
hash_blocks(texts, block_size) ==
    [i \in 1..(Words(texts) \div block_size) |->
        [texts |-> Spanned(texts, i * block_size), words |-> i * block_size]]

Msg(role, content, calls) == [role |-> role, text |-> content, calls |-> calls]

Tokens(messages) == FlattenSeq([i \in DOMAIN messages |-> messages[i].text])

TurnRequest(sid, turn, arrival, messages, kind, tool) ==
    [session_id |-> sid, turn_idx |-> turn, arrival |-> arrival,
     block_hashes |-> hash_blocks(Tokens(messages), options.block_size),
     messages |-> messages, kind |-> kind, tool_name |-> tool]

-----------------------------------------------------------------------------
(* Generation *)

Budget(class) == Share(options, class)

SessionDone == session.turn_idx = options.turns - 1
Done(class) == count[class] = Budget(class) /\ (class = "tool" => SessionDone)

Opened(class, gap) ==
    /\ ~sorted
    /\ count' = [count EXCEPT ![class] = @ + 1]
    /\ clock' = [clock EXCEPT ![class] = @ + gap]

Init ==
    /\ options \in Options
    /\ clock = [class \in Class |-> 0]
    /\ count = [class \in Class |-> 0]
    /\ session = [session_id |-> 0, turn_idx |-> options.turns - 1, arrival |-> 0,
                  tool |-> NoTool, messages |-> <<>>]
    /\ requests = <<>>
    /\ sorted = FALSE

OpenSession ==
    /\ ~Done("tool") /\ SessionDone
    /\ \E gap \in Gaps, user0 \in 1..UserPrompts,
          tool \in IF options.tool_reliability THEN Tool ELSE {NoTool} :
        LET messages == <<Msg("system", <<<<"system">>>>, <<>>),
                          Msg("user", <<<<"user", user0>>>>, <<>>)>>
        IN  /\ Opened("tool", gap)
            /\ session' = [session_id |-> count["tool"], turn_idx |-> 0, tool |-> tool,
                           arrival |-> clock'["tool"], messages |-> messages]
            /\ requests' = Append(requests,
                   TurnRequest(count["tool"], 0, clock'["tool"], messages, "tool", NoTool))
    /\ UNCHANGED <<options, sorted>>

\* What the tool may return in the next turn of the session.
Results(tag) ==
    {<<"result", tag>>}
    \cup {<<"canned", c>> : c \in 1..CannedResults}
    \cup IF session.tool = NoTool THEN {} ELSE {<<"error", tag>>}

\* A faulty Calls: the message says a tool was called when the session has none.
CallsAlways(tool) == IF tool = NoTool THEN <<Unnamed>> ELSE <<tool>>

Calls(tool) == IF tool = NoTool THEN <<>> ELSE <<tool>>

\* A faulty Segment: the result is told before the reply that asked for it.
SegmentResultFirst(tag, result) ==
    <<Msg("tool", <<result>>, <<>>),
      Msg("assistant", <<<<"reply", tag>>>>, Calls(session.tool)),
      Msg("user", <<<<"next", tag>>>>, <<>>)>>

Segment(tag, result) ==
    <<Msg("assistant", <<<<"reply", tag>>>>, Calls(session.tool)),
      Msg("tool", <<result>>, <<>>),
      Msg("user", <<<<"next", tag>>>>, <<>>)>>

\* A faulty NextArrival: every turn is timed from the start of its session.
ArrivalFromStart(result) ==
    clock["tool"] + IF result[1] = "error" THEN RetryGap
                    ELSE ThinkTime + IF session.tool = NoTool THEN NominalTurn
                                                              ELSE SuccessLatency[session.tool]

NextArrival(result) ==
    session.arrival + IF result[1] = "error" THEN RetryGap
                      ELSE ThinkTime + IF session.tool = NoTool THEN NominalTurn
                                                                ELSE SuccessLatency[session.tool]

ExtendSession ==
    /\ ~sorted /\ ~SessionDone
    /\ LET turn == session.turn_idx + 1
           tag == <<session.session_id, turn>>
       IN  \E result \in Results(tag) :
            LET messages == session.messages \o Segment(tag, result)
                arrival == NextArrival(result)
            IN  /\ session' = [session EXCEPT !.turn_idx = turn, !.arrival = arrival,
                                              !.messages = messages]
                /\ requests' = Append(requests,
                       TurnRequest(session.session_id, turn, arrival, messages, "tool",
                                   session.tool))
    /\ UNCHANGED <<options, clock, count, sorted>>

Query ==
    /\ Done("tool") /\ ~Done("rag")
    /\ \E gap \in Gaps, doc \in 1..RagDocs :
        LET user == <<<<"doc", doc>>, <<"question", count["rag"]>>>>
        IN  /\ Opened("rag", gap)
            /\ requests' = Append(requests,
                   TurnRequest(RAG_SID_BASE + count["rag"], 0, clock'["rag"],
                               <<Msg("system", <<<<"system">>>>, <<>>), Msg("user", user, <<>>)>>,
                               "rag", NoTool))
    /\ UNCHANGED <<options, session, sorted>>

OneShot ==
    /\ Done("tool") /\ Done("rag") /\ ~Done("oneshot")
    /\ \E gap \in Gaps :
        /\ Opened("oneshot", gap)
        /\ requests' = Append(requests,
               TurnRequest(ONESHOT_SID_BASE + count["oneshot"], 0, clock'["oneshot"],
                           <<Msg("user", <<<<"oneshot", count["oneshot"]>>>>, <<>>)>>,
                           "oneshot", NoTool))
    /\ UNCHANGED <<options, session, sorted>>

Earlier(p, q) ==
    \/ p.arrival < q.arrival
    \/ p.arrival = q.arrival /\ p.session_id < q.session_id
    \/ p.arrival = q.arrival /\ p.session_id = q.session_id /\ p.turn_idx < q.turn_idx

\* list.sort with the key above: stable.
Before(s, i, j) == Earlier(s[i], s[j]) \/ (~Earlier(s[j], s[i]) /\ i < j)
Place(s, i) == 1 + Cardinality({j \in DOMAIN s : Before(s, j, i)})
InOrder(s) == [k \in DOMAIN s |-> s[CHOOSE i \in DOMAIN s : Place(s, i) = k]]

Sort ==
    /\ ~sorted /\ Done("tool") /\ Done("rag") /\ Done("oneshot")
    /\ requests' = InOrder(requests)
    /\ sorted' = TRUE
    /\ UNCHANGED <<options, clock, count, session>>

Generate == OpenSession \/ ExtendSession \/ Query \/ OneShot \/ Sort

-----------------------------------------------------------------------------
(* The live sender *)

\* A faulty SentSession: the header is left out.
SentNone(r) == NoScope

\* The session header run_session_traffic sends; every session has one, number 0 too.
SentSession(r) == r.session_id

LiveKey(r) == ConversationKey(SentSession(r), [messages |-> r.messages, tools |-> FALSE])

-----------------------------------------------------------------------------

\* Requests of different conversations have no block in common beyond the system prompt, an
\* opening question or a retrieved document: replies are tagged with session and turn, and
\* whatever follows one is behind a block of its own (hash_blocks chains).
OnlyOpeningsAreShared ==
    \A p, q \in Range(requests) :
        p.session_id # q.session_id
            => \A b \in Range(p.block_hashes) \cap Range(q.block_hashes) :
                    \A text \in Range(b.texts) : text[1] \in {"system", "user", "doc"}

\* "Turn k's token sequence has turn k-1's as a strict prefix" (workload.py), and the sorted
\* stream keeps the turns of a session in order, failed calls' short gaps and ties included.
TurnsExtendInOrder ==
    sorted => \A i, j \in DOMAIN requests :
        i < j /\ requests[i].session_id = requests[j].session_id
            => /\ requests[i].turn_idx < requests[j].turn_idx
               /\ IsStrictPrefix(Tokens(requests[i].messages), Tokens(requests[j].messages))
               /\ IsPrefix(requests[i].block_hashes, requests[j].block_hashes)

\* What the generator records of a request for the simulated router is what the plugin reads
\* off the same messages on the wire: its class, and the tool whose result came last.
SignalsMatchTheWire ==
    \A r \in Range(requests) :
        LET body == [messages |-> r.messages, tools |-> FALSE]
        IN  /\ classify(RequestView(r.messages)) = r.kind
            /\ Classify(body) = r.kind
            /\ LastToolName(body) = r.tool_name

\* The sender's header keeps sessions apart that the plugin could not tell by their opening
\* messages (traffic.py, SESSION_HEADER): two turns have one key just when they are of one
\* session.
LiveKeysAreSessions ==
    \A p, q \in {r \in Range(requests) : r.kind = "tool"} :
        LiveKey(p) = LiveKey(q) <=> p.session_id = q.session_id

\* workload.py, lines 12-14: a canned result "turns that turn's tokens into a prefix shared
\* between *different* sessions".  The reply before it is unique, so no prefix is.
CannedResultsAreShared ==
    \A p, q \in Range(requests) :
        /\ p.session_id # q.session_id /\ p.turn_idx = 1 /\ q.turn_idx = 1
        /\ p.messages[2].text = q.messages[2].text
        /\ p.messages[4].text = q.messages[4].text
        => \E b \in Range(p.block_hashes) \cap Range(q.block_hashes) :
                \E text \in Range(b.texts) : text[1] = "canned"
=============================================================================
