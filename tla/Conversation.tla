---------------------------- MODULE Conversation ----------------------------
(***************************************************************************)
(* One client conversation, and what the plugin derives from each request  *)
(* of it.  The client is outside the repository: it re-sends the whole     *)
(* history, which only grows at its end, and returns the result of every   *)
(* call before the next turn.  Bounded by MaxMessages.                     *)
(***************************************************************************)
EXTENDS Classify

CONSTANTS
    Sessions,     \* what x-session-id may hold; NoScope when the header is absent
    Calls,        \* the call lists an assistant message may carry
    ReplyText,    \* what assistant messages may say, which nothing reads
    MaxMessages

ASSUME RepliesAreText == ReplyText \subseteq Text
ASSUME CallsNameTools == Calls \subseteq Seq(Tool \cup {Unnamed})

VARIABLES
    session,   \* the header the client sends with every request
    tools,     \* whether it declares tools
    history,   \* the messages so far
    awaited    \* the calls whose results are still to come

vars == <<session, tools, history, awaited>>

SystemMessage(text) == [role |-> "system", text |-> text, calls |-> <<>>]
UserMessage(text)   == [role |-> "user", text |-> text, calls |-> <<>>]
Reply(text, calls)  == [role |-> "assistant", text |-> text, calls |-> calls]
ToolResult(text)    == [role |-> "tool", text |-> text, calls |-> <<>>]

body == [messages |-> history, tools |-> tools]
key == ConversationKey(session, body)
lastRole == IF history = <<>> THEN "system" ELSE Last(history).role

Init ==
    /\ session \in Sessions
    /\ tools \in BOOLEAN
    /\ history \in {<<>>} \cup {<<SystemMessage(t)>> : t \in Text}
    /\ awaited = <<>>

Say(message) ==
    /\ Len(history) < MaxMessages
    /\ history' = Append(history, message)
    /\ UNCHANGED <<session, tools>>

Ask ==
    /\ lastRole \in {"system", "assistant", "tool"}
    /\ awaited = <<>>
    /\ \E t \in Text : Say(UserMessage(t))
    /\ UNCHANGED awaited

Answer ==
    /\ lastRole \in {"user", "tool"}
    /\ awaited = <<>>
    /\ \E t \in ReplyText, calls \in Calls \cup {<<>>} :
        /\ Say(Reply(t, calls))
        /\ awaited' = calls

Return ==
    /\ awaited # <<>>
    /\ \E t \in Text : Say(ToolResult(t))
    /\ awaited' = Tail(awaited)

Next == Ask \/ Answer \/ Return

Spec == Init /\ [][Next]_vars

\* A request is sent when it is the assistant's turn.
Sent == awaited = <<>> /\ lastRole \in {"user", "tool"}

-----------------------------------------------------------------------------

\* classify.go "mirroring classify() in src/bench/sim/policies.py", which it does within limits:
\* the two classes differ exactly while no tool has answered and either the client declares tools
\* that the simulator cannot see, or a message that is not the first is long by one of the two
\* measures alone.  Once a tool has answered they agree for the rest of the conversation.
MirrorsWithinLimits ==
    Sent =>
        (Classify(body) # classify(RequestView(history)) <=>
            /\ ~HasRole(history, "tool")
            /\ \/ tools /\ (Len(history) = 1 \/ Last(history).text \in LongInTokens)
               \/ /\ ~tools /\ Len(history) > 1
                  /\ Last(history).text \in (LongInChars \ LongInTokens)
                                               \cup (LongInTokens \ LongInChars))

\* The learned gap is attributed to "the tool whose result now sits in the history"
\* (session.go): when a result was just returned, the name is that of its call, however
\* many other tools were called before.
NamesTheAwaitedTool ==
    [][(awaited # <<>> /\ Tail(awaited) = <<>> /\ awaited' = <<>>)
         => LastToolName(body') = CalledName(Head(awaited))]_vars

\* classify.go: the key is of "system + first user message": once both have been said no later
\* turn moves the conversation to another key.
KeyFixedOnceOpened ==
    [][Cardinality(Stable(history)) >= 2 => ConversationKey(session, body)' = ConversationKey(session, body)]_vars

\* docs/rfc-0001-phase-4-plan.md lines 110-111: the key is "stable as a session grows".
\* Without a system message the second hashed message is the second user message, so
\* the key changes when that is said.
KeyStaysFixed ==
    [][key # NoScope /\ HasRole(history, "user")
         => ConversationKey(session, body)' = ConversationKey(session, body)]_vars
=============================================================================
