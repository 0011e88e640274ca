------------------------------ MODULE Classify ------------------------------
(***************************************************************************)
(* What the gateway plugin reads off a request (gateway-plugin/            *)
(* classify.go), beside the simulator's classify, which it mirrors         *)
(* (bench/sim/policies.py).                                                *)
(*                                                                         *)
(* A body is NoBody (not a chat completion) or                             *)
(*    messages   a sequence of [role, text, calls], calls being the names  *)
(*               of the tools an assistant message calls                   *)
(*    tools      whether the request declares tools                        *)
(* An FNV hash of the opening stands for the opening: no collisions        *)
(* between different openings.                                             *)
(***************************************************************************)
EXTENDS Integers, FiniteSets, Sequences, SequencesExt

CONSTANTS
    Tool,         \* names an assistant message may call
    Text,         \* contents of a message
    LongInChars,  \* those of at least ragUserChars characters, as the plugin measures
    LongInTokens, \* those of at least _RAG_USER_TOKENS words, as the simulator does
    NoBody,       \* a request that is no chat completion
    Unnamed,      \* a call entry without a parseable function name
    UnknownTool,  \* the bucket such calls share
    NoTool,       \* "" or None: no call in the history
    NoScope       \* "": no session header, no conversation link

\* "~4 chars/token gives 512" (classify.go, lines 17-20) relates the thresholds of typical texts
\* and no others: 100 long words are long in characters alone, 128 short ones in words alone.
ASSUME LongTextsAreText == LongInChars \subseteq Text /\ LongInTokens \subseteq Text
ASSUME NamesAreDistinct ==
    /\ NoTool \notin Tool \cup {UnknownTool, Unnamed}
    /\ Unnamed \notin Tool \cup {UnknownTool}

Role == {"system", "user", "assistant", "tool"}
Message == [role : Role, text : Text, calls : Seq(Tool \cup {Unnamed})]
Body == [messages : Seq(Message), tools : BOOLEAN]

ASSUME NoBodyIsNone == NoBody \notin Body

HasRole(messages, role) == \E i \in DOMAIN messages : messages[i].role = role

\* A faulty Classify: the size of the last message is looked at before the tool messages.
ClassifySizeFirst(body) ==
    IF body = NoBody THEN "oneshot"
    ELSE IF Len(body.messages) <= 1 THEN "oneshot"
    ELSE IF Last(body.messages).text \in LongInChars THEN "rag" ELSE "tool"

Classify(body) ==
    IF body = NoBody THEN "oneshot"
    ELSE IF HasRole(body.messages, "tool") \/ body.tools THEN "tool"
    ELSE IF Len(body.messages) <= 1 THEN "oneshot"
    ELSE IF Last(body.messages).text \in LongInChars THEN "rag" ELSE "tool"

\* What the simulator's router may observe of a request; of last_message_tokens, the words of
\* the last message, whether they reach the threshold.
RequestView(messages) ==
    [numMessages     |-> Len(messages),
     hasToolMessages |-> HasRole(messages, "tool"),
     lastIsLong      |-> messages # <<>> /\ Last(messages).text \in LongInTokens]

classify(view) ==
    IF view.hasToolMessages THEN "tool"
    ELSE IF view.numMessages <= 1 THEN "oneshot"
    ELSE IF view.lastIsLong THEN "rag" ELSE "tool"

Callers(messages) ==
    {i \in DOMAIN messages : messages[i].role = "assistant" /\ messages[i].calls # <<>>}

CalledName(call) == IF call = Unnamed THEN UnknownTool ELSE call

\* A faulty LastToolName: the first assistant message that calls a tool.
FirstToolName(body) ==
    IF body = NoBody \/ Callers(body.messages) = {} THEN NoTool
    ELSE CalledName(Last(body.messages[Min(Callers(body.messages))].calls))

LastToolName(body) ==
    IF body = NoBody \/ Callers(body.messages) = {} THEN NoTool
    ELSE CalledName(Last(body.messages[Max(Callers(body.messages))].calls))

\* Where the messages of a conversation are that its key may be made of.
Stable(messages) == {i \in DOMAIN messages : messages[i].role \in {"system", "user"}}

\* How many of them come before position i.
Rank(messages, i) == Cardinality({j \in Stable(messages) : j < i})

\* A faulty Hashed: one message too many.
HashedThree(messages) == {i \in Stable(messages) : Rank(messages, i) < 3}

\* What is hashed: the first two system or user messages.
Hashed(messages) == {i \in Stable(messages) : Rank(messages, i) < 2}

\* Their roles and texts, each at its place.
Opening(messages) ==
    {<<Rank(messages, i), messages[i].role, messages[i].text>> : i \in Hashed(messages)}

ConversationKey(session, body) ==
    IF session # NoScope THEN session
    ELSE IF body = NoBody THEN NoScope
    ELSE IF body.messages = <<>> THEN NoScope ELSE Opening(body.messages)
=============================================================================
