------------------------- MODULE ConversationProofs -------------------------
(***************************************************************************)
(* What the plugin derives from the requests of one conversation, proved   *)
(* for every conversation: any length, any texts and calls, any            *)
(* configuration of profiles.                                              *)
(***************************************************************************)
EXTENDS ProfileHandler, FiniteSetTheorems, TLAPS

-----------------------------------------------------------------------------
(* The conversation *)

\* The client's side keeps its shape: a growing list of messages, and the calls still awaited.
ConversationTypeOK ==
    /\ tools \in BOOLEAN
    /\ history \in Seq(Message)
    /\ awaited \in Seq(Tool \cup {Unnamed})

\* What is awaited ends with the last call of the last message that calls anything.
AwaitsLastCaller ==
    awaited # <<>> =>
        \E i \in Callers(history) :
            /\ \A j \in Callers(history) : j <= i
            /\ Last(history[i].calls) = Last(awaited)

ConversationInv == ConversationTypeOK /\ AwaitsLastCaller

\* What every step of the client appends.
Said(message) == history' = Append(history, message)

LEMMA AppendedMessage ==
    ASSUME NEW messages \in Seq(Message), NEW message \in Message
    PROVE  /\ Append(messages, message) \in Seq(Message)
           /\ DOMAIN Append(messages, message) = DOMAIN messages \cup {Len(messages) + 1}
           /\ Len(messages) + 1 \notin DOMAIN messages
           /\ \A i \in DOMAIN messages : i \in Nat /\ i < Len(messages) + 1
           /\ \A i \in DOMAIN messages : Append(messages, message)[i] = messages[i]
           /\ Append(messages, message)[Len(messages) + 1] = message
  OBVIOUS

\* A message that calls nothing does not change who the callers are.
LEMMA NoNewCaller ==
    ASSUME NEW messages \in Seq(Message), NEW message \in Message, message.calls = <<>>
    PROVE  Callers(Append(messages, message)) = Callers(messages)
  BY AppendedMessage DEF Callers

LEMMA NewCaller ==
    ASSUME NEW messages \in Seq(Message), NEW message \in Message,
           message.role = "assistant", message.calls # <<>>
    PROVE  Callers(Append(messages, message)) = Callers(messages) \cup {Len(messages) + 1}
  BY AppendedMessage DEF Callers

LEMMA MessagesAreTyped ==
    ASSUME NEW t \in Text
    PROVE  /\ SystemMessage(t) \in Message /\ UserMessage(t) \in Message /\ ToolResult(t) \in Message
           /\ SystemMessage(t).calls = <<>> /\ UserMessage(t).calls = <<>> /\ ToolResult(t).calls = <<>>
           /\ \A calls \in Seq(Tool \cup {Unnamed}) :
                /\ Reply(t, calls) \in Message
                /\ Reply(t, calls).calls = calls /\ Reply(t, calls).role = "assistant"
  BY DEF SystemMessage, UserMessage, ToolResult, Reply, Message, Role

LEMMA CallListsAreTyped ==
    ASSUME NEW calls \in Calls \cup {<<>>}
    PROVE  calls \in Seq(Tool \cup {Unnamed})
<1>1. <<>> \in Seq(Tool \cup {Unnamed})
  OBVIOUS
<1> QED
  BY <1>1, CallsNameTools, Zenon

LEMMA InitIsTyped ==
    ASSUME Init PROVE ConversationTypeOK
<1>1. CASE history = <<>>
  BY <1>1 DEF Init, ConversationTypeOK
<1>2. CASE \E t \in Text : history = <<SystemMessage(t)>>
  BY <1>2, MessagesAreTyped DEF Init, ConversationTypeOK
<1> QED
  BY <1>1, <1>2 DEF Init

\* Whatever the client does, it says one more message.
LEMMA ClientStep ==
    ASSUME ConversationTypeOK, Next
    PROVE  /\ UNCHANGED <<session, tools>>
           /\ \E message \in Message : Said(message)
<1>1. CASE Ask
  BY <1>1, MessagesAreTyped DEF Ask, Say, Said
<1>2. CASE Answer
  <2>1. PICK t \in Text, calls \in Calls \cup {<<>>} : Say(Reply(t, calls))
    BY <1>2, RepliesAreText DEF Answer
  <2>2. Reply(t, calls) \in Message
    BY <2>1, CallListsAreTyped, MessagesAreTyped
  <2> QED
    BY <2>1, <2>2 DEF Say, Said
<1>3. CASE Return
  BY <1>3, MessagesAreTyped DEF Return, Say, Said
<1> QED
  BY <1>1, <1>2, <1>3 DEF Next

THEOREM ConversationInvHolds == Spec => []ConversationInv
<1>1. Init => ConversationInv
  <2> SUFFICES ASSUME Init PROVE ConversationInv
    OBVIOUS
  <2>1. ConversationTypeOK
    BY InitIsTyped
  <2> QED
    BY <2>1 DEF Init, ConversationInv, AwaitsLastCaller
<1>2. ConversationInv /\ [Next]_vars => ConversationInv'
  <2> SUFFICES ASSUME ConversationInv, [Next]_vars PROVE ConversationInv'
    OBVIOUS
  <2> USE DEF ConversationInv, ConversationTypeOK
  <2>1. CASE Ask
    <3>1. PICK t \in Text : Say(UserMessage(t))
      BY <2>1 DEF Ask
    <3> QED
      BY <2>1, <3>1, MessagesAreTyped, AppendedMessage DEF Ask, Say, AwaitsLastCaller
  <2>2. CASE Answer
    <3>1. PICK t \in Text, calls \in Calls \cup {<<>>} : Say(Reply(t, calls)) /\ awaited' = calls
      BY <2>2, RepliesAreText DEF Answer
    <3>2. calls \in Seq(Tool \cup {Unnamed})
      BY <3>1, CallListsAreTyped
    <3>3. Reply(t, calls) \in Message /\ Reply(t, calls).calls = calls
          /\ Reply(t, calls).role = "assistant"
      BY <3>2, MessagesAreTyped
    <3>4. history' = Append(history, Reply(t, calls)) /\ UNCHANGED tools
      BY <3>1 DEF Say
    <3>5. ConversationTypeOK'
      BY <3>1, <3>2, <3>3, <3>4, AppendedMessage
    <3>6. AwaitsLastCaller'
      <4> SUFFICES ASSUME calls # <<>>
                   PROVE  /\ \E i \in Callers(history') :
                                /\ \A j \in Callers(history') : j <= i
                                /\ Last(history'[i].calls) = Last(calls)
        BY <3>1 DEF AwaitsLastCaller
      <4>1. Callers(history') = Callers(history) \cup {Len(history) + 1}
        BY <3>3, <3>4, NewCaller
      <4>2. \A j \in Callers(history) : j <= Len(history) + 1
        BY DEF Callers
      <4>3. history'[Len(history) + 1].calls = calls
        BY <3>3, <3>4, AppendedMessage
      <4> QED
        BY <4>1, <4>2, <4>3
    <3> QED
      BY <3>5, <3>6
  <2>3. CASE Return
    <3>1. PICK t \in Text : Say(ToolResult(t))
      BY <2>3 DEF Return
    <3>2. ToolResult(t) \in Message /\ ToolResult(t).calls = <<>>
      BY MessagesAreTyped
    <3>3. history' = Append(history, ToolResult(t)) /\ UNCHANGED tools
      BY <3>1 DEF Say
    <3>4. awaited # <<>> /\ awaited' = Tail(awaited)
      BY <2>3 DEF Return
    <3>5. ConversationTypeOK'
      BY <3>2, <3>3, <3>4, AppendedMessage
    <3>6. AwaitsLastCaller'
      <4> SUFFICES ASSUME Tail(awaited) # <<>>
                   PROVE  \E i \in Callers(history') :
                                /\ \A j \in Callers(history') : j <= i
                                /\ Last(history'[i].calls) = Last(awaited')
        BY <3>4 DEF AwaitsLastCaller
      <4>1. Callers(history') = Callers(history)
        BY <3>2, <3>3, NoNewCaller
      <4>2. PICK i \in Callers(history) : /\ \A j \in Callers(history) : j <= i
                                          /\ Last(history[i].calls) = Last(awaited)
        BY <3>4 DEF AwaitsLastCaller
      <4>3. history'[i] = history[i]
        BY <3>2, <3>3, AppendedMessage DEF Callers
      <4>4. Last(awaited') = Last(awaited)
        BY <3>4 DEF Last
      <4> QED
        BY <4>1, <4>2, <4>3, <4>4
    <3> QED
      BY <3>5, <3>6
  <2>4. CASE UNCHANGED vars
    BY <2>4 DEF vars, AwaitsLastCaller
  <2> QED
    BY <2>1, <2>2, <2>3, <2>4 DEF Next
<1> QED
  BY <1>1, <1>2, PTL DEF Spec

-----------------------------------------------------------------------------
(* What is read off a request *)

LEMMA BodyIsSomeBody ==
    ASSUME NEW messages \in Seq(Message), NEW declared \in BOOLEAN
    PROVE  [messages |-> messages, tools |-> declared] # NoBody
  BY NoBodyIsNone DEF Body

\* Both look at the tool messages and the number of messages, in the same order; what parts them is
\* how each measures the last message, and the declared tools.
THEOREM ClassesDifferWithinLimits == Spec => []MirrorsWithinLimits
<1>1. ConversationInv => MirrorsWithinLimits
  <2> SUFFICES ASSUME ConversationInv, Sent
               PROVE  Classify(body) # classify(RequestView(history)) <=>
                        /\ ~HasRole(history, "tool")
                        /\ \/ tools /\ (Len(history) = 1 \/ Last(history).text \in LongInTokens)
                           \/ /\ ~tools /\ Len(history) > 1
                              /\ Last(history).text \in (LongInChars \ LongInTokens)
                                                           \cup (LongInTokens \ LongInChars)
    BY DEF MirrorsWithinLimits
  <2>1. history \in Seq(Message) /\ tools \in BOOLEAN /\ body # NoBody
    BY BodyIsSomeBody DEF ConversationInv, ConversationTypeOK, body
  <2>2. body.messages = history /\ body.tools = tools
    BY DEF body
  \* No request is sent without a message.
  <2>3. history # <<>> /\ Len(history) \in Nat /\ Len(history) >= 1
    BY <2>1 DEF Sent, lastRole
  <2> DEFINE view     == RequestView(history)
             answered == HasRole(history, "tool")
             chars    == Last(history).text \in LongInChars
             words    == Last(history).text \in LongInTokens
  <2>4. view.hasToolMessages = answered /\ view.numMessages = Len(history)
        /\ view.lastIsLong = words
    BY <2>3 DEF RequestView
  <2>5. Classify(body) =
          IF answered \/ tools THEN "tool"
          ELSE IF Len(history) <= 1 THEN "oneshot" ELSE IF chars THEN "rag" ELSE "tool"
    BY <2>1, <2>2 DEF Classify
  <2> HIDE DEF view
  <2>6. classify(view) =
          IF answered THEN "tool"
          ELSE IF Len(history) <= 1 THEN "oneshot" ELSE IF words THEN "rag" ELSE "tool"
    BY <2>4 DEF classify
  <2> HIDE DEF answered, chars, words
  <2>7. (Last(history).text \in (LongInChars \ LongInTokens) \cup (LongInTokens \ LongInChars))
          <=> ~(chars <=> words)
    BY DEF chars, words
  <2>8. chars \in BOOLEAN /\ words \in BOOLEAN
    BY DEF chars, words
  <2>9. Classify(body) # classify(view) <=>
          /\ ~answered
          /\ \/ tools /\ (Len(history) = 1 \/ words)
             \/ ~tools /\ Len(history) > 1 /\ ~(chars <=> words)
    <3>1. CASE answered
      BY <2>5, <2>6, <3>1
    <3>2. CASE ~answered /\ Len(history) = 1
      <4>1. Classify(body) = (IF tools THEN "tool" ELSE "oneshot") /\ classify(view) = "oneshot"
        BY <2>5, <2>6, <3>2
      <4> QED
        BY <3>2, <4>1
    <3>3. CASE ~answered /\ Len(history) > 1
      <4>1. Classify(body) = (IF tools THEN "tool" ELSE IF chars THEN "rag" ELSE "tool")
        BY <2>3, <2>5, <3>3
      <4>2. classify(view) = (IF words THEN "rag" ELSE "tool")
        BY <2>3, <2>6, <3>3
      <4>3. Len(history) # 1
        <5> DEFINE length == Len(history)
        <5>1. length \in Nat /\ length > 1
          BY <2>3, <3>3
        <5> HIDE DEF length
        <5>2. length # 1
          BY <5>1
        <5> QED
          BY <5>2 DEF length
      <4>4. CASE tools
        BY <3>3, <4>1, <4>2, <4>3, <4>4
      <4>5. CASE ~tools /\ chars
        BY <3>3, <4>1, <4>2, <4>5
      <4>6. CASE ~tools /\ ~chars
        BY <3>3, <4>1, <4>2, <4>6
      <4> QED
        BY <2>8, <4>4, <4>5, <4>6
    <3> QED
      BY <2>3, <3>1, <3>2, <3>3
  <2> QED
    BY <2>7, <2>9, Zenon DEF view, answered, words
<1> QED
  BY <1>1, ConversationInvHolds, PTL

\* The tool of the result that was just returned is named, whatever was called before it.
LEMMA LastCallerIsNamed ==
    ASSUME NEW messages \in Seq(Message), NEW declared \in BOOLEAN, NEW i \in Callers(messages),
           \A j \in Callers(messages) : j <= i
    PROVE  LastToolName([messages |-> messages, tools |-> declared])
             = CalledName(Last(messages[i].calls))
<1>1. Max(Callers(messages)) = i
  <2>1. \A j \in Callers(messages) : j \in Nat
    BY DEF Callers
  <2> QED
    BY <2>1 DEF Max
<1> QED
  BY <1>1, BodyIsSomeBody DEF LastToolName

THEOREM AwaitedToolIsNamed == Spec => NamesTheAwaitedTool
<1>1. ConversationInv /\ ConversationInv' /\ [Next]_vars
        => [(awaited # <<>> /\ Tail(awaited) = <<>> /\ awaited' = <<>>)
              => LastToolName(body') = CalledName(Head(awaited))]_vars
  <2> SUFFICES ASSUME ConversationInv, ConversationInv', Next,
                      awaited # <<>>, Tail(awaited) = <<>>, awaited' = <<>>
               PROVE  LastToolName(body') = CalledName(Head(awaited))
    BY DEF vars
  <2> USE DEF ConversationInv, ConversationTypeOK
  <2>1. Return
    BY DEF Next, Ask, Answer
  <2>2. PICK t \in Text : Say(ToolResult(t))
    BY <2>1 DEF Return
  <2>3. ToolResult(t) \in Message /\ ToolResult(t).calls = <<>>
    BY MessagesAreTyped
  <2>4. history' = Append(history, ToolResult(t))
    BY <2>2 DEF Say
  <2>5. PICK i \in Callers(history) : /\ \A j \in Callers(history) : j <= i
                                      /\ Last(history[i].calls) = Last(awaited)
    BY DEF AwaitsLastCaller
  <2>6. Callers(history') = Callers(history)
    BY <2>3, <2>4, NoNewCaller
  <2>7. history'[i] = history[i]
    BY <2>3, <2>4, AppendedMessage DEF Callers
  <2>8. LastToolName([messages |-> history', tools |-> tools'])
          = CalledName(Last(history'[i].calls))
    BY <2>5, <2>6, LastCallerIsNamed
  <2>9. Last(awaited) = Head(awaited)
    BY DEF Last
  <2> QED
    BY <2>5, <2>7, <2>8, <2>9 DEF body
<1> QED
  BY <1>1, ConversationInvHolds, PTL DEF Spec, NamesTheAwaitedTool


\* Once two of them were said, what a client adds no longer changes what is hashed.
LEMMA OpeningIsKept ==
    ASSUME NEW messages \in Seq(Message), NEW message \in Message,
           Cardinality(Stable(messages)) >= 2
    PROVE  Opening(Append(messages, message)) = Opening(messages)
<1> DEFINE longer == Append(messages, message)
           last   == Len(messages) + 1
<1>1. /\ DOMAIN longer = DOMAIN messages \cup {last} /\ last \notin DOMAIN messages
      /\ \A i \in DOMAIN messages : i \in Nat /\ i < last /\ longer[i] = messages[i]
      /\ last \in Nat
  BY AppendedMessage
<1> HIDE DEF longer, last
<1>2. \A i \in DOMAIN messages : i \in Stable(longer) <=> i \in Stable(messages)
  BY <1>1 DEF Stable
<1>3. Stable(messages) \subseteq DOMAIN messages /\ Stable(longer) \subseteq DOMAIN messages \cup {last}
  BY <1>1 DEF Stable
<1>4. \A i \in DOMAIN messages : Rank(longer, i) = Rank(messages, i)
  <2> SUFFICES ASSUME NEW i \in DOMAIN messages PROVE Rank(longer, i) = Rank(messages, i)
    OBVIOUS
  <2>1. ~(last < i)
    BY <1>1
  <2>2. {j \in Stable(longer) : j < i} = {j \in Stable(messages) : j < i}
    BY <1>2, <1>3, <2>1
  <2> QED
    BY <2>2, Zenon DEF Rank
<1>5. last \notin Hashed(longer)
  <2>1. {j \in Stable(longer) : j < last} = Stable(messages)
    BY <1>1, <1>2, <1>3
  <2>2. Rank(longer, last) = Cardinality(Stable(messages))
    BY <2>1, Zenon DEF Rank
  <2>3. IsFiniteSet(Stable(messages))
    <3>1. DOMAIN messages = 1..Len(messages) /\ Len(messages) \in Nat
      OBVIOUS
    <3>2. IsFiniteSet(1..Len(messages))
      BY <3>1, FS_Interval
    <3> QED
      BY <1>3, <3>1, <3>2, FS_Subset, Zenon
  <2>4. Cardinality(Stable(messages)) \in Nat
    BY <2>3, FS_CardinalityType
  <2>5. ~(Rank(longer, last) < 2)
    BY <2>2, <2>4
  <2> QED
    BY <2>5 DEF Hashed
<1>6. Hashed(longer) = Hashed(messages)
  BY <1>2, <1>3, <1>4, <1>5 DEF Hashed
<1>7. \A i \in Hashed(messages) : Rank(longer, i) = Rank(messages, i) /\ longer[i] = messages[i]
  BY <1>1, <1>3, <1>4 DEF Hashed
<1> QED
  BY <1>6, <1>7 DEF Opening, longer

THEOREM KeyIsFixedOnceOpened == Spec => KeyFixedOnceOpened
<1>1. ConversationInv /\ [Next]_vars
        => [Cardinality(Stable(history)) >= 2
              => ConversationKey(session, body)' = ConversationKey(session, body)]_vars
  <2> SUFFICES ASSUME ConversationInv, Next, Cardinality(Stable(history)) >= 2
               PROVE  ConversationKey(session, body)' = ConversationKey(session, body)
    BY DEF vars
  <2>1. history \in Seq(Message) /\ tools \in BOOLEAN
    BY DEF ConversationInv, ConversationTypeOK
  <2>2. PICK message \in Message : Said(message) /\ UNCHANGED <<session, tools>>
    BY ClientStep DEF ConversationInv
  <2>3. Opening(history') = Opening(history)
    BY <2>1, <2>2, OpeningIsKept DEF Said
  <2>4. body.messages = history /\ body'.messages = history'
    BY DEF body
  <2>5. body # NoBody /\ body' # NoBody
    <3>1. history' \in Seq(Message) /\ tools' \in BOOLEAN
      BY <2>1, <2>2, AppendedMessage DEF Said
    <3> QED
      BY <2>1, <3>1, BodyIsSomeBody DEF body
  <2>6. history # <<>> /\ history' # <<>>
    <3>1. history # <<>>
      <4> SUFFICES ASSUME history = <<>> PROVE FALSE
        OBVIOUS
      <4>1. Stable(history) = {}
        BY DEF Stable
      <4>2. Cardinality(Stable(history)) = 0
        BY <4>1, FS_EmptySet, Zenon
      <4> QED
        BY <4>2
    <3> QED
      BY <3>1, <2>1, <2>2 DEF Said
  <2> QED
    BY <2>2, <2>3, <2>4, <2>5, <2>6 DEF ConversationKey
<1> QED
  BY <1>1, ConversationInvHolds, PTL DEF Spec, KeyFixedOnceOpened

-----------------------------------------------------------------------------
(* The profile handler beside it *)

\* The handler only watches: with it, the client's conversation is the same one.
THEOREM HandlerIsAWatcher == HandlerSpec => Spec
<1>1. HandlerInit => Init
  BY DEF HandlerInit
<1>2. [HandlerNext]_<<vars, handlerVars>> => [Next]_vars
  BY DEF HandlerNext, Schedule
<1> QED
  BY <1>1, <1>2, PTL DEF HandlerSpec, Spec

\* What was picked is what Pick selects for the part of the conversation it has seen.
HandlerInv ==
    /\ seen \in 0..Len(history)
    /\ seen > 0 => picked \in Pick([messages |-> SubSeq(history, 1, seen), tools |-> tools], profiles)

LEMMA PrefixIsKept ==
    ASSUME NEW messages \in Seq(Message), NEW message \in Message, NEW n \in 0..Len(messages)
    PROVE  SubSeq(Append(messages, message), 1, n) = SubSeq(messages, 1, n)
  OBVIOUS

THEOREM HandlerInvHolds == HandlerSpec => []HandlerInv
<1>1. HandlerInit => HandlerInv
  <2> SUFFICES ASSUME HandlerInit PROVE HandlerInv
    OBVIOUS
  <2>1. history \in Seq(Message)
    BY InitIsTyped DEF HandlerInit, ConversationTypeOK
  <2> QED
    BY <2>1 DEF HandlerInit, HandlerInv
<1>2. ConversationInv /\ HandlerInv /\ [HandlerNext]_<<vars, handlerVars>> => HandlerInv'
  <2> SUFFICES ASSUME ConversationInv, HandlerInv, [HandlerNext]_<<vars, handlerVars>>
               PROVE  HandlerInv'
    OBVIOUS
  <2>0. history \in Seq(Message) /\ tools \in BOOLEAN
    BY DEF ConversationInv, ConversationTypeOK
  <2>1. CASE Next /\ UNCHANGED handlerVars
    <3>1. PICK message \in Message : Said(message) /\ UNCHANGED tools
      BY <2>1, ClientStep DEF ConversationInv
    <3>2. Len(history') = Len(history) + 1
      BY <2>0, <3>1 DEF Said
    <3>3. SubSeq(history', 1, seen) = SubSeq(history, 1, seen)
      BY <2>0, <3>1, PrefixIsKept DEF Said, HandlerInv
    <3>4. UNCHANGED <<seen, picked, profiles>>
      BY <2>1 DEF handlerVars
    <3>5. seen' \in 0..Len(history')
      BY <2>0, <3>2, <3>4 DEF HandlerInv
    <3> QED
      BY <3>1, <3>3, <3>4, <3>5 DEF HandlerInv
  <2>2. CASE Schedule
    <3>1. /\ UNCHANGED <<history, tools, profiles>>
          /\ picked' \in Pick(body, profiles)
          /\ seen' = Len(history)
      BY <2>2 DEF Schedule, vars
    <3>2. SubSeq(history, 1, seen') = history
      BY <2>0, <3>1
    <3>3. seen' \in 0..Len(history')
      BY <2>0, <3>1
    <3> QED
      BY <3>1, <3>2, <3>3 DEF HandlerInv, body
  <2>3. CASE UNCHANGED <<vars, handlerVars>>
    BY <2>3 DEF HandlerInv, vars, handlerVars
  <2> QED
    BY <2>1, <2>2, <2>3 DEF HandlerNext
<1> QED
  BY <1>1, <1>2, HandlerIsAWatcher, ConversationInvHolds, PTL DEF HandlerSpec

\* What Pick selects for a request with a tool's result depends on the configuration alone.
LEMMA ToolPick ==
    ASSUME NEW request, request # NoBody, HasRole(request.messages, "tool"),
           NEW available, available \cap Range(Preferred("tool")) # {}
    PROVE  Pick(request, available) =
             {{Preferred("tool")[Min({i \in DOMAIN Preferred("tool") : Preferred("tool")[i] \in available})]}}
<1>1. Classify(request) = "tool"
  BY DEF Classify
<1>2. {i \in DOMAIN Preferred("tool") : Preferred("tool")[i] \in available} # {}
  BY DEF Range
<1> QED
  BY <1>1, <1>2 DEF Pick

THEOREM ToolTurnsStay == HandlerSpec => ToolTurnsKeepTheirProfile
<1>1. ConversationInv /\ HandlerInv /\ [HandlerNext]_<<vars, handlerVars>>
        => [/\ HasRole(SubSeq(history, 1, seen), "tool")
            /\ profiles \cap Range(Preferred("tool")) # {}
            => picked' = picked]_<<vars, handlerVars>>
  <2> SUFFICES ASSUME ConversationInv, HandlerInv, HandlerNext,
                      HasRole(SubSeq(history, 1, seen), "tool"),
                      profiles \cap Range(Preferred("tool")) # {}
               PROVE  picked' = picked
    OBVIOUS
  <2>0. history \in Seq(Message) /\ tools \in BOOLEAN
    BY DEF ConversationInv, ConversationTypeOK
  <2>1. CASE Next /\ UNCHANGED handlerVars
    BY <2>1 DEF handlerVars
  <2>2. CASE Schedule
    <3> DEFINE part == SubSeq(history, 1, seen)
               then == [messages |-> part, tools |-> tools]
    <3>1. part \in Seq(Message) /\ DOMAIN part = 1..seen /\ seen \in 0..Len(history)
          /\ \A i \in 1..seen : part[i] = history[i]
      BY <2>0 DEF HandlerInv
    <3>2. seen > 0
      BY <3>1 DEF HasRole
    <3>3. HasRole(history, "tool")
      BY <2>0, <3>1 DEF HasRole
    <3>4. then # NoBody /\ body # NoBody
      BY <2>0, <3>1, BodyIsSomeBody DEF body
    <3>5. Pick(body, profiles) = Pick(then, profiles)
      <4>1. then.messages = part /\ body.messages = history
        BY DEF body
      <4> QED
        BY <3>3, <3>4, <4>1, ToolPick
    <3>6. picked' \in Pick(body, profiles) /\ picked \in Pick(then, profiles)
      BY <2>2, <3>2 DEF Schedule, HandlerInv
    <3>7. \E x : Pick(then, profiles) = {x}
      <4>1. then.messages = part
        OBVIOUS
      <4> QED
        BY <3>4, <4>1, ToolPick
    <3> HIDE DEF then, part
    <3>8. PICK x : Pick(then, profiles) = {x}
      BY <3>7
    <3>9. picked' = x /\ picked = x
      BY <3>5, <3>6, <3>8
    <3> QED
      BY <3>9
  <2> QED
    BY <2>1, <2>2 DEF HandlerNext
<1> QED
  BY <1>1, HandlerIsAWatcher, ConversationInvHolds, HandlerInvHolds, PTL
    DEF HandlerSpec, ToolTurnsKeepTheirProfile
=============================================================================
