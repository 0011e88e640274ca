--------------------------- MODULE ProfileHandler ---------------------------
(***************************************************************************)
(* The class-aware profile handler (gateway-plugin/                        *)
(* class_aware_reliability.go) on the requests of a conversation: which    *)
(* scheduling profiles it picks, and which result it makes primary.        *)
(*                                                                         *)
(* The framework that runs the picked profiles and calls Pick again is not *)
(* part of the repository; here each picked profile runs once and may fail.*)
(* A Go map's first key is any of its keys.                                *)
(***************************************************************************)
EXTENDS Conversation

CONSTANTS
    Configurations,   \* the sets of profiles an EndpointPickerConfig may name
    NoProfile         \* the empty PrimaryProfileName

ASSUME NoProfileIsNoName == \A profiles \in Configurations : NoProfile \notin profiles

VARIABLES
    profiles,   \* the profiles configured
    picked,     \* what Pick chose for the last request
    results,    \* of those, the ones that produced a result (the others are nil)
    primary,    \* what ProcessResults made of them
    seen        \* history: how many messages that request had

handlerVars == <<profiles, picked, results, primary, seen>>

\* The profiles a class prefers, the best first.
Preferred(class) ==
    CASE class = "tool" -> <<"prefix-affinity", "tool-affinity">>
      [] class = "rag"  -> <<"rag-affinity", "prefix-affinity">>
      [] OTHER          -> <<"round-robin">>

\* The first key of a map: any key, or none of an empty one.
AnyOf(available) == IF available = {} THEN {{}} ELSE {{name} : name \in available}

\* What Pick may select.
Pick(request, available) ==
    LET preferred == Preferred(Classify(request))
        wanted    == {i \in DOMAIN preferred : preferred[i] \in available}
    IN  IF wanted # {} THEN {{preferred[Min(wanted)]}} ELSE AnyOf(available)

\* What ProcessResults may name as primary.
ProcessResults(succeeded) == IF succeeded = {} THEN {NoProfile} ELSE succeeded

HandlerInit ==
    /\ Init
    /\ profiles \in Configurations
    /\ picked = {} /\ results = {} /\ primary = NoProfile /\ seen = 0

Schedule ==
    /\ Sent
    /\ picked' \in Pick(body, profiles)
    /\ results' \in SUBSET picked'
    /\ primary' \in ProcessResults(results')
    /\ seen' = Len(history)
    /\ UNCHANGED <<vars, profiles>>

HandlerNext == (Next /\ UNCHANGED handlerVars) \/ Schedule

HandlerSpec == HandlerInit /\ [][HandlerNext]_<<vars, handlerVars>>

-----------------------------------------------------------------------------
\* "The growing prefix" of a tool session stays where it is cached: once a request with a tool's
\* result was scheduled, every later request of the conversation is given the same profile,
\* whatever its last message looks like, if one of a tool turn's profiles is configured.
ToolTurnsKeepTheirProfile ==
    [][/\ HasRole(SubSeq(history, 1, seen), "tool")
       /\ profiles \cap Range(Preferred("tool")) # {}
       => picked' = picked]_<<vars, handlerVars>>
=============================================================================
