---------------------------- MODULE MCPreRequest ----------------------------
(***************************************************************************)
(* Two goroutines and two conversations: one under a session header, one   *)
(* under the hash of its opening, which unrelated clients may share.       *)
(***************************************************************************)
EXTENDS PreRequest

CONSTANTS search, slow, short, document, s1, p1, p2

System == [role |-> "system", text |-> short, calls |-> <<>>]
User(text) == [role |-> "user", text |-> text, calls |-> <<>>]
Called(tool) == [role |-> "assistant", text |-> short, calls |-> <<tool>>]
Result == [role |-> "tool", text |-> short, calls |-> <<>>]

Chat(messages) == [messages |-> messages, tools |-> FALSE]
Opener == Chat(<<System, User(short)>>)
ToolTurn(tool) == Chat(<<System, User(short), Called(tool), Result>>)
Question == Chat(<<User(short)>>)

From(session, body, asked) == [session |-> session, body |-> body, header |-> asked]

MCRequest ==
    {From(s1, Opener, NoHeader),
     From(s1, ToolTurn(search), NoHeader),
     From(s1, ToolTurn(slow), Asks(100, 0)),
     From(NoScope, ToolTurn(search), Asks(-1, 0)),
     From(NoScope, Question, Asks(10, 0)),
     From(NoScope, NoBody, Unparsed)}

MCSymmetry == Permutations(Proc)
=============================================================================
