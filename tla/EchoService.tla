---------------------------- MODULE EchoService ----------------------------
(***************************************************************************)
(* What p2's two programs promise together: every client gets back its own *)
(* messages, whole, once each and in the order it sent them.  Only when    *)
(* the service has ended may a client see a last message cut short.        *)
(***************************************************************************)
EXTENDS Naturals, Sequences

CONSTANTS Clients, CutShort
VARIABLES
  sent,     \* how many messages a client has sent: 1, 2, ...
  echoed,   \* the messages a client got back
  up        \* does the service run?

vars == <<sent, echoed, up>>

Init ==
  /\ sent = [c \in Clients |-> 0]
  /\ echoed = [c \in Clients |-> <<>>]
  /\ up = TRUE

Send(c) ==
  /\ sent' = [sent EXCEPT ![c] = @ + 1]
  /\ UNCHANGED <<echoed, up>>

Echo(c) ==
  /\ Len(echoed[c]) < sent[c]
  /\ echoed' = [echoed EXCEPT ![c] = Append(@, Len(@) + 1)]
  /\ UNCHANGED <<sent, up>>

Truncate(c) ==
  /\ ~up /\ Len(echoed[c]) < sent[c]
  /\ echoed' = [echoed EXCEPT ![c] = Append(@, CutShort)]
  /\ UNCHANGED <<sent, up>>

End == up /\ up' = FALSE /\ UNCHANGED <<sent, echoed>>

Next == End \/ \E c \in Clients : Send(c) \/ Echo(c) \/ Truncate(c)

Spec == Init /\ [][Next]_vars
=============================================================================
