-------------------------------- MODULE Link --------------------------------
(***************************************************************************)
(* What Datapath.send promises its callers: an ordered link to the switch  *)
(* that loses nothing while it is open.  When it closes, what is in        *)
(* transit is cut off at some point: the switch still gets a beginning of  *)
(* it, never a message whose predecessor was lost.  Firewall relies on     *)
(* this and on nothing else of a connection.                               *)
(***************************************************************************)
EXTENDS Sequences, Naturals

CONSTANT Messages    \* what may be sent

VARIABLES
  transit,           \* accepted and not yet received by the switch
  open               \* the link still accepts messages

vars == <<transit, open>>

Beginnings(s) == {SubSeq(s, 1, n) : n \in 0..Len(s)}

Init ==
  /\ open = TRUE
  /\ \E m \in Messages : transit = <<m>>

Accept ==
  /\ open
  /\ \E m \in Messages : transit' = Append(transit, m)
  /\ UNCHANGED open

Deliver ==
  /\ transit # <<>>
  /\ transit' = Tail(transit)
  /\ UNCHANGED open

Close ==
  /\ open' = FALSE
  /\ transit' \in Beginnings(transit)

Next == Accept \/ Deliver \/ Close

Spec == Init /\ [][Next]_vars
=============================================================================
