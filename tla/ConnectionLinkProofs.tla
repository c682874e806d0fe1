------------------------ MODULE ConnectionLinkProofs ------------------------
(***************************************************************************)
(* The connection implements Link, for every capacity of its queues: each  *)
(* step of Connection is a step of Link or leaves what Link sees of it     *)
(* unchanged.                                                              *)
(***************************************************************************)
EXTENDS ConnectionProofs

\* What Link sees as transit and as open.
Transit == IF peer THEN to_switch \o in_hand \o send_q ELSE <<>>
Open    == accepting /\ peer

-----------------------------------------------------------------------------
(* Sequences.                                                              *)

LEMMA Empty ==
  ASSUME NEW S, NEW s \in Seq(S)
  PROVE  s \o <<>> = s /\ <<>> \o s = s
OBVIOUS

LEMMA HeadMoves ==
  ASSUME NEW S, NEW s \in Seq(S), NEW t \in Seq(S), t # <<>>
  PROVE  (s \o <<Head(t)>>) \o Tail(t) = s \o t
<1>1. <<Head(t)>> \in Seq(S) /\ Tail(t) \in Seq(S) /\ Head(t) \in S
  BY TailType, ShortSeq
<1>2. (s \o <<Head(t)>>) \o Tail(t) = s \o (<<Head(t)>> \o Tail(t))
  BY <1>1, ConcatAssociative
<1>3. <<Head(t)>> \o Tail(t) = t
  OBVIOUS
<1> QED
  BY <1>2, <1>3

LEMMA AppendMoves ==
  ASSUME NEW S, NEW s \in Seq(S), NEW t \in Seq(S), NEW m \in S
  PROVE  s \o Append(t, m) = Append(s \o t, m)
OBVIOUS

LEMMA TailMoves ==
  ASSUME NEW S, NEW s \in Seq(S), NEW t \in Seq(S), s # <<>>
  PROVE  Tail(s) \o t = Tail(s \o t) /\ s \o t # <<>>
OBVIOUS

LEMMA IsBeginning ==
  ASSUME NEW S, NEW s \in Seq(S), NEW t \in Seq(S)
  PROVE  s \in L!Beginnings(s \o t) /\ <<>> \in L!Beginnings(s)
<1>1. Len(s) \in 0..Len(s \o t)
  OBVIOUS
<1>2. SubSeq(s \o t, 1, Len(s)) = s
  OBVIOUS
<1>3. SubSeq(s, 1, 0) = <<>> /\ 0 \in 0..Len(s)
  OBVIOUS
<1> QED
  BY <1>1, <1>2, <1>3 DEF L!Beginnings

-----------------------------------------------------------------------------
(* Steps.                                                                  *)

LEMMA LinkStutter ==
  ASSUME Transit' = Transit, Open' = Open
  PROVE  UNCHANGED L!vars
BY DEF Transit, Open, L!vars

LEMMA LinkCloses ==
  ASSUME ~Open', Transit' \in L!Beginnings(Transit)
  PROVE  L!Next
<1>1. L!Close
  BY DEF Transit, Open, L!Close
<1> QED
  BY <1>1 DEF L!Next

LEMMA StreamTypes ==
  ASSUME QueueInv
  PROVE  /\ to_switch \in Seq(ToSwitch) /\ in_hand \in Seq(ToSwitch)
         /\ send_q \in Seq(ToSwitch)
         /\ to_switch \o in_hand \in Seq(ToSwitch)
         /\ to_switch \o in_hand \o send_q \in Seq(ToSwitch)
         /\ Transit \in Seq(ToSwitch)
         /\ accepting \in BOOLEAN /\ peer \in BOOLEAN
<1>1. /\ to_switch \in Seq(ToSwitch) /\ in_hand \in Seq(ToSwitch) /\ send_q \in Seq(ToSwitch)
      /\ accepting \in BOOLEAN /\ peer \in BOOLEAN
  BY DEF QueueInv, TypeParts
<1>2. to_switch \o in_hand \in Seq(ToSwitch)
  BY <1>1, ConcatType
<1>3. to_switch \o in_hand \o send_q \in Seq(ToSwitch)
  BY <1>1, <1>2, ConcatType
<1> QED
  BY <1>1, <1>2, <1>3, ShortSeq DEF Transit

(* A message that Datapath.send queues is accepted by the link; one that   *)
(* it drops, or queues when the switch is gone, leaves the link alone.     *)
LEMMA SendIsAccept ==
  ASSUME QueueInv, NEW m \in ToSwitch,
         send_q' = IF accepting THEN Append(send_q, m) ELSE send_q,
         UNCHANGED <<accepting, in_hand, to_switch, peer>>
  PROVE  [L!Next]_(L!vars)
<1>1. CASE accepting /\ peer
  <2>1. Transit' = Append(Transit, m)
    BY <1>1, StreamTypes, AppendMoves DEF Transit
  <2>2. L!Accept
    BY <1>1, <2>1 DEF L!Accept, Transit
  <2> QED
    BY <2>2 DEF L!Next
<1>2. CASE ~(accepting /\ peer)
  <2>1. Transit' = Transit /\ Open' = Open
    BY <1>2 DEF Transit, Open
  <2> QED
    BY <2>1, LinkStutter
<1> QED
  BY <1>1, <1>2

LEMMA SendersLink ==
  ASSUME QueueInv, (\E t \in Threads : SendNow(t) \/ SendWait(t)) \/ Wake
  PROVE  [L!Next]_(L!vars)
<1>1. ASSUME NEW t \in Threads, SendNow(t) PROVE [L!Next]_(L!vars)
  <2>1. Head(todo[t]).what \in ToSwitch
    BY <1>1, SendingThread DEF SendNow
  <2> QED
    BY <1>1, <2>1, SendIsAccept DEF SendNow
<1>2. ASSUME UNCHANGED <<send_q, accepting, in_hand, to_switch, peer>>
      PROVE  [L!Next]_(L!vars)
  BY <1>2, LinkStutter DEF Transit, Open
<1>3. ASSUME NEW t \in Threads, SendWait(t) PROVE [L!Next]_(L!vars)
  BY <1>2, <1>3 DEF SendWait
<1>4. CASE Wake
  <2>1. CASE Free \/ sem = 0
    BY <1>2, <1>4, <2>1 DEF Wake
  <2>2. CASE ~(Free \/ sem = 0)
    <3>1. /\ waiters # <<>> /\ waiters' = Tail(waiters)
          /\ todo' = [todo EXCEPT ![Head(waiters)] = Tail(@)]
          /\ send_q' = IF accepting THEN Append(send_q, Head(todo[Head(waiters)]).what)
                                    ELSE send_q
          /\ UNCHANGED <<accepting, in_hand, to_switch, peer>>
      BY <1>4, <2>2 DEF Wake, Free
    <3>2. Head(waiters) \in Threads /\ Sends(Head(waiters))
      BY <3>1, FirstLeaves
    <3>3. Head(todo[Head(waiters)]).what \in ToSwitch
      BY <3>2, SendingThread
    <3> QED
      BY <3>1, <3>3, SendIsAccept
  <2> QED
    BY <2>1, <2>2
<1> QED
  BY <1>1, <1>3, <1>4

(* The send loop moves what is in transit along; when it ends, what is not *)
(* yet written is cut off.                                                 *)
LEMMA SendLoopLink ==
  ASSUME QueueInv, SendLoop \/ KillSendLoop
  PROVE  [L!Next]_(L!vars)
<1>1. CASE TakeMessage
  <2>1. /\ in_hand = <<>> /\ send_q # <<>> /\ in_hand' = <<Head(send_q)>>
        /\ send_q' = Tail(send_q)
        /\ UNCHANGED <<accepting, to_switch, peer>>
    BY <1>1 DEF TakeMessage
  <2>2. to_switch \o <<>> = to_switch
    BY StreamTypes, Empty
  <2>3. (to_switch \o <<Head(send_q)>>) \o Tail(send_q) = to_switch \o send_q
    BY <2>1, StreamTypes, HeadMoves
  <2>4. Transit' = Transit /\ Open' = Open
    BY <2>1, <2>2, <2>3 DEF Transit, Open
  <2> QED
    BY <2>4, LinkStutter
<1>2. (to_switch \o in_hand) \o <<>> = to_switch \o in_hand
  BY StreamTypes, Empty
<1>3. CASE WriteMessage
  <2>1. /\ to_switch' = to_switch \o in_hand /\ in_hand' = <<>>
        /\ UNCHANGED <<accepting, send_q, peer>>
    BY <1>3 DEF WriteMessage, queue_vars
  <2>2. Transit' = Transit /\ Open' = Open
    BY <1>2, <2>1 DEF Transit, Open
  <2> QED
    BY <2>2, LinkStutter
<1>4. CASE WriteAndClose
  <2>1. /\ to_switch' = to_switch \o in_hand /\ in_hand' = <<>> /\ send_q' = <<>>
        /\ accepting' = FALSE /\ peer' = peer /\ peer
    BY <1>4 DEF WriteAndClose, EndSendLoop
  <2>2. Transit' = to_switch \o in_hand
    BY <1>2, <2>1 DEF Transit
  <2>3. to_switch \o in_hand \in L!Beginnings(to_switch \o in_hand \o send_q)
    BY StreamTypes, IsBeginning
  <2>4. Transit' \in L!Beginnings(Transit) /\ ~Open'
    BY <2>1, <2>2, <2>3 DEF Transit, Open
  <2> QED
    BY <2>4, LinkCloses
<1>5. CASE SendFails \/ KillSendLoop
  <2>1. /\ to_switch' = to_switch /\ in_hand' = <<>> /\ send_q' = <<>>
        /\ accepting' = FALSE /\ peer' = peer
    BY <1>5 DEF SendFails, KillSendLoop, EndSendLoop
  <2>2. to_switch \o <<>> = to_switch /\ to_switch \o <<>> \o <<>> = to_switch
    BY StreamTypes, Empty
  <2>3. to_switch \in L!Beginnings(to_switch \o (in_hand \o send_q))
    BY StreamTypes, ConcatType, IsBeginning
  <2>4. to_switch \o (in_hand \o send_q) = to_switch \o in_hand \o send_q
    BY StreamTypes, ConcatAssociative
  <2>5. <<>> \in L!Beginnings(<<>>)
    <3>1. <<>> \in Seq(ToSwitch)
      BY ShortSeq
    <3> QED
      BY <3>1, IsBeginning
  <2>6. Transit' \in L!Beginnings(Transit) /\ ~Open'
    BY <2>1, <2>2, <2>3, <2>4, <2>5 DEF Transit, Open
  <2> QED
    BY <2>6, LinkCloses
<1> QED
  BY <1>1, <1>3, <1>4, <1>5 DEF SendLoop

(* The switch takes the first message of the link.                         *)
LEMMA SwitchLink ==
  ASSUME QueueInv, Switch \/ SwitchSends \/ SwitchFails
  PROVE  [L!Next]_(L!vars)
<1>1. CASE SwitchReads
  <2>1. /\ peer /\ to_switch # <<>> /\ to_switch' = Tail(to_switch)
        /\ UNCHANGED <<accepting, in_hand, send_q, peer>>
    BY <1>1 DEF SwitchReads, queue_vars
  <2>2. /\ Tail(to_switch) \o in_hand = Tail(to_switch \o in_hand)
        /\ to_switch \o in_hand # <<>>
    BY <2>1, StreamTypes, TailMoves
  <2>3. /\ Tail(to_switch \o in_hand) \o send_q = Tail(to_switch \o in_hand \o send_q)
        /\ to_switch \o in_hand \o send_q # <<>>
    BY <2>2, StreamTypes, TailMoves
  <2>4. Transit # <<>> /\ Transit' = Tail(Transit) /\ Open' = Open
    BY <2>1, <2>2, <2>3 DEF Transit, Open
  <2>5. L!Deliver
    BY <2>4 DEF L!Deliver, Transit, Open
  <2> QED
    BY <2>5 DEF L!Next
<1>2. CASE SwitchAnswers \/ SwitchSends
  <2>1. UNCHANGED <<accepting, in_hand, send_q, to_switch, peer>>
    BY <1>2 DEF SwitchAnswers, SwitchSends, queue_vars
  <2> QED
    BY <2>1, LinkStutter DEF Transit, Open
<1>3. CASE SwitchCloses \/ SwitchFails
  <2>1. peer' = FALSE
    BY <1>3 DEF SwitchCloses, SwitchFails
  <2>2. Transit' = <<>> /\ ~Open'
    BY <2>1 DEF Transit, Open
  <2>3. <<>> \in L!Beginnings(Transit)
    BY StreamTypes, IsBeginning
  <2> QED
    BY <2>2, <2>3, LinkCloses
<1> QED
  BY <1>1, <1>2, <1>3 DEF Switch

LEMMA LinkStep == QueueInv /\ [Next]_vars => [L!Next]_(L!vars)
<1> SUFFICES ASSUME QueueInv, [Next]_vars PROVE [L!Next]_(L!vars)
  OBVIOUS
<1>1. CASE RecvLoop \/ CloseDatapath \/ TakeEvent \/ RestRequest \/ UNCHANGED vars
  <2>1. UNCHANGED <<accepting, in_hand, send_q, to_switch, peer>>
    BY <1>1 DEF RecvLoop, ReceiveHello, ReceivePortDesc, ReceiveOther, PutEvent,
                EndReceiveLoop, CloseDatapath, TakeEvent, RestRequest, vars, queue_vars
  <2> QED
    BY <2>1, LinkStutter DEF Transit, Open
<1>2. CASE ~(RecvLoop \/ CloseDatapath \/ TakeEvent \/ RestRequest \/ UNCHANGED vars)
  BY <1>2, SendersLink, SendLoopLink, SwitchLink DEF Next
<1> QED
  BY <1>1, <1>2

LEMMA LinkInit == Init => L!Init
<1> SUFFICES ASSUME Init PROVE L!Init
  OBVIOUS
<1>1. "hello" \in ToSwitch
  BY DEF ToSwitch
<1>2. <<>> \o <<>> \o <<"hello">> = <<"hello">>
  OBVIOUS
<1>3. Transit = <<"hello">> /\ Open
  BY <1>2 DEF Init, Transit, Open
<1> QED
  BY <1>1, <1>3 DEF L!Init, Transit, Open

(* For every capacity of the queues, what Datapath.send accepts reaches    *)
(* the switch in order and without a gap, up to the point where the end of *)
(* the connection cuts it off: Connection implements Link.                 *)
THEOREM ConnectionImplementsLink == Spec => ImplementsLink
<1>1. Init /\ QueueInv => L!Init
  BY LinkInit
<1> QED
  BY <1>1, LinkStep, QueueAlways, PTL DEF Spec, ImplementsLink, L!Spec
=============================================================================
