--------------------------- MODULE ConnectionProofs ---------------------------
(***************************************************************************)
(* Proofs about Connection, for every set of versions, every hello and     *)
(* every capacity of its queues.                                           *)
(***************************************************************************)
EXTENDS Connection, FiniteSetTheorems, SequenceTheorems, TLAPS

-----------------------------------------------------------------------------
(* Versions.                                                               *)

(* A finite set of numbers has a highest one.  For each number take the    *)
(* set of those above it: one of these sets has none of them inside it.    *)
LEMMA HighestExists ==
  ASSUME NEW S \in SUBSET Nat, S # {}, IsFiniteSet(S)
  PROVE  Highest(S) \in S /\ \A w \in S : w <= Highest(S)
<1> DEFINE above(v) == {w \in S : w > v}
           R        == StrictSubsetOrdering(S)
           T        == {above(v) : v \in S}
<1>1. IsWellFoundedOn(R, FiniteSubsetsOf(S))
  BY FS_StrictSubsetOrderingWellFounded
<1>2. T \subseteq FiniteSubsetsOf(S)
  BY FS_FiniteSubsetsOfFinite
<1>3. T # {}
  OBVIOUS
<1>4. PICK x \in T : \A y \in T : <<y, x>> \notin R
  BY <1>1, <1>2, <1>3, WFMin
<1>5. PICK v \in S : x = above(v)
  OBVIOUS
<1>6. ASSUME NEW w \in S, ~(w <= v) PROVE FALSE
  <2>1. w > v /\ w \in Nat /\ v \in Nat
    BY <1>6
  <2>2. above(w) \subseteq above(v)
    <3>1. ASSUME NEW u \in S, u > w PROVE u > v
      <4>1. u \in Nat
        OBVIOUS
      <4> QED
        BY <2>1, <3>1, <4>1
    <3> QED
      BY <3>1
  <2>3. w \in above(v) /\ w \notin above(w)
    BY <2>1
  <2>4. <<above(w), above(v)>> \in R
    BY <2>2, <2>3 DEF StrictSubsetOrdering
  <2>5. above(w) \in T
    OBVIOUS
  <2> QED
    BY <1>4, <1>5, <2>4, <2>5
<1>7. \E u \in S : \A w \in S : w <= u
  BY <1>6
<1> QED
  BY <1>7 DEF Highest

LEMMA UsableHighest ==
  ASSUME NEW h \in Hellos, Usable(h) # {}
  PROVE  /\ Highest(Usable(h)) \in Usable(h)
         /\ Highest(Usable(h)) \in Supported /\ Highest(Usable(h)) # 0
<1>1. Usable(h) \in SUBSET Supported
  BY DEF Usable
<1>2. Usable(h) \in SUBSET Nat /\ IsFiniteSet(Usable(h))
  BY <1>1, ConnectionAssumption, FS_Subset
<1>3. Highest(Usable(h)) \in Usable(h)
  BY <1>2, HighestExists
<1> QED
  BY <1>1, <1>3, ConnectionAssumption

-----------------------------------------------------------------------------
(* Sequences.                                                              *)

LEMMA TailType ==
  ASSUME NEW S, NEW s \in Seq(S), s # <<>>
  PROVE  /\ Head(s) \in S
         /\ Tail(s) \in Seq(S)
         /\ Len(Tail(s)) = Len(s) - 1
         /\ Len(s) \in Nat /\ Len(s) > 0
         /\ s[1] = Head(s)
         /\ \A i \in 1..Len(Tail(s)) : Tail(s)[i] = s[i + 1]
OBVIOUS

LEMMA AppendType ==
  ASSUME NEW S, NEW s \in Seq(S), NEW x \in S
  PROVE  /\ Append(s, x) \in Seq(S)
         /\ Len(Append(s, x)) = Len(s) + 1
         /\ Len(s) \in Nat
         /\ \A i \in 1..Len(s) : Append(s, x)[i] = s[i]
         /\ Append(s, x)[Len(s) + 1] = x
OBVIOUS

LEMMA ShortSeq ==
  ASSUME NEW S
  PROVE  /\ <<>> \in Seq(S) /\ Len(<<>>) = 0
         /\ \A x \in S : <<x>> \in Seq(S) /\ Len(<<x>>) = 1 /\ <<x>>[1] = x
         /\ \A x, y \in S : <<x, y>> \in Seq(S)
OBVIOUS

LEMMA ConcatType ==
  ASSUME NEW S, NEW s \in Seq(S), NEW t \in Seq(S)
  PROVE  s \o t \in Seq(S) /\ Len(s \o t) = Len(s) + Len(t)
OBVIOUS

-----------------------------------------------------------------------------
(* The inductive invariant of the queue.                                   *)

\* TypeOK but for the length of waiters, which follows from WaitersDistinct.
TypeParts ==
  /\ state \in {"HANDSHAKE", "CONFIG", "MAIN", "DEAD"}
  /\ hello \in Hellos
  /\ version \in Supported \cup {0}
  /\ send_q \in Seq(ToSwitch) /\ Len(send_q) <= SendCap
  /\ accepting \in BOOLEAN
  /\ sem \in 0..SendCap
  /\ waiters \in Seq(Threads)
  /\ wakes \in Nat
  /\ in_hand \in Seq(ToSwitch) /\ Len(in_hand) <= 1
  /\ to_switch \in Seq(ToSwitch) /\ Len(to_switch) <= WireCap
  /\ to_controller \in Seq(FromSwitch) /\ Len(to_controller) <= WireCap
  /\ peer \in BOOLEAN
  /\ owed \in Seq(FromSwitch) /\ Len(owed) <= 2
  /\ receiving \in BOOLEAN
  /\ todo \in [Threads -> Seq(Steps)]
  /\ events \in Seq(Observed) /\ Len(events) <= EventCap
  /\ registered \in BOOLEAN

\* A thread waits once.
WaitersDistinct ==
  \A i, j \in 1..Len(waiters) : waiters[i] = waiters[j] => i = j

\* What waits is a thread that has a message to send.
WaitersSend == \A i \in 1..Len(waiters) : Sends(waiters[i])

QueueInv ==
  TypeParts /\ SlotsAccounted /\ NoForgottenWaiter /\ WaitersDistinct /\ WaitersSend

LEMMA ThreadsFinite == IsFiniteSet(Threads)
<1>1. IsFiniteSet({RECV}) /\ IsFiniteSet({RECV} \cup {APP})
  BY FS_Singleton, FS_AddElement
<1>2. IsFiniteSet({RECV} \cup {APP} \cup {REST})
  BY <1>1, FS_AddElement
<1>3. Threads = {RECV} \cup {APP} \cup {REST}
  BY DEF Threads
<1> QED
  BY <1>2, <1>3

LEMMA TypeFromParts == TypeParts /\ WaitersDistinct => TypeOK
<1> SUFFICES ASSUME TypeParts, WaitersDistinct PROVE TypeOK
  OBVIOUS
<1>1. waiters \in Seq(Threads) /\ Len(waiters) \in Nat
  BY DEF TypeParts
<1>2. waiters \in Injection(1..Len(waiters), Threads)
  BY <1>1 DEF WaitersDistinct, Injection, IsInjective
<1>3. Cardinality(1..Len(waiters)) <= Cardinality(Threads)
  BY <1>2, ThreadsFinite, FS_Injection
<1>4. Cardinality(1..Len(waiters)) = Len(waiters)
  <2> DEFINE n == Len(waiters)
  <2>1. n \in Int /\ 1 \in Int
    BY <1>1
  <2> HIDE DEF n
  <2>2. Cardinality(1..n) = IF 1 > n THEN 0 ELSE n - 1 + 1
    BY <2>1, FS_Interval
  <2> QED
    BY <1>1, <2>2 DEF n
<1> QED
  BY <1>1, <1>3, <1>4 DEF TypeParts, TypeOK

LEMMA StepTypes ==
  /\ \A m \in ToSwitch : Send(m) \in Steps /\ Send(m).op = "send" /\ Send(m).what = m
  /\ \A e \in Observed : Put(e) \in Steps /\ Put(e).op = "put" /\ Put(e).what = e
  /\ \A s \in Steps : s.op = "send" => s.what \in ToSwitch
  /\ \A s \in Steps : s.op = "put" => s.what \in Observed
BY DEF Steps, Send, Put

LEMMA QueueInit == Init => QueueInv
<1> SUFFICES ASSUME Init PROVE QueueInv
  OBVIOUS
<1> USE ConnectionAssumption
<1>1. "hello" \in ToSwitch /\ "hello" \in FromSwitch
  BY DEF ToSwitch, FromSwitch
<1>2. /\ <<"hello">> \in Seq(ToSwitch) /\ Len(<<"hello">>) = 1
      /\ <<"hello">> \in Seq(FromSwitch)
  BY <1>1
<1>3. <<>> \in Seq(ToSwitch) /\ <<>> \in Seq(FromSwitch) /\ <<>> \in Seq(Threads)
      /\ <<>> \in Seq(Observed) /\ <<>> \in Seq(Steps) /\ Len(<<>>) = 0
  BY ShortSeq
<1>4. TypeParts
  <2>1. sem \in 0..SendCap /\ SendCap >= 1 /\ WireCap >= 1 /\ EventCap >= 0
    BY DEF Init
  <2>2. todo \in [Threads -> Seq(Steps)]
    BY <1>3 DEF Init
  <2>3. /\ send_q \in Seq(ToSwitch) /\ Len(send_q) <= SendCap
        /\ to_controller \in Seq(FromSwitch) /\ Len(to_controller) <= WireCap
    BY <1>2, <2>1 DEF Init
  <2>4. /\ to_switch \in Seq(ToSwitch) /\ Len(to_switch) <= WireCap
        /\ in_hand \in Seq(ToSwitch) /\ Len(in_hand) <= 1
        /\ owed \in Seq(FromSwitch) /\ Len(owed) <= 2
        /\ events \in Seq(Observed) /\ Len(events) <= EventCap
        /\ waiters \in Seq(Threads)
    BY <1>3, <2>1 DEF Init
  <2>5. /\ state \in {"HANDSHAKE", "CONFIG", "MAIN", "DEAD"} /\ hello \in Hellos
        /\ version \in Supported \cup {0} /\ wakes \in Nat
        /\ accepting \in BOOLEAN /\ peer \in BOOLEAN /\ receiving \in BOOLEAN
        /\ registered \in BOOLEAN
    BY DEF Init
  <2> QED
    BY <2>1, <2>2, <2>3, <2>4, <2>5 DEF TypeParts
<1>5. SlotsAccounted /\ NoForgottenWaiter
  BY <1>2 DEF Init, SlotsAccounted, NoForgottenWaiter
<1>6. WaitersDistinct /\ WaitersSend
  BY <1>3 DEF Init, WaitersDistinct, WaitersSend
<1> QED
  BY <1>4, <1>5, <1>6 DEF QueueInv

-----------------------------------------------------------------------------
(* Datapath.send.                                                          *)

\* A step that changes the list of one thread that does not wait keeps what is
\* known of the waiters.
LEMMA OtherListsKept ==
  ASSUME QueueInv, NEW t \in Threads, NEW l \in Seq(Steps), ~Waits(t),
         waiters' = waiters, todo' = [todo EXCEPT ![t] = l]
  PROVE  WaitersDistinct' /\ WaitersSend' /\ todo' \in [Threads -> Seq(Steps)]
<1>1. waiters \in Seq(Threads) /\ todo \in [Threads -> Seq(Steps)]
  BY DEF QueueInv, TypeParts
<1>2. ASSUME NEW i \in 1..Len(waiters) PROVE Sends(waiters[i])'
  <2>1. waiters[i] # t /\ waiters[i] \in Threads
    BY <1>1 DEF Waits
  <2>2. todo'[waiters[i]] = todo[waiters[i]]
    BY <1>1, <2>1
  <2>3. Sends(waiters[i])
    BY DEF QueueInv, WaitersSend
  <2> QED
    BY <2>2, <2>3 DEF Sends
<1>3. WaitersSend'
  BY <1>2 DEF WaitersSend
<1>4. WaitersDistinct'
  BY DEF QueueInv, WaitersDistinct
<1>5. todo' \in [Threads -> Seq(Steps)]
  BY <1>1
<1> QED
  BY <1>3, <1>4, <1>5

LEMMA SendingThread ==
  ASSUME QueueInv, NEW t \in Threads, Sends(t)
  PROVE  /\ todo[t] \in Seq(Steps) /\ Tail(todo[t]) \in Seq(Steps)
         /\ Head(todo[t]).what \in ToSwitch
<1>1. todo[t] \in Seq(Steps) /\ todo[t] # <<>> /\ Head(todo[t]).op = "send"
  BY DEF QueueInv, TypeParts, Sends
<1>2. Head(todo[t]) \in Steps /\ Tail(todo[t]) \in Seq(Steps)
  BY <1>1, TailType
<1> QED
  BY <1>1, <1>2, StepTypes

LEMMA SendNowKeeps ==
  ASSUME QueueInv, NEW t \in Threads, SendNow(t)
  PROVE  QueueInv'
<1> USE ConnectionAssumption
<1>1. Sends(t) /\ ~Waits(t) /\ sem > 0 /\ waiters = <<>> /\ waiters' = waiters
  BY DEF SendNow, Free
<1>2. Tail(todo[t]) \in Seq(Steps) /\ Head(todo[t]).what \in ToSwitch
  BY <1>1, SendingThread
<1>3. todo' = [todo EXCEPT ![t] = Tail(todo[t])]
  BY DEF SendNow
<1>4. WaitersDistinct' /\ WaitersSend' /\ todo' \in [Threads -> Seq(Steps)]
  BY <1>1, <1>2, <1>3, OtherListsKept
<1>5. send_q \in Seq(ToSwitch) /\ sem \in Nat /\ sem <= SendCap /\ sem + Len(send_q) = SendCap
  BY DEF QueueInv, TypeParts, SlotsAccounted
<1>6. /\ send_q' \in Seq(ToSwitch) /\ Len(send_q') <= SendCap
      /\ sem' \in 0..SendCap /\ sem' + Len(send_q') = SendCap
  <2>1. CASE accepting
    <3>1. send_q' = Append(send_q, Head(todo[t]).what) /\ sem' = sem - 1
      BY <2>1 DEF SendNow
    <3>2. send_q' \in Seq(ToSwitch) /\ Len(send_q') = Len(send_q) + 1 /\ Len(send_q) \in Nat
      BY <1>2, <1>5, <3>1, AppendType
    <3> QED
      BY <1>1, <1>5, <3>1, <3>2
  <2>2. CASE ~accepting
    <3>1. send_q' = send_q /\ sem' = sem
      BY <2>2 DEF SendNow
    <3>2. Len(send_q) \in Nat
      BY <1>5
    <3> QED
      BY <1>5, <3>1, <3>2
  <2> QED
    BY <2>1, <2>2
<1>7. SlotsAccounted' /\ NoForgottenWaiter'
  BY <1>1, <1>6 DEF SlotsAccounted, NoForgottenWaiter
<1>8. TypeParts'
  BY <1>4, <1>6 DEF SendNow, QueueInv, TypeParts
<1> QED
  BY <1>4, <1>7, <1>8 DEF QueueInv

LEMMA SendWaitKeeps ==
  ASSUME QueueInv, NEW t \in Threads, SendWait(t)
  PROVE  QueueInv'
<1>1. /\ Sends(t) /\ ~Waits(t) /\ waiters' = Append(waiters, t)
      /\ (sem = 0 \/ waiters # <<>>)
      /\ todo' = todo /\ send_q' = send_q /\ sem' = sem /\ wakes' = wakes
  BY DEF SendWait, Free
<1>2. waiters \in Seq(Threads)
  BY DEF QueueInv, TypeParts
<1>3. /\ waiters' \in Seq(Threads) /\ Len(waiters') = Len(waiters) + 1 /\ Len(waiters) \in Nat
      /\ \A i \in 1..Len(waiters) : waiters'[i] = waiters[i]
      /\ waiters'[Len(waiters) + 1] = t
  BY <1>1, <1>2, AppendType
<1>4. \A i \in 1..Len(waiters) : waiters[i] # t
  BY <1>1, <1>2 DEF Waits
<1>5. WaitersDistinct'
  <2> SUFFICES ASSUME NEW i \in 1..Len(waiters'), NEW j \in 1..Len(waiters'),
                      waiters'[i] = waiters'[j]
               PROVE  i = j
    BY DEF WaitersDistinct
  <2>1. CASE i \in 1..Len(waiters) /\ j \in 1..Len(waiters)
    BY <1>3, <2>1 DEF QueueInv, WaitersDistinct
  <2>2. CASE i \notin 1..Len(waiters) \/ j \notin 1..Len(waiters)
    BY <1>3, <1>4, <2>2
  <2> QED
    BY <2>1, <2>2
<1>6. WaitersSend'
  <2> SUFFICES ASSUME NEW i \in 1..Len(waiters') PROVE Sends(waiters'[i])
    BY <1>1 DEF WaitersSend, Sends
  <2>1. CASE i \in 1..Len(waiters)
    BY <1>3, <2>1 DEF QueueInv, WaitersSend
  <2>2. CASE i \notin 1..Len(waiters)
    <3>1. i = Len(waiters) + 1
      BY <1>3, <2>2
    <3> QED
      BY <1>1, <1>3, <3>1
  <2> QED
    BY <2>1, <2>2
<1>7. NoForgottenWaiter'
  <2>1. wakes \in Nat /\ sem \in Nat
    BY ConnectionAssumption DEF QueueInv, TypeParts
  <2>2. wakes >= sem
    BY <1>1, <2>1 DEF QueueInv, NoForgottenWaiter
  <2> QED
    BY <1>1, <2>2 DEF NoForgottenWaiter
<1>8. SlotsAccounted'
  BY <1>1 DEF QueueInv, SlotsAccounted
<1>9. TypeParts'
  BY <1>3 DEF SendWait, QueueInv, TypeParts
<1> QED
  BY <1>5, <1>6, <1>7, <1>8, <1>9 DEF QueueInv

(* The first of the waiting threads goes on; the others keep their places. *)
LEMMA FirstLeaves ==
  ASSUME QueueInv, waiters # <<>>, waiters' = Tail(waiters),
         todo' = [todo EXCEPT ![Head(waiters)] = Tail(@)]
  PROVE  /\ Head(waiters) \in Threads /\ Sends(Head(waiters))
         /\ waiters' \in Seq(Threads)
         /\ WaitersDistinct' /\ WaitersSend' /\ todo' \in [Threads -> Seq(Steps)]
<1> DEFINE t == Head(waiters)
<1>1. waiters \in Seq(Threads) /\ todo \in [Threads -> Seq(Steps)]
  BY DEF QueueInv, TypeParts
<1>2. /\ t \in Threads /\ waiters' \in Seq(Threads) /\ Len(waiters') = Len(waiters) - 1
      /\ Len(waiters) \in Nat /\ Len(waiters) > 0 /\ waiters[1] = t
      /\ \A i \in 1..Len(waiters') : waiters'[i] = waiters[i + 1]
  BY <1>1, TailType
<1>3. Sends(t)
  BY <1>2 DEF QueueInv, WaitersSend
<1>4. Tail(todo[t]) \in Seq(Steps)
  BY <1>2, <1>3, SendingThread
<1>5. todo' \in [Threads -> Seq(Steps)]
  BY <1>1, <1>2, <1>4
<1> HIDE DEF t
<1>6. ASSUME NEW i \in 1..Len(waiters') PROVE i + 1 \in 1..Len(waiters)
  BY <1>2
<1>7. WaitersDistinct'
  <2> SUFFICES ASSUME NEW i \in 1..Len(waiters'), NEW j \in 1..Len(waiters'),
                      waiters'[i] = waiters'[j]
               PROVE  i = j
    BY DEF WaitersDistinct
  <2>1. waiters[i + 1] = waiters[j + 1]
    BY <1>2
  <2>2. i + 1 = j + 1
    BY <1>6, <2>1 DEF QueueInv, WaitersDistinct
  <2> QED
    BY <2>2
<1>8. WaitersSend'
  <2> SUFFICES ASSUME NEW i \in 1..Len(waiters')
               PROVE  todo'[waiters'[i]] # <<>> /\ Head(todo'[waiters'[i]]).op = "send"
    BY DEF WaitersSend, Sends
  <2>1. i + 1 \in 1..Len(waiters) /\ 1 \in 1..Len(waiters) /\ i + 1 # 1
    BY <1>2, <1>6
  <2>2. waiters[i + 1] # t
    BY <1>2, <2>1 DEF QueueInv, WaitersDistinct
  <2>3. waiters[i + 1] \in Threads
    BY <1>1, <2>1
  <2>4. todo'[waiters[i + 1]] = todo[waiters[i + 1]]
    BY <1>1, <2>2, <2>3 DEF t
  <2>5. Sends(waiters[i + 1])
    BY <2>1 DEF QueueInv, WaitersSend
  <2>6. waiters'[i] = waiters[i + 1]
    BY <1>2
  <2> QED
    BY <2>4, <2>5, <2>6 DEF Sends
<1> QED
  BY <1>2, <1>3, <1>5, <1>7, <1>8 DEF t

LEMMA WakeKeeps ==
  ASSUME QueueInv, Wake
  PROVE  QueueInv'
<1> USE ConnectionAssumption
<1>1. /\ send_q \in Seq(ToSwitch) /\ Len(send_q) \in Nat /\ sem \in Nat /\ sem <= SendCap
      /\ sem + Len(send_q) = SendCap /\ wakes \in Nat /\ wakes > 0 /\ waiters \in Seq(Threads)
      /\ SendCap \in Nat
  BY DEF QueueInv, TypeParts, SlotsAccounted, Wake
<1>2. CASE waiters = <<>> \/ sem = 0
  <2>1. /\ wakes' = wakes - 1 /\ send_q' = send_q /\ sem' = sem /\ waiters' = waiters
        /\ todo' = todo
    BY <1>2 DEF Wake, Free
  <2>2. TypeParts'
    BY <1>1, <2>1 DEF Wake, QueueInv, TypeParts
  <2>3. NoForgottenWaiter' /\ SlotsAccounted'
    BY <1>1, <1>2, <2>1 DEF NoForgottenWaiter, SlotsAccounted
  <2>4. WaitersDistinct' /\ WaitersSend'
    BY <2>1 DEF QueueInv, WaitersDistinct, WaitersSend, Sends
  <2> QED
    BY <2>2, <2>3, <2>4 DEF QueueInv
<1>3. CASE waiters # <<>> /\ sem # 0
  <2>1. waiters' = Tail(waiters) /\ todo' = [todo EXCEPT ![Head(waiters)] = Tail(@)]
    BY <1>3 DEF Wake, Free
  <2>2. /\ Head(waiters) \in Threads /\ Sends(Head(waiters))
        /\ waiters' \in Seq(Threads)
        /\ WaitersDistinct' /\ WaitersSend' /\ todo' \in [Threads -> Seq(Steps)]
    BY <1>3, <2>1, FirstLeaves
  <2>3. wakes >= sem /\ sem > 0
    BY <1>1, <1>3 DEF QueueInv, NoForgottenWaiter
  <2>4. /\ send_q' \in Seq(ToSwitch) /\ Len(send_q') <= SendCap /\ wakes' \in Nat
        /\ sem' \in 0..SendCap /\ sem' + Len(send_q') = SendCap
        /\ waiters' # <<>> => wakes' >= sem'
    <3>1. CASE accepting
      <4>1. /\ send_q' = Append(send_q, Head(todo[Head(waiters)]).what)
            /\ sem' = sem - 1 /\ wakes' = wakes - 1
        BY <1>3, <3>1 DEF Wake, Free
      <4>2. Head(todo[Head(waiters)]).what \in ToSwitch
        BY <2>2, SendingThread
      <4>3. send_q' \in Seq(ToSwitch) /\ Len(send_q') = Len(send_q) + 1
        BY <1>1, <4>1, <4>2, AppendType
      <4>4. sem' \in 0..SendCap /\ wakes' \in Nat /\ wakes' >= sem'
        BY <1>1, <2>3, <4>1
      <4>5. sem' + Len(send_q') = SendCap /\ Len(send_q') <= SendCap
        BY <1>1, <2>3, <4>1, <4>3
      <4> QED
        BY <4>3, <4>4, <4>5
    <3>2. CASE ~accepting
      <4>1. /\ send_q' = send_q /\ sem' = sem
            /\ wakes' = IF waiters' = <<>> THEN wakes - 1 ELSE wakes
        BY <1>3, <2>1, <3>2 DEF Wake, Free
      <4> QED
        BY <1>1, <2>3, <4>1
    <3> QED
      BY <3>1, <3>2
  <2>5. SlotsAccounted' /\ NoForgottenWaiter'
    BY <2>4 DEF SlotsAccounted, NoForgottenWaiter
  <2>6. TypeParts'
    BY <2>2, <2>4 DEF Wake, QueueInv, TypeParts
  <2> QED
    BY <2>2, <2>5, <2>6 DEF QueueInv
<1> QED
  BY <1>2, <1>3

-----------------------------------------------------------------------------
(* The send loop.                                                          *)

\* What is known of the waiters does not depend on the rest.
LEMMA WaitersKept ==
  ASSUME QueueInv, waiters' = waiters, todo' = todo
  PROVE  WaitersDistinct' /\ WaitersSend'
BY DEF QueueInv, WaitersDistinct, WaitersSend, Sends

LEMMA ReleaseKeeps ==
  ASSUME QueueInv, NEW n \in Nat, Release(n), waiters' = waiters,
         Len(send_q') = Len(send_q) - n, send_q' \in Seq(ToSwitch)
  PROVE  /\ SlotsAccounted' /\ NoForgottenWaiter'
         /\ Len(send_q') <= SendCap /\ sem' \in 0..SendCap /\ wakes' \in Nat
<1>1. /\ sem \in Nat /\ wakes \in Nat /\ Len(send_q) \in Nat /\ SendCap \in Nat
      /\ Len(send_q') \in Nat /\ sem + Len(send_q) = SendCap
  BY ConnectionAssumption DEF QueueInv, TypeParts, SlotsAccounted
<1>2. sem' = sem + n /\ wakes' = IF waiters = <<>> THEN wakes ELSE wakes + n
  BY DEF Release, Free
<1>3. waiters # <<>> => wakes >= sem
  BY DEF QueueInv, NoForgottenWaiter
<1> QED
  BY <1>1, <1>2, <1>3 DEF SlotsAccounted, NoForgottenWaiter

LEMMA EndSendLoopKeeps ==
  ASSUME QueueInv, EndSendLoop
  PROVE  /\ SlotsAccounted' /\ NoForgottenWaiter' /\ accepting' = FALSE
         /\ send_q' = <<>> /\ in_hand' = <<>> /\ waiters' = waiters
         /\ Len(send_q') <= SendCap /\ sem' \in 0..SendCap /\ wakes' \in Nat
<1>1. /\ accepting' = FALSE /\ send_q' = <<>> /\ in_hand' = <<>> /\ waiters' = waiters
      /\ Release(Len(send_q))
  BY DEF EndSendLoop
<1>2. Len(send_q) \in Nat
  BY DEF QueueInv, TypeParts
<1>3. send_q' \in Seq(ToSwitch) /\ Len(send_q') = Len(send_q) - Len(send_q)
  BY <1>1, <1>2, ShortSeq
<1> QED
  BY <1>1, <1>2, <1>3, ReleaseKeeps

LEMMA SendLoopKeeps ==
  ASSUME QueueInv, SendLoop \/ KillSendLoop
  PROVE  QueueInv'
<1> USE ConnectionAssumption
<1>1. CASE TakeMessage
  <2>1. send_q \in Seq(ToSwitch) /\ send_q # <<>> /\ Release(1)
        /\ in_hand' = <<Head(send_q)>> /\ send_q' = Tail(send_q) /\ waiters' = waiters
        /\ todo' = todo
    BY <1>1 DEF TakeMessage, QueueInv, TypeParts
  <2>2. Head(send_q) \in ToSwitch /\ send_q' \in Seq(ToSwitch) /\ Len(send_q') = Len(send_q) - 1
    BY <2>1, TailType
  <2>3. in_hand' \in Seq(ToSwitch) /\ Len(in_hand') <= 1
    BY <2>1, <2>2, ShortSeq
  <2>4. /\ SlotsAccounted' /\ NoForgottenWaiter'
        /\ Len(send_q') <= SendCap /\ sem' \in 0..SendCap /\ wakes' \in Nat
    BY <2>1, <2>2, ReleaseKeeps
  <2>5. TypeParts'
    BY <1>1, <2>2, <2>3, <2>4 DEF TakeMessage, QueueInv, TypeParts
  <2> QED
    BY <2>1, <2>4, <2>5, WaitersKept DEF QueueInv
<1>2. ASSUME in_hand \in Seq(ToSwitch), Len(in_hand) <= 1, RoomToSwitch
      PROVE  to_switch \o in_hand \in Seq(ToSwitch) /\ Len(to_switch \o in_hand) <= WireCap
  <2>1. to_switch \in Seq(ToSwitch) /\ Len(to_switch) < WireCap
    BY <1>2 DEF RoomToSwitch, QueueInv, TypeParts
  <2>2. Len(to_switch) \in Nat /\ Len(in_hand) \in Nat
    BY <1>2, <2>1
  <2> QED
    BY <1>2, <2>1, <2>2, ConcatType
<1>3. in_hand \in Seq(ToSwitch) /\ Len(in_hand) <= 1
  BY DEF QueueInv, TypeParts
<1>4. CASE WriteMessage
  <2>1. to_switch' \in Seq(ToSwitch) /\ Len(to_switch') <= WireCap
    BY <1>2, <1>3, <1>4 DEF WriteMessage
  <2>2. in_hand' \in Seq(ToSwitch) /\ Len(in_hand') <= 1
    BY <1>4, ShortSeq DEF WriteMessage
  <2>3. waiters' = waiters /\ todo' = todo /\ sem' = sem /\ send_q' = send_q /\ wakes' = wakes
    BY <1>4 DEF WriteMessage, queue_vars
  <2>4. TypeParts'
    BY <1>4, <2>1, <2>2 DEF WriteMessage, queue_vars, QueueInv, TypeParts
  <2>5. SlotsAccounted' /\ NoForgottenWaiter'
    BY <2>3 DEF QueueInv, SlotsAccounted, NoForgottenWaiter
  <2> QED
    BY <2>3, <2>4, <2>5, WaitersKept DEF QueueInv
<1>5. ASSUME EndSendLoop, todo' = todo,
             to_switch' \in Seq(ToSwitch), Len(to_switch') <= WireCap,
             UNCHANGED <<state, hello, version, to_controller, peer, owed, receiving, events,
                         registered>>
      PROVE  QueueInv'
  <2>1. /\ SlotsAccounted' /\ NoForgottenWaiter' /\ accepting' = FALSE
        /\ send_q' = <<>> /\ in_hand' = <<>> /\ waiters' = waiters
        /\ Len(send_q') <= SendCap /\ sem' \in 0..SendCap /\ wakes' \in Nat
    BY <1>5, EndSendLoopKeeps
  <2>2. <<>> \in Seq(ToSwitch) /\ Len(<<>>) <= 1
    BY ShortSeq
  <2>3. TypeParts'
    BY <1>5, <2>1, <2>2 DEF QueueInv, TypeParts
  <2> QED
    BY <1>5, <2>1, <2>3, WaitersKept DEF QueueInv
<1>6. CASE WriteAndClose
  <2>1. to_switch' \in Seq(ToSwitch) /\ Len(to_switch') <= WireCap
    BY <1>2, <1>3, <1>6 DEF WriteAndClose
  <2> QED
    BY <1>5, <1>6, <2>1 DEF WriteAndClose
<1>7. CASE SendFails \/ KillSendLoop
  <2>1. to_switch' \in Seq(ToSwitch) /\ Len(to_switch') <= WireCap
    BY <1>7 DEF SendFails, KillSendLoop, QueueInv, TypeParts
  <2> QED
    BY <1>5, <1>7, <2>1 DEF SendFails, KillSendLoop
<1> QED
  BY <1>1, <1>4, <1>6, <1>7 DEF SendLoop

-----------------------------------------------------------------------------
(* The receive loop, the application and the switch.                       *)

\* A step that leaves the queue alone and changes at most the list of a thread
\* that has nothing to send.
LEMMA QueueUntouched ==
  ASSUME QueueInv, queue_vars' = queue_vars, TypeParts',
         NEW t \in Threads, NEW l \in Seq(Steps), ~Sends(t),
         todo' = [todo EXCEPT ![t] = l]
  PROVE  QueueInv'
<1>1. /\ send_q' = send_q /\ sem' = sem /\ waiters' = waiters /\ wakes' = wakes
  BY DEF queue_vars
<1>2. ~Waits(t)
  <2> SUFFICES ASSUME NEW i \in DOMAIN waiters, waiters[i] = t PROVE FALSE
    BY DEF Waits
  <2>1. waiters \in Seq(Threads)
    BY DEF QueueInv, TypeParts
  <2>2. i \in 1..Len(waiters)
    BY <2>1
  <2>3. Sends(waiters[i])
    BY <2>2 DEF QueueInv, WaitersSend
  <2> QED
    BY <2>3
<1>3. WaitersDistinct' /\ WaitersSend'
  BY <1>1, <1>2, OtherListsKept
<1>4. SlotsAccounted' /\ NoForgottenWaiter'
  BY <1>1 DEF QueueInv, SlotsAccounted, NoForgottenWaiter
<1> QED
  BY <1>3, <1>4 DEF QueueInv

LEMMA QueueAndListsUntouched ==
  ASSUME QueueInv, queue_vars' = queue_vars, TypeParts', todo' = todo
  PROVE  QueueInv'
<1>1. /\ send_q' = send_q /\ sem' = sem /\ waiters' = waiters /\ wakes' = wakes
  BY DEF queue_vars
<1>2. SlotsAccounted' /\ NoForgottenWaiter'
  BY <1>1 DEF QueueInv, SlotsAccounted, NoForgottenWaiter
<1> QED
  BY <1>1, <1>2, WaitersKept DEF QueueInv

LEMMA ReactionType == \A m : Reaction(m) \in Seq(Steps)
<1>1. /\ Put("features_reply") \in Steps /\ Put("packet_in") \in Steps
      /\ Send("port_desc_request") \in Steps /\ Send("echo_reply") \in Steps
  BY StepTypes DEF ToSwitch, Observed
<1>2. /\ <<Put("features_reply"), Send("port_desc_request")>> \in Seq(Steps)
      /\ <<Put("packet_in")>> \in Seq(Steps) /\ <<Send("echo_reply")>> \in Seq(Steps)
      /\ <<>> \in Seq(Steps)
  BY <1>1, ShortSeq
<1> QED
  BY <1>2 DEF Reaction

LEMMA RecvLoopKeeps ==
  ASSUME QueueInv, RecvLoop \/ CloseDatapath
  PROVE  QueueInv'
<1> USE ConnectionAssumption
<1>1. RECV \in Threads /\ todo \in [Threads -> Seq(Steps)] /\ TypeParts
  BY DEF Threads, QueueInv, TypeParts
<1>2. ASSUME to_controller # <<>>
      PROVE  Tail(to_controller) \in Seq(FromSwitch) /\ Len(Tail(to_controller)) <= WireCap
  <2>1. to_controller \in Seq(FromSwitch) /\ Len(to_controller) <= WireCap
    BY DEF QueueInv, TypeParts
  <2> QED
    BY <1>2, <2>1, TailType
<1>3. CASE ReceiveHello
  <2>1. /\ to_controller # <<>> /\ todo[RECV] = <<>> /\ to_controller' = Tail(to_controller)
        /\ queue_vars' = queue_vars
    BY <1>3 DEF ReceiveHello, CanReceive
  <2>2. hello \in Hellos
    BY <1>1 DEF TypeParts
  <2>3. /\ <<Send("features_request")>> \in Seq(Steps)
        /\ <<Send("hello_failed")>> \in Seq(Steps)
    BY StepTypes, ShortSeq DEF ToSwitch
  <2>4. PICK l \in Seq(Steps) : todo' = [todo EXCEPT ![RECV] = l]
    BY <1>3, <2>3 DEF ReceiveHello
  <2>5. version' \in Supported \cup {0} /\ state' \in {"HANDSHAKE", "CONFIG", "MAIN", "DEAD"}
    <3>1. CASE Compatible(hello)
      <4>1. version' \in Supported
        BY <1>3, <2>2, <3>1, UsableHighest DEF ReceiveHello, Compatible
      <4> QED
        BY <1>3, <3>1, <4>1 DEF ReceiveHello
    <3>2. CASE ~Compatible(hello)
      BY <1>1, <1>3, <3>2 DEF ReceiveHello, TypeParts
    <3> QED
      BY <3>1, <3>2
  <2>6. todo' \in [Threads -> Seq(Steps)]
    BY <1>1, <2>4
  <2>7. TypeParts'
    BY <1>1, <1>2, <1>3, <2>1, <2>5, <2>6 DEF ReceiveHello, TypeParts, queue_vars
  <2>8. ~Sends(RECV)
    BY <2>1 DEF Sends
  <2> QED
    BY <1>1, <2>1, <2>4, <2>7, <2>8, QueueUntouched
<1>4. CASE ReceivePortDesc
  <2>1. TypeParts'
    BY <1>1, <1>2, <1>4 DEF ReceivePortDesc, CanReceive, TypeParts, queue_vars
  <2> QED
    BY <1>4, <2>1, QueueAndListsUntouched DEF ReceivePortDesc
<1>5. CASE ReceiveOther
  <2>1. /\ to_controller # <<>> /\ todo[RECV] = <<>> /\ to_controller' = Tail(to_controller)
        /\ queue_vars' = queue_vars
    BY <1>5 DEF ReceiveOther, CanReceive
  <2>2. PICK l \in Seq(Steps) : todo' = [todo EXCEPT ![RECV] = l]
    BY <1>5, ReactionType DEF ReceiveOther
  <2>3. todo' \in [Threads -> Seq(Steps)]
    BY <1>1, <2>2
  <2>4. TypeParts'
    BY <1>1, <1>2, <1>5, <2>1, <2>3 DEF ReceiveOther, TypeParts, queue_vars
  <2>5. ~Sends(RECV)
    BY <2>1 DEF Sends
  <2> QED
    BY <1>1, <2>1, <2>2, <2>4, <2>5, QueueUntouched
<1>6. CASE PutEvent
  <2>1. /\ todo[RECV] \in Seq(Steps) /\ todo[RECV] # <<>> /\ Head(todo[RECV]).op = "put"
        /\ todo' = [todo EXCEPT ![RECV] = Tail(todo[RECV])] /\ queue_vars' = queue_vars
    BY <1>1, <1>6 DEF PutEvent
  <2>2. Head(todo[RECV]) \in Steps /\ Tail(todo[RECV]) \in Seq(Steps)
    BY <2>1, TailType
  <2>3. Head(todo[RECV]).what \in Observed
    BY <2>1, <2>2, StepTypes
  <2>4. events \in Seq(Observed) /\ Len(events) < EventCap
        /\ events' = Append(events, Head(todo[RECV]).what)
    BY <1>1, <1>6 DEF PutEvent, TypeParts
  <2>5. events' \in Seq(Observed) /\ Len(events') = Len(events) + 1 /\ Len(events) \in Nat
    BY <2>3, <2>4, AppendType
  <2>6. Len(events') <= EventCap
    BY <2>4, <2>5
  <2>7. todo' \in [Threads -> Seq(Steps)]
    BY <1>1, <2>1, <2>2
  <2>8. TypeParts'
    BY <1>1, <1>6, <2>5, <2>6, <2>7 DEF PutEvent, TypeParts, queue_vars
  <2>9. ~Sends(RECV)
    BY <2>1 DEF Sends
  <2> QED
    BY <1>1, <2>1, <2>2, <2>8, <2>9, QueueUntouched
<1>7. CASE EndReceiveLoop
  <2>1. TypeParts'
    BY <1>1, <1>7 DEF EndReceiveLoop, TypeParts, queue_vars
  <2> QED
    BY <1>7, <2>1, QueueAndListsUntouched DEF EndReceiveLoop
<1>8. CASE CloseDatapath
  <2>1. TypeParts'
    BY <1>1, <1>8 DEF CloseDatapath, TypeParts, queue_vars
  <2> QED
    BY <1>8, <2>1, QueueAndListsUntouched DEF CloseDatapath
<1> QED
  BY <1>3, <1>4, <1>5, <1>6, <1>7, <1>8 DEF RecvLoop

LEMMA ApplicationKeeps ==
  ASSUME QueueInv, TakeEvent \/ RestRequest
  PROVE  QueueInv'
<1> USE ConnectionAssumption
<1>1. APP \in Threads /\ REST \in Threads /\ todo \in [Threads -> Seq(Steps)] /\ TypeParts
  BY DEF Threads, QueueInv, TypeParts
<1>2. CASE TakeEvent
  <2>1. /\ events \in Seq(Observed) /\ events # <<>> /\ events' = Tail(events)
        /\ Len(events) <= EventCap /\ todo[APP] = <<>> /\ queue_vars' = queue_vars
    BY <1>1, <1>2 DEF TakeEvent, TypeParts
  <2>2. events' \in Seq(Observed) /\ Len(events') <= EventCap
    BY <2>1, TailType
  <2>3. Handler(Head(events)) \subseteq Seq(Steps)
    <3>1. Send("miss_flow") \in Steps /\ Send("punt_flow") \in Steps /\ Send("packet_out") \in Steps
      BY StepTypes DEF ToSwitch
    <3>2. /\ <<Send("miss_flow"), Send("punt_flow")>> \in Seq(Steps)
          /\ <<Send("packet_out")>> \in Seq(Steps) /\ <<>> \in Seq(Steps)
      BY <3>1, ShortSeq
    <3> QED
      BY <3>2 DEF Handler
  <2>4. PICK l \in Seq(Steps) : todo' = [todo EXCEPT ![APP] = l]
    BY <1>2, <2>3 DEF TakeEvent
  <2>5. todo' \in [Threads -> Seq(Steps)]
    BY <1>1, <2>4
  <2>6. registered' \in BOOLEAN
    BY <1>2 DEF TakeEvent
  <2>7. TypeParts'
    BY <1>1, <1>2, <2>2, <2>5, <2>6 DEF TakeEvent, TypeParts, queue_vars
  <2>8. ~Sends(APP)
    BY <2>1 DEF Sends
  <2> QED
    BY <1>1, <2>1, <2>4, <2>7, <2>8, QueueUntouched
<1>3. CASE RestRequest
  <2>1. <<Send("delete")>> \in Seq(Steps)
    BY StepTypes, ShortSeq DEF ToSwitch
  <2>2. /\ todo[REST] = <<>> /\ queue_vars' = queue_vars
        /\ todo' = [todo EXCEPT ![REST] = <<Send("delete")>>]
    BY <1>3 DEF RestRequest
  <2>3. todo' \in [Threads -> Seq(Steps)]
    BY <1>1, <2>1, <2>2
  <2>4. TypeParts'
    BY <1>1, <1>3, <2>3 DEF RestRequest, TypeParts, queue_vars
  <2>5. ~Sends(REST)
    BY <2>2 DEF Sends
  <2> QED
    BY <1>1, <2>1, <2>2, <2>4, <2>5, QueueUntouched
<1> QED
  BY <1>2, <1>3

LEMMA AnswerType == \A m : \A a \in Answers(m) : a \in Seq(FromSwitch) /\ Len(a) <= 2
<1>1. {"features_reply", "port_desc_more", "port_desc_reply"} \subseteq FromSwitch
  BY DEF FromSwitch, PortDesc
<1>2. /\ <<"features_reply">> \in Seq(FromSwitch) /\ Len(<<"features_reply">>) = 1
      /\ <<"port_desc_reply">> \in Seq(FromSwitch) /\ Len(<<"port_desc_reply">>) = 1
      /\ <<>> \in Seq(FromSwitch) /\ Len(<<>>) = 0
  BY <1>1, ShortSeq
<1>3. /\ <<"port_desc_more", "port_desc_reply">> \in Seq(FromSwitch)
      /\ Len(<<"port_desc_more", "port_desc_reply">>) = 2
  BY <1>1
<1> SUFFICES ASSUME NEW m, NEW a \in Answers(m) PROVE a \in Seq(FromSwitch) /\ Len(a) <= 2
  OBVIOUS
<1>4. \/ a = <<"features_reply">> \/ a = <<"port_desc_reply">>
      \/ a = <<"port_desc_more", "port_desc_reply">> \/ a = <<>>
  BY DEF Answers
<1>5. CASE a = <<"features_reply">>
  BY <1>2, <1>5
<1>6. CASE a = <<"port_desc_reply">>
  BY <1>2, <1>6
<1>7. CASE a = <<"port_desc_more", "port_desc_reply">>
  BY <1>3, <1>7
<1>8. CASE a = <<>>
  BY <1>2, <1>8
<1> QED
  BY <1>4, <1>5, <1>6, <1>7, <1>8

LEMMA SwitchKeeps ==
  ASSUME QueueInv, Switch \/ SwitchSends \/ SwitchFails
  PROVE  QueueInv'
<1> USE ConnectionAssumption
<1>1. /\ TypeParts /\ to_switch \in Seq(ToSwitch) /\ Len(to_switch) <= WireCap
      /\ to_controller \in Seq(FromSwitch) /\ Len(to_controller) <= WireCap
      /\ owed \in Seq(FromSwitch) /\ Len(owed) <= 2 /\ WireCap \in Nat
  BY DEF QueueInv, TypeParts
<1>2. /\ <<>> \in Seq(FromSwitch) /\ <<>> \in Seq(ToSwitch) /\ Len(<<>>) = 0
      /\ Len(<<>>) <= 2 /\ Len(<<>>) <= WireCap
  BY <1>1, ShortSeq
<1>3. CASE SwitchReads
  <2>1. to_switch' \in Seq(ToSwitch) /\ Len(to_switch') <= WireCap
    BY <1>1, <1>3, TailType DEF SwitchReads
  <2>2. owed' \in Seq(FromSwitch) /\ Len(owed') <= 2
    BY <1>3, AnswerType DEF SwitchReads
  <2>3. TypeParts'
    BY <1>1, <1>3, <2>1, <2>2 DEF SwitchReads, TypeParts, queue_vars
  <2> QED
    BY <1>3, <2>3, QueueAndListsUntouched DEF SwitchReads
<1>4. CASE SwitchAnswers
  <2>1. /\ to_controller' = Append(to_controller, Head(owed)) /\ owed' = Tail(owed)
        /\ owed # <<>> /\ Len(to_controller) < WireCap
    BY <1>4 DEF SwitchAnswers
  <2>2. /\ Head(owed) \in FromSwitch /\ Tail(owed) \in Seq(FromSwitch)
        /\ Len(Tail(owed)) = Len(owed) - 1 /\ Len(owed) \in Nat
    BY <1>1, <2>1, TailType
  <2>3. owed' \in Seq(FromSwitch) /\ Len(owed') <= 2
    BY <1>1, <2>1, <2>2
  <2>4. PICK m \in FromSwitch : to_controller' = Append(to_controller, m)
    BY <2>1, <2>2
  <2>5. /\ to_controller' \in Seq(FromSwitch) /\ Len(to_controller') = Len(to_controller) + 1
        /\ Len(to_controller) \in Nat
    BY <1>1, <2>4, AppendType
  <2>6. Len(to_controller') <= WireCap
    BY <1>1, <2>1, <2>5
  <2>7. TypeParts'
    BY <1>1, <1>4, <2>3, <2>5, <2>6 DEF SwitchAnswers, TypeParts, queue_vars
  <2> QED
    BY <1>4, <2>7, QueueAndListsUntouched DEF SwitchAnswers
<1>5. CASE SwitchCloses
  <2>1. TypeParts'
    BY <1>1, <1>2, <1>5 DEF SwitchCloses, TypeParts, queue_vars
  <2> QED
    BY <1>5, <2>1, QueueAndListsUntouched DEF SwitchCloses
<1>6. CASE SwitchSends
  <2>1. PICK m \in FromSwitch : to_controller' = Append(to_controller, m)
    BY <1>6 DEF SwitchSends, FromSwitch
  <2>2. /\ to_controller' \in Seq(FromSwitch) /\ Len(to_controller') = Len(to_controller) + 1
        /\ Len(to_controller) \in Nat /\ Len(to_controller) < WireCap
    BY <1>1, <1>6, <2>1, AppendType DEF SwitchSends
  <2>3. Len(to_controller') <= WireCap
    BY <1>1, <2>2
  <2>4. TypeParts'
    BY <1>1, <1>6, <2>2, <2>3 DEF SwitchSends, TypeParts, queue_vars
  <2> QED
    BY <1>6, <2>4, QueueAndListsUntouched DEF SwitchSends
<1>7. CASE SwitchFails
  <2>1. to_controller' \in Seq(FromSwitch) /\ Len(to_controller') <= WireCap
    BY <1>1, <1>2, <1>7 DEF SwitchFails
  <2>2. TypeParts'
    BY <1>1, <1>2, <1>7, <2>1 DEF SwitchFails, TypeParts, queue_vars
  <2> QED
    BY <1>7, <2>2, QueueAndListsUntouched DEF SwitchFails
<1> QED
  BY <1>3, <1>4, <1>5, <1>6, <1>7 DEF Switch

LEMMA QueueStep == QueueInv /\ [Next]_vars => QueueInv'
<1> SUFFICES ASSUME QueueInv, [Next]_vars PROVE QueueInv'
  OBVIOUS
<1>1. CASE UNCHANGED vars
  <2>1. TypeParts'
    BY <1>1 DEF vars, queue_vars, QueueInv, TypeParts
  <2>2. queue_vars' = queue_vars /\ todo' = todo
    BY <1>1 DEF vars
  <2> QED
    BY <2>1, <2>2, QueueAndListsUntouched
<1> QED
  BY <1>1, SendNowKeeps, SendWaitKeeps, WakeKeeps, SendLoopKeeps, RecvLoopKeeps,
     ApplicationKeeps, SwitchKeeps DEF Next

LEMMA QueueAlways == Spec => []QueueInv
<1> QED
  BY QueueInit, QueueStep, PTL DEF Spec

(* The variables of Connection keep their types: send_q, the event queue   *)
(* and the list of waiters never exceed their limits.                      *)
THEOREM ConnectionTypes == Spec => []TypeOK
<1>1. QueueInv => TypeOK
  BY TypeFromParts DEF QueueInv
<1> QED
  BY <1>1, QueueAlways, PTL

(* For every capacity, the semaphore of send_q counts exactly the free     *)
(* slots: send, the send loop and its drain never lose or invent one.      *)
THEOREM SlotsNeverLost == Spec => []SlotsAccounted
<1>1. QueueInv => SlotsAccounted
  BY DEF QueueInv
<1> QED
  BY <1>1, QueueAlways, PTL

(* For every capacity, while threads wait in Datapath.send there is a      *)
(* wake-up for every free slot, through the drain and the discarded        *)
(* messages after it.                                                      *)
THEOREM WaitersAlwaysWoken == Spec => []NoForgottenWaiter
<1>1. QueueInv => NoForgottenWaiter
  BY DEF QueueInv
<1> QED
  BY <1>1, QueueAlways, PTL

-----------------------------------------------------------------------------
(* The application meets a switch before its packets.                      *)

Among(x, s) == \E i \in 1..Len(s) : s[i] = x

\* The application has the switch, or the event that tells it is queued.
Announced == registered \/ Among("features_reply", events)

\* What each thread may have to do.
RecvLists == {<<>>, <<Put("features_reply"), Send("port_desc_request")>>,
              <<Send("port_desc_request")>>, <<Put("packet_in")>>, <<Send("echo_reply")>>,
              <<Send("features_request")>>, <<Send("hello_failed")>>}
AppLists  == {<<>>, <<Send("miss_flow"), Send("punt_flow")>>, <<Send("punt_flow")>>,
              <<Send("packet_out")>>}
RestLists == {<<>>, <<Send("delete")>>}

ListsKnown ==
  todo[RECV] \in RecvLists /\ todo[APP] \in AppLists /\ todo[REST] \in RestLists

\* The ports are being asked for, or have been.
PortsAsked ==
  \/ todo[RECV] = <<Send("port_desc_request")>>
  \/ Among("port_desc_request", send_q)
  \/ Among("port_desc_request", in_hand)
  \/ Among("port_desc_request", to_switch)
  \/ Among("port_desc_reply", owed)
  \/ Among("port_desc_reply", to_controller)
  \/ state = "MAIN"
  \/ todo[RECV] = <<Put("packet_in")>>

\* The ports are asked for behind the event of the features reply.
AnnouncedBefore == PortsAsked => Announced

HandshakeInv == QueueInv /\ ListsKnown /\ AnnouncedBefore /\ FeaturesFirst

LEMMA AmongConcat ==
  ASSUME NEW S, NEW s \in Seq(S), NEW t \in Seq(S), NEW x, Among(x, s \o t)
  PROVE  Among(x, s) \/ Among(x, t)
<1>1. PICK i \in 1..Len(s \o t) : (s \o t)[i] = x
  BY DEF Among
<1>2. /\ Len(s \o t) = Len(s) + Len(t) /\ Len(s) \in Nat /\ Len(t) \in Nat
  OBVIOUS
<1>3. CASE i <= Len(s)
  <2>1. (s \o t)[i] = s[i] /\ i \in 1..Len(s)
    BY <1>2, <1>3, ConcatProperties
  <2> QED
    BY <1>1, <2>1 DEF Among
<1>4. CASE i > Len(s)
  <2>1. (s \o t)[i] = t[i - Len(s)] /\ i - Len(s) \in 1..Len(t)
    BY <1>2, <1>4, ConcatProperties
  <2> QED
    BY <1>1, <2>1 DEF Among
<1> QED
  BY <1>2, <1>3, <1>4

LEMMA AmongAppend ==
  ASSUME NEW S, NEW s \in Seq(S), NEW y \in S, NEW x
  PROVE  Among(x, Append(s, y)) <=> Among(x, s) \/ x = y
<1>1. /\ Len(Append(s, y)) = Len(s) + 1 /\ Len(s) \in Nat
      /\ \A i \in 1..Len(s) : Append(s, y)[i] = s[i]
      /\ Append(s, y)[Len(s) + 1] = y
  BY AppendType
<1> QED
  BY <1>1 DEF Among

LEMMA AmongTail ==
  ASSUME NEW S, NEW s \in Seq(S), s # <<>>, NEW x
  PROVE  /\ Among(x, s) <=> Among(x, Tail(s)) \/ x = Head(s)
         /\ Among(x, <<Head(s)>>) => x = Head(s)
<1>1. /\ Len(Tail(s)) = Len(s) - 1 /\ Len(s) \in Nat /\ Len(s) > 0
      /\ s[1] = Head(s)
      /\ \A i \in 1..Len(Tail(s)) : Tail(s)[i] = s[i + 1]
  BY TailType
<1>2. ASSUME Among(x, s), x # Head(s) PROVE Among(x, Tail(s))
  <2>1. PICK i \in 1..Len(s) : s[i] = x
    BY <1>2 DEF Among
  <2>2. i # 1
    BY <1>1, <1>2, <2>1
  <2>3. i - 1 \in 1..Len(Tail(s)) /\ (i - 1) + 1 = i
    BY <1>1, <2>2
  <2>4. Tail(s)[i - 1] = s[(i - 1) + 1]
    BY <1>1, <2>3
  <2> QED
    BY <2>1, <2>3, <2>4 DEF Among
<1>3. ASSUME Among(x, Tail(s)) PROVE Among(x, s)
  <2>1. PICK i \in 1..Len(Tail(s)) : Tail(s)[i] = x
    BY <1>3 DEF Among
  <2>2. i + 1 \in 1..Len(s) /\ s[i + 1] = x
    BY <1>1, <2>1
  <2> QED
    BY <2>2 DEF Among
<1>4. x = Head(s) => Among(x, s)
  BY <1>1 DEF Among
<1>5. Among(x, <<Head(s)>>) => x = Head(s)
  BY DEF Among
<1> QED
  BY <1>2, <1>3, <1>4, <1>5

LEMMA AmongEmpty == \A x : ~Among(x, <<>>)
BY DEF Among

LEMMA HandshakeInit == Init => HandshakeInv
<1> SUFFICES ASSUME Init PROVE HandshakeInv
  OBVIOUS
<1>1. ListsKnown
  BY DEF Init, ListsKnown, Threads, RecvLists, AppLists, RestLists
<1>2. ~PortsAsked
  <2>1. ~Among("port_desc_request", <<"hello">>) /\ ~Among("port_desc_reply", <<"hello">>)
    BY DEF Among
  <2>2. todo[RECV] = <<>>
    BY DEF Init, Threads
  <2> QED
    BY <2>1, <2>2, AmongEmpty DEF Init, PortsAsked
<1>3. FeaturesFirst
  BY DEF Init, FeaturesFirst
<1> QED
  BY <1>1, <1>2, <1>3, QueueInit DEF HandshakeInv, AnnouncedBefore

(* A step that neither queues nor takes an event, after which the ports    *)
(* are asked for only if they were before.                                 *)
LEMMA QuietStep ==
  ASSUME HandshakeInv, events' = events, registered' = registered,
         PortsAsked' => PortsAsked
  PROVE  AnnouncedBefore' /\ FeaturesFirst'
<1>1. Announced' = Announced
  BY DEF Announced
<1>2. AnnouncedBefore'
  BY <1>1 DEF HandshakeInv, AnnouncedBefore
<1>3. FeaturesFirst'
  BY DEF HandshakeInv, FeaturesFirst
<1> QED
  BY <1>2, <1>3

LEMMA ListsUnchanged ==
  ASSUME HandshakeInv, todo' = todo
  PROVE  ListsKnown'
BY DEF HandshakeInv, ListsKnown

LEMMA ThreadNames ==
  /\ RECV \in Threads /\ APP \in Threads /\ REST \in Threads
  /\ RECV # APP /\ RECV # REST /\ APP # REST
  /\ \A t \in Threads : t = RECV \/ t = APP \/ t = REST
BY DEF Threads, RECV, APP, REST

LEMMA ShortLists ==
  /\ \A x : Head(<<x>>) = x /\ Tail(<<x>>) = <<>> /\ <<x>> # <<>>
  /\ \A x, y : Head(<<x, y>>) = x /\ Tail(<<x, y>>) = <<y>> /\ <<x, y>> # <<>>
OBVIOUS

LEMMA WhatIsSent == \A m : Send(m).what = m /\ Send(m).op = "send" /\ Put(m).op = "put"
BY DEF Send, Put

(* A thread that sends leaves the rest of its list, and only the receive   *)
(* loop asks for the ports.                                                *)
LEMMA SendPops ==
  ASSUME HandshakeInv, NEW t \in Threads, Sends(t), todo' = [todo EXCEPT ![t] = Tail(@)]
  PROVE  /\ ListsKnown'
         /\ Head(todo[t]).what = "port_desc_request"
              => todo[RECV] = <<Send("port_desc_request")>>
         /\ todo'[RECV] = <<>> \/ todo'[RECV] = todo[RECV]
<1>1. todo \in [Threads -> Seq(Steps)] /\ todo[t] # <<>> /\ Head(todo[t]).op = "send"
  BY DEF HandshakeInv, QueueInv, TypeParts, Sends
<1>2. /\ \A u \in Threads : u # t => todo'[u] = todo[u]
      /\ todo'[t] = Tail(todo[t])
  BY <1>1
<1>3. CASE t = RECV
  <2>1. todo[RECV] \in RecvLists
    BY DEF HandshakeInv, ListsKnown
  <2>2. todo[RECV] # <<Put("features_reply"), Send("port_desc_request")>>
    BY <1>1, <1>3 DEF Put
  <2>3. todo[RECV] # <<Put("packet_in")>>
    BY <1>1, <1>3 DEF Put
  <2>4. todo[RECV] \in {<<Send("port_desc_request")>>, <<Send("echo_reply")>>,
                        <<Send("features_request")>>, <<Send("hello_failed")>>}
    BY <1>1, <1>3, <2>1, <2>2, <2>3 DEF RecvLists
  <2>5. /\ Tail(todo[RECV]) = <<>>
        /\ Head(todo[RECV]).what = "port_desc_request"
             => todo[RECV] = <<Send("port_desc_request")>>
    <3>1. CASE todo[RECV] = <<Send("port_desc_request")>>
      BY <3>1, ShortLists
    <3>2. CASE todo[RECV] = <<Send("echo_reply")>>
      BY <3>2, ShortLists, WhatIsSent
    <3>3. CASE todo[RECV] = <<Send("features_request")>>
      BY <3>3, ShortLists, WhatIsSent
    <3>4. CASE todo[RECV] = <<Send("hello_failed")>>
      BY <3>4, ShortLists, WhatIsSent
    <3> QED
      BY <2>4, <3>1, <3>2, <3>3, <3>4
  <2>6. todo'[RECV] = <<>>
    BY <1>2, <1>3, <2>5
  <2>7. todo'[APP] = todo[APP] /\ todo'[REST] = todo[REST]
    BY <1>2, <1>3, ThreadNames
  <2>8. ListsKnown'
    BY <2>6, <2>7 DEF HandshakeInv, ListsKnown, RecvLists
  <2> QED
    BY <1>3, <2>5, <2>6, <2>8
<1>4. CASE t = APP
  <2>1. todo[APP] \in AppLists /\ todo[APP] # <<>>
    BY <1>1, <1>4 DEF HandshakeInv, ListsKnown
  <2>2. Tail(todo[APP]) \in AppLists /\ Head(todo[APP]).what # "port_desc_request"
    <3>1. CASE todo[APP] = <<Send("miss_flow"), Send("punt_flow")>>
      BY <3>1, ShortLists, WhatIsSent DEF AppLists
    <3>2. CASE todo[APP] = <<Send("punt_flow")>>
      BY <3>2, ShortLists, WhatIsSent DEF AppLists
    <3>3. CASE todo[APP] = <<Send("packet_out")>>
      BY <3>3, ShortLists, WhatIsSent DEF AppLists
    <3> QED
      BY <2>1, <3>1, <3>2, <3>3 DEF AppLists
  <2>3. todo'[RECV] = todo[RECV] /\ todo'[REST] = todo[REST]
    BY <1>2, <1>4, ThreadNames
  <2>4. ListsKnown'
    BY <1>2, <1>4, <2>2, <2>3 DEF HandshakeInv, ListsKnown
  <2> QED
    BY <1>4, <2>2, <2>3, <2>4
<1>5. CASE t = REST
  <2>1. todo[REST] \in RestLists /\ todo[REST] # <<>>
    BY <1>1, <1>5 DEF HandshakeInv, ListsKnown
  <2>2. Tail(todo[REST]) \in RestLists /\ Head(todo[REST]).what # "port_desc_request"
    <3>1. todo[REST] = <<Send("delete")>>
      BY <2>1 DEF RestLists
    <3> QED
      BY <3>1, ShortLists, WhatIsSent DEF RestLists
  <2>3. todo'[RECV] = todo[RECV] /\ todo'[APP] = todo[APP]
    BY <1>2, <1>5, ThreadNames
  <2>4. ListsKnown'
    BY <1>2, <1>5, <2>2, <2>3 DEF HandshakeInv, ListsKnown
  <2> QED
    BY <1>5, <2>2, <2>3, <2>4
<1> QED
  BY <1>3, <1>4, <1>5, ThreadNames

LEMMA SendHandshake ==
  ASSUME HandshakeInv, NEW t \in Threads, Sends(t), todo' = [todo EXCEPT ![t] = Tail(@)],
         send_q' = send_q \/ send_q' = Append(send_q, Head(todo[t]).what),
         UNCHANGED <<state, in_hand, to_switch, to_controller, owed, events, registered>>
  PROVE  ListsKnown' /\ AnnouncedBefore' /\ FeaturesFirst'
<1>1. /\ ListsKnown'
      /\ Head(todo[t]).what = "port_desc_request" => todo[RECV] = <<Send("port_desc_request")>>
      /\ todo'[RECV] = <<>> \/ todo'[RECV] = todo[RECV]
  BY SendPops
<1>2. send_q \in Seq(ToSwitch) /\ Head(todo[t]).what \in ToSwitch
  BY SendingThread DEF HandshakeInv, QueueInv, TypeParts
<1>3. Among("port_desc_request", send_q')
        => Among("port_desc_request", send_q) \/ todo[RECV] = <<Send("port_desc_request")>>
  <2> DEFINE m == Head(todo[t]).what
  <2>1. CASE send_q' = send_q
    BY <2>1
  <2>2. CASE send_q' = Append(send_q, m)
    <3>1. Among("port_desc_request", Append(send_q, m))
            <=> Among("port_desc_request", send_q) \/ "port_desc_request" = m
      BY <1>2, AmongAppend
    <3> QED
      BY <1>1, <2>2, <3>1
  <2> QED
    BY <2>1, <2>2
<1>4. todo'[RECV] = <<Send("port_desc_request")>> \/ todo'[RECV] = <<Put("packet_in")>>
        => todo'[RECV] = todo[RECV]
  BY <1>1
<1>5. PortsAsked' => PortsAsked
  BY <1>3, <1>4 DEF PortsAsked
<1> QED
  BY <1>1, <1>5, QuietStep

LEMMA SendersHandshake ==
  ASSUME HandshakeInv, (\E t \in Threads : SendNow(t) \/ SendWait(t)) \/ Wake
  PROVE  ListsKnown' /\ AnnouncedBefore' /\ FeaturesFirst'
<1>1. ASSUME NEW t \in Threads, SendNow(t)
      PROVE  ListsKnown' /\ AnnouncedBefore' /\ FeaturesFirst'
  BY <1>1, SendHandshake DEF SendNow
<1>2. ASSUME UNCHANGED <<todo, send_q, state, in_hand, to_switch, to_controller, owed, events,
                         registered>>
      PROVE  ListsKnown' /\ AnnouncedBefore' /\ FeaturesFirst'
  <2>1. PortsAsked' => PortsAsked
    BY <1>2 DEF PortsAsked
  <2> QED
    BY <1>2, <2>1, QuietStep, ListsUnchanged
<1>3. ASSUME NEW t \in Threads, SendWait(t)
      PROVE  ListsKnown' /\ AnnouncedBefore' /\ FeaturesFirst'
  BY <1>2, <1>3 DEF SendWait
<1>4. CASE Wake
  <2>1. CASE Free \/ sem = 0
    BY <1>2, <1>4, <2>1 DEF Wake
  <2>2. CASE ~(Free \/ sem = 0)
    <3>1. /\ waiters # <<>> /\ waiters' = Tail(waiters)
          /\ todo' = [todo EXCEPT ![Head(waiters)] = Tail(@)]
          /\ send_q' = send_q \/ send_q' = Append(send_q, Head(todo[Head(waiters)]).what)
          /\ UNCHANGED <<state, in_hand, to_switch, to_controller, owed, events, registered>>
      BY <1>4, <2>2 DEF Wake, Free
    <3>2. Head(waiters) \in Threads /\ Sends(Head(waiters))
      BY <3>1, FirstLeaves DEF HandshakeInv
    <3> QED
      BY <3>1, <3>2, SendHandshake
  <2> QED
    BY <2>1, <2>2
<1> QED
  BY <1>1, <1>3, <1>4

LEMMA SendLoopHandshake ==
  ASSUME HandshakeInv, SendLoop \/ KillSendLoop
  PROVE  ListsKnown' /\ AnnouncedBefore' /\ FeaturesFirst'
<1>1. /\ send_q \in Seq(ToSwitch) /\ in_hand \in Seq(ToSwitch) /\ to_switch \in Seq(ToSwitch)
  BY DEF HandshakeInv, QueueInv, TypeParts
<1>2. UNCHANGED <<state, to_controller, owed, todo, events, registered>>
  BY DEF SendLoop, TakeMessage, WriteMessage, WriteAndClose, SendFails, KillSendLoop
<1> DEFINE asked == "port_desc_request"
<1>3. \/ Among(asked, send_q') \/ Among(asked, in_hand') \/ Among(asked, to_switch')
        => Among(asked, send_q) \/ Among(asked, in_hand) \/ Among(asked, to_switch)
  <2>1. CASE TakeMessage
    <3>1. /\ send_q # <<>> /\ in_hand' = <<Head(send_q)>> /\ send_q' = Tail(send_q)
          /\ to_switch' = to_switch
      BY <2>1 DEF TakeMessage
    <3>2. /\ Among(asked, send_q) <=> Among(asked, Tail(send_q)) \/ asked = Head(send_q)
          /\ Among(asked, <<Head(send_q)>>) => asked = Head(send_q)
      BY <1>1, <3>1, AmongTail
    <3> QED
      BY <3>1, <3>2
  <2>2. ~Among(asked, <<>>)
    BY AmongEmpty
  <2>3. Among(asked, to_switch \o in_hand) => Among(asked, to_switch) \/ Among(asked, in_hand)
    BY <1>1, AmongConcat
  <2>4. CASE WriteMessage
    BY <2>2, <2>3, <2>4 DEF WriteMessage, queue_vars
  <2>5. CASE WriteAndClose
    BY <2>2, <2>3, <2>5 DEF WriteAndClose, EndSendLoop
  <2>6. CASE SendFails \/ KillSendLoop
    BY <2>2, <2>6 DEF SendFails, KillSendLoop, EndSendLoop
  <2> QED
    BY <2>1, <2>4, <2>5, <2>6 DEF SendLoop
<1>4. PortsAsked' => PortsAsked
  BY <1>2, <1>3 DEF PortsAsked
<1> QED
  BY <1>2, <1>4, QuietStep, ListsUnchanged

(* The receive loop takes a message: what it then has to do is one of its  *)
(* lists, and it waits to put a packet-in only when the handshake is over. *)
LEMMA ReceiveHandshake ==
  ASSUME HandshakeInv, ReceiveHello \/ ReceivePortDesc \/ ReceiveOther
  PROVE  ListsKnown' /\ AnnouncedBefore' /\ FeaturesFirst'
<1>1. /\ to_controller \in Seq(FromSwitch) /\ todo \in [Threads -> Seq(Steps)]
  BY DEF HandshakeInv, QueueInv, TypeParts
<1>2. /\ to_controller # <<>> /\ todo[RECV] = <<>> /\ to_controller' = Tail(to_controller)
      /\ UNCHANGED <<send_q, in_hand, to_switch, owed, events, registered>>
  BY DEF ReceiveHello, ReceivePortDesc, ReceiveOther, CanReceive, queue_vars
<1> DEFINE told == "port_desc_reply"
<1>3. Among(told, to_controller) <=> Among(told, Tail(to_controller)) \/ told = Head(to_controller)
  BY <1>1, <1>2, AmongTail
<1>4. CASE ReceiveHello
  <2>1. PICK m \in {"features_request", "hello_failed"} :
          todo' = [todo EXCEPT ![RECV] = <<Send(m)>>]
    BY <1>4 DEF ReceiveHello
  <2>2. /\ todo'[RECV] = <<Send(m)>> /\ todo'[APP] = todo[APP] /\ todo'[REST] = todo[REST]
    BY <1>1, <2>1, ThreadNames
  <2>3. ListsKnown'
    BY <2>2 DEF HandshakeInv, ListsKnown, RecvLists
  <2>4. <<Send(m)>> # <<Send("port_desc_request")>> /\ <<Send(m)>> # <<Put("packet_in")>>
    BY DEF Send, Put
  <2>5. state' # "MAIN"
    BY <1>4 DEF ReceiveHello
  <2>6. PortsAsked' => PortsAsked
    BY <1>2, <1>3, <2>2, <2>4, <2>5 DEF PortsAsked
  <2> QED
    BY <1>2, <2>3, <2>6, QuietStep
<1>5. CASE ReceivePortDesc
  <2>1. /\ todo' = todo
        /\ told = Head(to_controller) \/ state' = state
    BY <1>5 DEF ReceivePortDesc
  <2>2. PortsAsked' => PortsAsked
    BY <1>2, <1>3, <2>1 DEF PortsAsked
  <2> QED
    BY <1>2, <2>1, <2>2, QuietStep, ListsUnchanged
<1>6. CASE ReceiveOther
  <2> DEFINE r == Reaction(Head(to_controller))
  <2>1. todo' = [todo EXCEPT ![RECV] = r] /\ state' = state
    BY <1>6 DEF ReceiveOther
  <2>2. /\ r \in {<<Put("features_reply"), Send("port_desc_request")>>, <<Put("packet_in")>>,
                  <<Send("echo_reply")>>, <<>>}
        /\ r = <<Put("packet_in")>> => state = "MAIN"
    <3>1. /\ <<Put("features_reply"), Send("port_desc_request")>> # <<Put("packet_in")>>
          /\ <<Send("echo_reply")>> # <<Put("packet_in")>>
          /\ <<>> # <<Put("packet_in")>>
      BY DEF Send, Put
    <3> QED
      BY <3>1 DEF Reaction
  <2> HIDE DEF r
  <2>3. /\ todo'[RECV] = r /\ todo'[APP] = todo[APP] /\ todo'[REST] = todo[REST]
    BY <1>1, <2>1, ThreadNames
  <2>4. ListsKnown'
    BY <2>2, <2>3 DEF HandshakeInv, ListsKnown, RecvLists
  <2>5. r # <<Send("port_desc_request")>>
    <3>1. /\ <<Put("features_reply"), Send("port_desc_request")>> # <<Send("port_desc_request")>>
          /\ <<Put("packet_in")>> # <<Send("port_desc_request")>>
          /\ <<Send("echo_reply")>> # <<Send("port_desc_request")>>
          /\ <<>> # <<Send("port_desc_request")>>
      BY DEF Send, Put
    <3> QED
      BY <2>2, <3>1
  <2>6. PortsAsked' => PortsAsked
    BY <1>2, <1>3, <2>1, <2>2, <2>3, <2>5 DEF PortsAsked
  <2> QED
    BY <1>2, <2>4, <2>6, QuietStep
<1> QED
  BY <1>4, <1>5, <1>6

(* The receive loop queues an event: a packet-in finds the switch          *)
(* announced, and the features reply announces it.                         *)
LEMMA PutHandshake ==
  ASSUME HandshakeInv, PutEvent
  PROVE  ListsKnown' /\ AnnouncedBefore' /\ FeaturesFirst'
<1>1. /\ events \in Seq(Observed) /\ todo \in [Threads -> Seq(Steps)]
  BY DEF HandshakeInv, QueueInv, TypeParts
<1> DEFINE e == Head(todo[RECV]).what
<1>2. /\ todo[RECV] # <<>> /\ Head(todo[RECV]).op = "put"
      /\ events' = Append(events, e) /\ registered' = registered
      /\ todo' = [todo EXCEPT ![RECV] = Tail(@)]
      /\ UNCHANGED <<state, send_q, in_hand, to_switch, to_controller, owed>>
  BY DEF PutEvent, queue_vars
<1>3. /\ todo'[RECV] = Tail(todo[RECV]) /\ todo'[APP] = todo[APP] /\ todo'[REST] = todo[REST]
  BY <1>1, <1>2, ThreadNames
<1>4. todo[RECV] \in {<<Put("features_reply"), Send("port_desc_request")>>, <<Put("packet_in")>>}
  <2>1. todo[RECV] \in RecvLists
    BY DEF HandshakeInv, ListsKnown
  <2>2. ASSUME NEW m, todo[RECV] = <<Send(m)>> PROVE FALSE
    BY <1>2, <2>2 DEF Send
  <2> QED
    BY <1>2, <2>1, <2>2 DEF RecvLists
<1>5. Announced => Announced'
  <2>1. e \in Observed
    BY <1>4, ShortLists DEF Put, Observed
  <2>2. Among("features_reply", events') <=> Among("features_reply", events) \/ "features_reply" = e
    BY <1>1, <1>2, <2>1, AmongAppend
  <2> QED
    BY <1>2, <2>2 DEF Announced
<1>6. CASE todo[RECV] = <<Put("features_reply"), Send("port_desc_request")>>
  <2>1. e = "features_reply" /\ todo'[RECV] = <<Send("port_desc_request")>>
    BY <1>3, <1>6, ShortLists DEF Put
  <2>2. ListsKnown'
    BY <1>3, <2>1 DEF HandshakeInv, ListsKnown, RecvLists
  <2>3. e \in Observed
    BY <2>1 DEF Observed
  <2>4. Among("features_reply", events')
    BY <1>1, <1>2, <2>1, <2>3, AmongAppend
  <2>5. AnnouncedBefore'
    BY <2>4 DEF AnnouncedBefore, Announced
  <2>6. FeaturesFirst'
    <3>1. /\ Len(events') = Len(events) + 1 /\ Len(events) \in Nat /\ events' \in Seq(Observed)
          /\ \A i \in 1..Len(events) : events'[i] = events[i]
          /\ events'[Len(events) + 1] = "features_reply"
      BY <1>1, <1>2, <2>1, <2>3, AppendType
    <3> SUFFICES ASSUME NEW i \in 1..Len(events'), events'[i] = "packet_in"
                 PROVE  registered \/ \E j \in 1..(i - 1) : events'[j] = "features_reply"
      BY <1>2, <3>1 DEF FeaturesFirst
    <3>2. i \in 1..Len(events) /\ events[i] = "packet_in" /\ i \in DOMAIN events
      BY <1>1, <3>1
    <3>3. registered \/ \E j \in 1..(i - 1) : events[j] = "features_reply"
      BY <3>2 DEF HandshakeInv, FeaturesFirst
    <3>4. \A j \in 1..(i - 1) : j \in 1..Len(events)
      BY <3>1, <3>2
    <3> QED
      BY <3>1, <3>3, <3>4
  <2> QED
    BY <2>2, <2>5, <2>6
<1>7. CASE todo[RECV] = <<Put("packet_in")>>
  <2>1. e = "packet_in" /\ todo'[RECV] = <<>> /\ e \in Observed
    BY <1>3, <1>7, ShortLists DEF Put, Observed
  <2>2. ListsKnown'
    BY <1>3, <2>1 DEF HandshakeInv, ListsKnown, RecvLists
  <2>3. Announced
    BY <1>7 DEF HandshakeInv, AnnouncedBefore, PortsAsked
  <2>4. AnnouncedBefore'
    BY <1>5, <2>3 DEF AnnouncedBefore
  <2>5. FeaturesFirst'
    <3>1. /\ Len(events') = Len(events) + 1 /\ Len(events) \in Nat /\ events' \in Seq(Observed)
          /\ \A i \in 1..Len(events) : events'[i] = events[i]
      BY <1>1, <1>2, <2>1, AppendType
    <3> SUFFICES ASSUME NEW i \in 1..Len(events'), events'[i] = "packet_in"
                 PROVE  registered \/ \E j \in 1..(i - 1) : events'[j] = "features_reply"
      BY <1>2, <3>1 DEF FeaturesFirst
    <3>2. CASE i \in 1..Len(events)
      <4>1. events[i] = "packet_in" /\ i \in DOMAIN events
        BY <1>1, <3>1, <3>2
      <4>2. registered \/ \E j \in 1..(i - 1) : events[j] = "features_reply"
        BY <4>1 DEF HandshakeInv, FeaturesFirst
      <4>3. \A j \in 1..(i - 1) : j \in 1..Len(events)
        BY <3>1, <3>2
      <4> QED
        BY <3>1, <4>2, <4>3
    <3>3. CASE i \notin 1..Len(events)
      <4>1. i - 1 = Len(events)
        BY <3>1, <3>3
      <4>2. registered \/ \E j \in 1..Len(events) : events[j] = "features_reply"
        BY <2>3 DEF Announced, Among
      <4> QED
        BY <3>1, <4>1, <4>2
    <3> QED
      BY <3>2, <3>3
  <2> QED
    BY <2>2, <2>4, <2>5
<1> QED
  BY <1>4, <1>6, <1>7

(* The application takes an event: behind a features reply it knows the    *)
(* switch, and behind any other one what announced the switch is still     *)
(* there.                                                                  *)
LEMMA TakeHandshake ==
  ASSUME HandshakeInv, TakeEvent
  PROVE  ListsKnown' /\ AnnouncedBefore' /\ FeaturesFirst'
<1>1. /\ events \in Seq(Observed) /\ todo \in [Threads -> Seq(Steps)]
  BY DEF HandshakeInv, QueueInv, TypeParts
<1>2. /\ events # <<>> /\ events' = Tail(events)
      /\ registered' = (registered \/ Head(events) = "features_reply")
      /\ UNCHANGED <<state, send_q, in_hand, to_switch, to_controller, owed>>
  BY DEF TakeEvent, queue_vars
<1>3. PICK steps \in Handler(Head(events)) : todo' = [todo EXCEPT ![APP] = steps]
  BY DEF TakeEvent
<1>4. /\ todo'[APP] = steps /\ todo'[RECV] = todo[RECV] /\ todo'[REST] = todo[REST]
  BY <1>1, <1>3, ThreadNames
<1>5. steps \in AppLists
  BY DEF Handler, AppLists
<1>6. ListsKnown'
  BY <1>4, <1>5 DEF HandshakeInv, ListsKnown
<1>7. PortsAsked' => PortsAsked
  BY <1>2, <1>4 DEF PortsAsked
<1>8. CASE registered'
  BY <1>6, <1>8 DEF AnnouncedBefore, Announced, FeaturesFirst
<1>9. CASE ~registered'
  <2>1. ~registered /\ Head(events) # "features_reply"
    BY <1>2, <1>9
  <2>2. Among("features_reply", events)
          <=> Among("features_reply", Tail(events)) \/ "features_reply" = Head(events)
    BY <1>1, <1>2, AmongTail
  <2>3. AnnouncedBefore'
    BY <1>2, <1>7, <2>1, <2>2 DEF HandshakeInv, AnnouncedBefore, Announced
  <2>4. /\ Len(events') = Len(events) - 1 /\ Len(events) \in Nat /\ Len(events) > 0
        /\ events[1] = Head(events) /\ events' \in Seq(Observed)
        /\ \A i \in 1..Len(events') : events'[i] = events[i + 1]
    BY <1>1, <1>2, TailType
  <2>5. FeaturesFirst'
    <3> SUFFICES ASSUME NEW i \in 1..Len(events'), events'[i] = "packet_in"
                 PROVE  \E j \in 1..(i - 1) : events'[j] = "features_reply"
      BY <2>4 DEF FeaturesFirst
    <3>1. i + 1 \in DOMAIN events /\ events[i + 1] = "packet_in"
      BY <1>1, <2>4
    <3>2. PICK j \in 1..((i + 1) - 1) : events[j] = "features_reply"
      BY <2>1, <3>1 DEF HandshakeInv, FeaturesFirst
    <3>3. j # 1
      BY <2>1, <2>4, <3>2
    <3>4. j - 1 \in 1..(i - 1) /\ j - 1 \in 1..Len(events') /\ (j - 1) + 1 = j
      BY <2>4, <3>3
    <3>5. events'[j - 1] = events[(j - 1) + 1]
      BY <2>4, <3>4
    <3> QED
      BY <3>2, <3>4, <3>5
  <2> QED
    BY <1>6, <2>3, <2>5
<1> QED
  BY <1>8, <1>9

LEMMA RestHandshake ==
  ASSUME HandshakeInv, RestRequest
  PROVE  ListsKnown' /\ AnnouncedBefore' /\ FeaturesFirst'
<1>1. todo \in [Threads -> Seq(Steps)]
  BY DEF HandshakeInv, QueueInv, TypeParts
<1>2. /\ todo' = [todo EXCEPT ![REST] = <<Send("delete")>>]
      /\ UNCHANGED <<state, send_q, in_hand, to_switch, to_controller, owed, events, registered>>
  BY DEF RestRequest, queue_vars
<1>3. /\ todo'[REST] = <<Send("delete")>> /\ todo'[RECV] = todo[RECV] /\ todo'[APP] = todo[APP]
  BY <1>1, <1>2, ThreadNames
<1>4. ListsKnown'
  BY <1>3 DEF HandshakeInv, ListsKnown, RestLists
<1>5. PortsAsked' => PortsAsked
  BY <1>2, <1>3 DEF PortsAsked
<1> QED
  BY <1>2, <1>4, <1>5, QuietStep

(* The switch describes its ports only when it has been asked to.          *)
LEMMA SwitchHandshake ==
  ASSUME HandshakeInv, Switch \/ SwitchSends \/ SwitchFails
  PROVE  ListsKnown' /\ AnnouncedBefore' /\ FeaturesFirst'
<1>1. /\ to_switch \in Seq(ToSwitch) /\ to_controller \in Seq(FromSwitch)
      /\ owed \in Seq(FromSwitch)
  BY DEF HandshakeInv, QueueInv, TypeParts
<1>2. UNCHANGED <<state, send_q, in_hand, todo, events, registered>>
  BY DEF Switch, SwitchReads, SwitchAnswers, SwitchCloses, SwitchSends, SwitchFails, queue_vars
<1> DEFINE asked == "port_desc_request"
           told  == "port_desc_reply"
<1>3. Among(asked, to_switch') \/ Among(told, owed') \/ Among(told, to_controller')
        => Among(asked, to_switch) \/ Among(told, owed) \/ Among(told, to_controller)
  <2>1. ~Among(told, <<>>) /\ ~Among(asked, <<>>)
    BY AmongEmpty
  <2>2. CASE SwitchReads
    <3>1. /\ to_switch # <<>> /\ owed' \in Answers(Head(to_switch))
          /\ to_switch' = Tail(to_switch) /\ to_controller' = to_controller
      BY <2>2 DEF SwitchReads
    <3>2. Among(asked, to_switch) <=> Among(asked, Tail(to_switch)) \/ asked = Head(to_switch)
      BY <1>1, <3>1, AmongTail
    <3>3. ASSUME Among(told, owed'), Head(to_switch) # asked PROVE FALSE
      <4>1. owed' = <<"features_reply">> \/ owed' = <<>>
        BY <3>1, <3>3 DEF Answers
      <4>2. ~Among(told, <<"features_reply">>)
        BY DEF Among
      <4> QED
        BY <2>1, <3>3, <4>1, <4>2
    <3> QED
      BY <3>1, <3>2, <3>3
  <2>3. CASE SwitchAnswers
    <3>1. /\ to_controller' = Append(to_controller, Head(owed)) /\ owed' = Tail(owed)
          /\ owed # <<>> /\ to_switch' = to_switch
      BY <2>3 DEF SwitchAnswers
    <3>2. Head(owed) \in FromSwitch
      BY <1>1, <3>1, TailType
    <3>3. Among(told, owed) <=> Among(told, Tail(owed)) \/ told = Head(owed)
      BY <1>1, <3>1, AmongTail
    <3>4. Among(told, Append(to_controller, Head(owed)))
            <=> Among(told, to_controller) \/ told = Head(owed)
      BY <1>1, <3>2, AmongAppend
    <3> QED
      BY <3>1, <3>3, <3>4
  <2>4. CASE SwitchSends
    <3>1. PICK m \in {"echo_request", "packet_in"} : to_controller' = Append(to_controller, m)
      BY <2>4 DEF SwitchSends
    <3>2. m \in FromSwitch
      BY DEF FromSwitch
    <3>3. Among(told, Append(to_controller, m)) <=> Among(told, to_controller) \/ told = m
      BY <1>1, <3>2, AmongAppend
    <3> QED
      BY <2>4, <3>1, <3>3 DEF SwitchSends
  <2>5. CASE SwitchCloses
    BY <2>1, <2>5 DEF SwitchCloses
  <2>6. CASE SwitchFails
    BY <2>1, <2>6 DEF SwitchFails
  <2> QED
    BY <2>2, <2>3, <2>4, <2>5, <2>6 DEF Switch
<1>4. PortsAsked' => PortsAsked
  BY <1>2, <1>3 DEF PortsAsked
<1> QED
  BY <1>2, <1>4, QuietStep, ListsUnchanged

LEMMA HandshakeStep == HandshakeInv /\ [Next]_vars => HandshakeInv'
<1> SUFFICES ASSUME HandshakeInv, [Next]_vars PROVE HandshakeInv'
  OBVIOUS
<1>1. QueueInv'
  BY QueueStep DEF HandshakeInv
<1>2. CASE EndReceiveLoop \/ CloseDatapath \/ UNCHANGED vars
  <2>1. /\ state' = state \/ state' = "DEAD"
        /\ UNCHANGED <<send_q, in_hand, to_switch, to_controller, owed, todo, events, registered>>
    BY <1>2 DEF EndReceiveLoop, CloseDatapath, vars, queue_vars
  <2>2. PortsAsked' => PortsAsked
    BY <2>1 DEF PortsAsked
  <2>3. ListsKnown' /\ AnnouncedBefore' /\ FeaturesFirst'
    BY <2>1, <2>2, QuietStep, ListsUnchanged
  <2> QED
    BY <1>1, <2>3 DEF HandshakeInv
<1>3. CASE ~(EndReceiveLoop \/ CloseDatapath \/ UNCHANGED vars)
  <2>1. ListsKnown' /\ AnnouncedBefore' /\ FeaturesFirst'
    BY <1>3, SendersHandshake, SendLoopHandshake, ReceiveHandshake, PutHandshake,
       TakeHandshake, RestHandshake, SwitchHandshake DEF Next, RecvLoop
  <2> QED
    BY <1>1, <2>1 DEF HandshakeInv
<1> QED
  BY <1>2, <1>3

(* For every capacity of the queues, the application handles the features  *)
(* reply of a switch before any of its packets, whatever order messages    *)
(* arrive in and however long the threads wait for one another.            *)
THEOREM SwitchKnownFirst == Spec => []FeaturesFirst
<1>1. HandshakeInv => FeaturesFirst
  BY DEF HandshakeInv
<1> QED
  BY <1>1, HandshakeInit, HandshakeStep, PTL DEF Spec
=============================================================================
