------------------------- MODULE FirewallPuntProofs -------------------------
(***************************************************************************)
(* Proof that the rule which brings IPv4 under inspection is never lost    *)
(* while a switch is registered.                                           *)
(*                                                                         *)
(* PuntRuleKept alone is not inductive: a thread may be about to send a    *)
(* delete that removes the rule.  PuntPaired adds that such a delete is    *)
(* always followed, in the same thread, by the rule itself.                *)
(***************************************************************************)
EXTENDS FirewallProofs

HasPunt(todo) == \E i \in 1..Len(todo) : todo[i] = Add(PuntFlow)

\* Every delete that removes the punt rule is followed by the punt rule.
Paired(todo) ==
  \A i \in 1..Len(todo) : RemovesPunt(todo[i]) =>
    \E j \in (i + 1)..Len(todo) : todo[j] = Add(PuntFlow)

PuntPaired == \A t \in Threads : Paired(thread[t].todo)

-----------------------------------------------------------------------------
(* Rules and messages.                                                     *)

LEMMA PuntIsUnique ==
  ASSUME NEW g \in Rules
  PROVE  /\ g.priority = 300 => g = PuntFlow
         /\ g.timed => g # PuntFlow
<1>1. PuntFlow.timed = FALSE
  BY DEF PuntFlow
<1>2. g = MissFlow => g.priority # 300
  BY DEF MissFlow
<1>3. ASSUME NEW f \in Traffic
      PROVE  /\ RateLimitFlow(f).priority # 300
             /\ ArpSpoofFlow(f).priority # 300
  BY DEF RateLimitFlow, ArpSpoofFlow
<1>4. ASSUME NEW f \in Traffic, NEW p \in InPorts
      PROVE  LearnedFlow(f, p).priority # 300
  BY DEF LearnedFlow
<1>5. ASSUME NEW f \in Flows5, NEW p \in InPorts
      PROVE  /\ TrustFlow(f.ip_proto, Sender(f), Receiver(f), p).priority # 300
             /\ TrustFlow(f.ip_proto, Receiver(f), Sender(f), p).priority # 300
  BY DEF TrustFlow
<1> QED
  BY <1>1, <1>2, <1>3, <1>4, <1>5 DEF Rules

LEMMA RemoversOfPunt ==
  /\ ~RemovesPunt(Log)
  /\ ~RemovesPunt(PacketOut)
  /\ \A g : ~RemovesPunt(Add(g))
  /\ \A ip : ~RemovesPunt(Delete(FromIp(ip))) /\ ~RemovesPunt(Delete(ToIp(ip)))
  /\ \A port, proto : ~RemovesPunt(Delete(ToPort(port, proto)))
<1>1. ~RemovesPunt(Log) /\ ~RemovesPunt(PacketOut) /\ \A g : ~RemovesPunt(Add(g))
  BY DEF RemovesPunt, Log, PacketOut, Add
<1>2. DOMAIN PuntFlow.match = {"eth_type"}
  BY DEF PuntFlow, AllIpv4
<1>3. ASSUME NEW x, NEW y \in DOMAIN x, y # "eth_type"
      PROVE  ~RemovesPunt(Delete(x))
  BY <1>2, <1>3 DEF RemovesPunt, Delete, Covers
<1>4. ASSUME NEW ip
      PROVE  ~RemovesPunt(Delete(FromIp(ip))) /\ ~RemovesPunt(Delete(ToIp(ip)))
  <2>1. "ipv4_src" \in DOMAIN FromIp(ip) /\ "ipv4_dst" \in DOMAIN ToIp(ip)
    BY DEF FromIp, ToIp
  <2> QED
    BY <1>3, <2>1
<1>5. ASSUME NEW port, NEW proto
      PROVE  ~RemovesPunt(Delete(ToPort(port, proto)))
  <2>1. "tp_dst" \in DOMAIN ToPort(port, proto)
    BY DEF ToPort
  <2> QED
    BY <1>3, <2>1
<1> QED
  BY <1>1, <1>4, <1>5

LEMMA PairedTail ==
  ASSUME NEW S, NEW todo \in Seq(S), todo # <<>>, Paired(todo)
  PROVE  /\ Paired(Tail(todo))
         /\ HasPunt(todo) /\ Head(todo) # Add(PuntFlow) => HasPunt(Tail(todo))
         /\ RemovesPunt(Head(todo)) => HasPunt(Tail(todo))
<1>1. /\ Len(Tail(todo)) = Len(todo) - 1 /\ Len(todo) \in Nat /\ Len(todo) > 0
      /\ todo[1] = Head(todo)
      /\ \A i \in 1..Len(Tail(todo)) : Tail(todo)[i] = todo[i + 1]
  BY TailType
<1>2. ASSUME NEW i \in 1..Len(todo), i > 1
      PROVE  i - 1 \in 1..Len(Tail(todo)) /\ Tail(todo)[i - 1] = todo[i]
  BY <1>1, <1>2
<1>3. Paired(Tail(todo))
  <2> SUFFICES ASSUME NEW i \in 1..Len(Tail(todo)), RemovesPunt(Tail(todo)[i])
               PROVE  \E j \in (i + 1)..Len(Tail(todo)) : Tail(todo)[j] = Add(PuntFlow)
    BY DEF Paired
  <2>1. i + 1 \in 1..Len(todo) /\ RemovesPunt(todo[i + 1])
    BY <1>1
  <2>2. PICK j \in ((i + 1) + 1)..Len(todo) : todo[j] = Add(PuntFlow)
    BY <2>1 DEF Paired
  <2>3. j \in 1..Len(todo) /\ j > 1 /\ j - 1 \in (i + 1)..Len(Tail(todo))
    BY <1>1, <2>1
  <2> QED
    BY <1>2, <2>2, <2>3
<1>4. HasPunt(todo) /\ Head(todo) # Add(PuntFlow) => HasPunt(Tail(todo))
  BY <1>1, <1>2 DEF HasPunt
<1>5. RemovesPunt(Head(todo)) => HasPunt(Tail(todo))
  BY <1>1, <1>2 DEF HasPunt, Paired
<1> QED
  BY <1>3, <1>4, <1>5

-----------------------------------------------------------------------------
(* The send queue and the switch.                                          *)

\* A thread puts a message into the queue.
LEMMA PuntAppend ==
  ASSUME NEW m \in FlowMessage, send_q \in Seq(FlowMessage),
         send_q' = Append(send_q, m), flows' = flows
  PROVE  /\ m = Add(PuntFlow) => PuntAfterQueue'
         /\ PuntAfterQueue /\ ~RemovesPunt(m) => PuntAfterQueue'
<1>1. /\ Len(send_q') = Len(send_q) + 1 /\ Len(send_q) \in Nat
      /\ \A i \in 1..Len(send_q) : send_q'[i] = send_q[i]
      /\ send_q'[Len(send_q) + 1] = m
  BY AppendType
<1>2. ASSUME m = Add(PuntFlow)
      PROVE  PuntAfterQueue'
  BY <1>1, <1>2 DEF PuntAfterQueue
<1>3. ASSUME PuntAfterQueue, ~RemovesPunt(m)
      PROVE  PuntAfterQueue'
  <2>1. CASE PuntFlow \in flows /\ \A j \in 1..Len(send_q) : ~RemovesPunt(send_q[j])
    <3>1. \A j \in 1..Len(send_q') : ~RemovesPunt(send_q'[j])
      BY <1>1, <1>3, <2>1
    <3> QED
      BY <2>1, <3>1 DEF PuntAfterQueue, RemovesPunt
  <2>2. ASSUME NEW i \in 1..Len(send_q), send_q[i] = Add(PuntFlow),
               \A j \in (i + 1)..Len(send_q) : ~RemovesPunt(send_q[j])
        PROVE  PuntAfterQueue'
    <3>1. i \in 1..Len(send_q') /\ send_q'[i] = Add(PuntFlow)
      BY <1>1, <2>2
    <3>2. \A j \in (i + 1)..Len(send_q') : ~RemovesPunt(send_q'[j])
      BY <1>1, <1>3, <2>2
    <3> QED
      BY <3>1, <3>2 DEF PuntAfterQueue, RemovesPunt
  <2> QED
    BY <1>3, <2>1, <2>2 DEF PuntAfterQueue
<1> QED
  BY <1>2, <1>3

\* The switch carries out a message that does not remove the rule.
LEMMA PuntSurvives ==
  ASSUME NEW table \in SUBSET Rules, NEW m \in FlowMessage, ~RemovesPunt(m),
         PuntFlow \in table
  PROVE  PuntFlow \in Apply(table, m)
<1>1. CASE \E g \in Rules : m = Add(g)
  <2>1. PICK g \in Rules : m = Add(g)
    BY <1>1
  <2>2. Apply(table, m) = AddFlow(table, g)
    BY <2>1 DEF Apply, Add
  <2>3. PuntFlow.priority = 300
    BY DEF PuntFlow
  <2> QED
    BY <2>2, <2>3, PuntIsUnique DEF AddFlow
<1>2. CASE m = PacketOut
  BY <1>2 DEF Apply, PacketOut
<1>3. CASE \E x : m = Delete(x)
  <2>1. PICK x : m = Delete(x)
    BY <1>3
  <2>2. Apply(table, m) = DeleteFlows(table, x) /\ ~Covers(x, PuntFlow.match)
    BY <2>1 DEF Apply, Delete, RemovesPunt
  <2> QED
    BY <2>2 DEF DeleteFlows
<1> QED
  BY <1>1, <1>2, <1>3, MessageKinds

LEMMA PuntApplied ==
  ASSUME NEW table \in SUBSET Rules
  PROVE  PuntFlow \in Apply(table, Add(PuntFlow))
BY DEF Apply, Add, AddFlow

LEMMA PuntSendLoop ==
  ASSUME TypeInv, SendLoop, PuntAfterQueue
  PROVE  PuntAfterQueue'
<1>0. send_q \in Seq(FlowMessage) /\ send_q # <<>> /\ flows \in SUBSET Rules
      /\ flows' = Apply(flows, Head(send_q)) /\ send_q' = Tail(send_q)
  BY DEF TypeInv, TypeOK, SendLoop
<1>1. /\ Len(send_q') = Len(send_q) - 1 /\ Len(send_q) \in Nat /\ Len(send_q) > 0
      /\ send_q[1] = Head(send_q) /\ Head(send_q) \in FlowMessage
      /\ \A i \in 1..Len(send_q') : send_q'[i] = send_q[i + 1]
  BY <1>0, TailType
<1>2. ASSUME PuntFlow \in flows', \A j \in 2..Len(send_q) : ~RemovesPunt(send_q[j])
      PROVE  PuntAfterQueue'
  <2>1. \A j \in 1..Len(send_q') : ~RemovesPunt(send_q'[j])
    BY <1>1, <1>2
  <2> QED
    BY <1>2, <2>1 DEF PuntAfterQueue, RemovesPunt
<1>3. CASE PuntFlow \in flows /\ \A j \in 1..Len(send_q) : ~RemovesPunt(send_q[j])
  <2>1. PuntFlow \in flows'
    BY <1>0, <1>1, <1>3, PuntSurvives
  <2> QED
    BY <1>1, <1>2, <1>3, <2>1
<1>4. ASSUME NEW i \in 1..Len(send_q), send_q[i] = Add(PuntFlow),
             \A j \in (i + 1)..Len(send_q) : ~RemovesPunt(send_q[j])
      PROVE  PuntAfterQueue'
  <2>1. CASE i = 1
    <3>1. PuntFlow \in flows'
      BY <1>0, <1>1, <1>4, <2>1, PuntApplied
    <3> QED
      BY <1>1, <1>2, <1>4, <2>1, <3>1
  <2>2. CASE i > 1
    <3>1. i - 1 \in 1..Len(send_q') /\ send_q'[i - 1] = Add(PuntFlow)
      BY <1>1, <1>4, <2>2
    <3>2. \A j \in ((i - 1) + 1)..Len(send_q') : ~RemovesPunt(send_q'[j])
      BY <1>1, <1>4, <2>2
    <3> QED
      BY <3>1, <3>2 DEF PuntAfterQueue, RemovesPunt
  <2> QED
    BY <2>1, <2>2
<1> QED
  BY <1>3, <1>4 DEF PuntAfterQueue

-----------------------------------------------------------------------------
(* The threads.                                                            *)

PuntInv == TypeInv /\ LogsLast /\ PuntPaired /\ PuntRuleKept

\* What it takes to preserve the invariant.
LEMMA PuntStep ==
  ASSUME PuntInv,
         registered' = "live" => registered = "live",
         \A t \in Threads : Paired(thread'[t].todo),
         PuntAfterQueue => PuntAfterQueue' \/ \E t \in Threads : WillSendPunt(t)',
         \A t \in Threads : WillSendPunt(t) => WillSendPunt(t)' \/ PuntAfterQueue'
  PROVE  (PuntPaired /\ PuntRuleKept)'
<1>1. PuntPaired'
  BY DEF PuntPaired, Paired, RemovesPunt
<1>2. PuntRuleKept'
  BY DEF PuntRuleKept, PuntInv
<1> QED
  BY <1>1, <1>2

\* A thread that has sent everything, or nothing yet, starts a list of sends.
LEMMA PuntStart ==
  ASSUME PuntInv, NEW t \in Threads, NEW th, Paired(th.todo),
         thread[t].todo = <<>>, thread' = [thread EXCEPT ![t] = th],
         registered' = registered, send_q' = send_q, flows' = flows
  PROVE  (PuntPaired /\ PuntRuleKept)'
<1>0. thread \in [Threads -> ThreadType]
  BY DEF PuntInv, TypeInv, TypeOK
<1>1. \A u \in Threads : Paired(thread'[u].todo)
  BY <1>0 DEF PuntInv, PuntPaired
<1>2. PuntAfterQueue => PuntAfterQueue'
  BY DEF PuntAfterQueue
<1>3. ~WillSendPunt(t)
  BY DEF WillSendPunt
<1>4. \A u \in Threads : WillSendPunt(u) => WillSendPunt(u)'
  BY <1>0, <1>3 DEF WillSendPunt
<1> QED
  BY <1>1, <1>2, <1>4, PuntStep

\* The threads keep what they have to send, and so does the queue.
LEMMA PuntSame ==
  ASSUME PuntInv,
         \A u \in Threads : /\ thread'[u].todo = thread[u].todo
                            /\ thread'[u].live = thread[u].live,
         registered' = registered, PuntAfterQueue => PuntAfterQueue'
  PROVE  (PuntPaired /\ PuntRuleKept)'
<1>1. \A u \in Threads : Paired(thread'[u].todo)
  BY DEF PuntInv, PuntPaired
<1>2. \A u \in Threads : WillSendPunt(u) => WillSendPunt(u)'
  BY DEF WillSendPunt
<1> QED
  BY <1>1, <1>2, PuntStep

LEMMA ShortPaired ==
  /\ Paired(<<>>)
  /\ \A m : ~RemovesPunt(m) => Paired(<<m>>)
  /\ \A m, n : ~RemovesPunt(m) /\ ~RemovesPunt(n) => Paired(<<m, n>>)
  /\ \A m, n, o : ~RemovesPunt(m) /\ ~RemovesPunt(n) /\ ~RemovesPunt(o) =>
       Paired(<<m, n, o>>)
  /\ \A m : Paired(<<m, Add(PuntFlow)>>)
<1>1. Paired(<<>>)
  BY DEF Paired
<1>2. ASSUME NEW m, ~RemovesPunt(m)
      PROVE  Paired(<<m>>)
  BY <1>2 DEF Paired
<1>3. ASSUME NEW m, NEW n, ~RemovesPunt(m), ~RemovesPunt(n)
      PROVE  Paired(<<m, n>>)
  BY <1>3 DEF Paired
<1>4. ASSUME NEW m, NEW n, NEW o, ~RemovesPunt(m), ~RemovesPunt(n), ~RemovesPunt(o)
      PROVE  Paired(<<m, n, o>>)
  BY <1>4 DEF Paired
<1>5. ASSUME NEW m
      PROVE  Paired(<<m, Add(PuntFlow)>>)
  <2> DEFINE todo == <<m, Add(PuntFlow)>>
  <2>1. Len(todo) = 2 /\ todo[1] = m /\ todo[2] = Add(PuntFlow)
    OBVIOUS
  <2> HIDE DEF todo
  <2>2. ~RemovesPunt(todo[2])
    BY <2>1, RemoversOfPunt
  <2>3. Paired(todo)
    BY <2>1, <2>2 DEF Paired
  <2> QED
    BY <2>3 DEF todo
<1> QED
  BY <1>1, <1>2, <1>3, <1>4, <1>5

LEMMA PuntProceed ==
  ASSUME PuntInv, NEW t \in Threads, Proceed(t)
  PROVE  (PuntPaired /\ PuntRuleKept)'
<1> DEFINE todo == thread[t].todo
<1>0. /\ thread \in [Threads -> ThreadType]
      /\ send_q \in Seq(FlowMessage)
      /\ todo \in Seq(FlowMessage \cup {Log}) /\ Paired(todo)
      /\ TypeInv
  BY DEF PuntInv, TypeInv, TypeOK, ThreadType, PuntPaired
\* Thread t drops the head of its list.
<1>1. ASSUME todo # <<>>, thread' = [thread EXCEPT ![t].todo = Tail(@)]
      PROVE  /\ \A u \in Threads : thread'[u].live = thread[u].live
             /\ \A u \in Threads \ {t} : thread'[u].todo = thread[u].todo
             /\ thread'[t].todo = Tail(todo)
             /\ \A u \in Threads : Paired(thread'[u].todo)
  <2>1. /\ \A u \in Threads : thread'[u].live = thread[u].live
        /\ \A u \in Threads \ {t} : thread'[u].todo = thread[u].todo
        /\ thread'[t].todo = Tail(todo)
    BY <1>0, <1>1 DEF ThreadType
  <2>2. Paired(Tail(todo))
    BY <1>0, <1>1, PairedTail
  <2> QED
    BY <2>1, <2>2 DEF PuntInv, PuntPaired
\* ... because it is not sent.
<1>2. ASSUME todo # <<>>, thread' = [thread EXCEPT ![t].todo = Tail(@)],
             ~thread[t].live \/ Head(todo) # Add(PuntFlow),
             registered' = registered, send_q' = send_q, flows' = flows
      PROVE  (PuntPaired /\ PuntRuleKept)'
  <2>1. PuntAfterQueue => PuntAfterQueue'
    BY <1>2 DEF PuntAfterQueue
  <2>2. WillSendPunt(t) => WillSendPunt(t)'
    <3>1. thread[t].live /\ HasPunt(todo) => HasPunt(Tail(todo))
      BY <1>0, <1>2, PairedTail
    <3> QED
      BY <1>1, <1>2, <3>1 DEF WillSendPunt, HasPunt
  <2>3. \A u \in Threads : WillSendPunt(u) => WillSendPunt(u)'
    BY <1>1, <1>2, <2>2 DEF WillSendPunt
  <2> QED
    BY <1>1, <1>2, <2>1, <2>3, PuntStep
\* ... because it enters the queue.
<1>3. ASSUME todo # <<>>, thread' = [thread EXCEPT ![t].todo = Tail(@)],
             thread[t].live, Head(todo) # Log, send_q' = Append(send_q, Head(todo)),
             registered' = registered, flows' = flows
      PROVE  (PuntPaired /\ PuntRuleKept)'
  <2>1. Head(todo) \in FlowMessage
    BY <1>0, <1>3, TailType
  <2>2. /\ Head(todo) = Add(PuntFlow) => PuntAfterQueue'
        /\ PuntAfterQueue /\ ~RemovesPunt(Head(todo)) => PuntAfterQueue'
    BY <1>0, <1>3, <2>1, PuntAppend
  <2>3. HasPunt(Tail(todo)) => WillSendPunt(t)'
    BY <1>1, <1>3 DEF HasPunt, WillSendPunt
  <2>4. PuntAfterQueue => PuntAfterQueue' \/ \E u \in Threads : WillSendPunt(u)'
    BY <1>0, <1>3, <2>2, <2>3, PairedTail
  <2>5. WillSendPunt(t) => WillSendPunt(t)' \/ PuntAfterQueue'
    <3>1. WillSendPunt(t) => HasPunt(todo)
      BY DEF WillSendPunt, HasPunt
    <3> QED
      BY <1>0, <1>3, <2>2, <2>3, <3>1, PairedTail
  <2>6. \A u \in Threads : WillSendPunt(u) => WillSendPunt(u)' \/ PuntAfterQueue'
    BY <1>1, <1>3, <2>5 DEF WillSendPunt
  <2> QED
    BY <1>1, <1>3, <2>4, <2>6, PuntStep
<1>4. CASE SendDiscard(t)
  BY <1>2, <1>4 DEF SendDiscard, sendVars, linkVars
<1>5. CASE SendNow(t)
  BY <1>3, <1>5 DEF SendNow, linkVars
<1>6. CASE SendResume(t)
  <2>1. waiters # <<>> /\ t = Head(waiters) /\ waiters \in Seq(Threads) /\ WaitersOK
    BY <1>0, <1>6 DEF SendResume, TypeInv, TypeOK
  <2>2. 1 \in 1..Len(waiters) /\ waiters[1] = t
    BY <2>1, TailType
  <2>3. todo # <<>> /\ thread[t].live /\ Head(todo) # Log
    BY <2>1, <2>2 DEF WaitersOK
  <2> QED
    BY <1>3, <1>6, <2>3 DEF SendResume, linkVars
<1>7. CASE LogEvent(t)
  <2>1. Head(todo) # Add(PuntFlow)
    BY <1>7, LogIsDistinct DEF LogEvent, AtLog
  <2> QED
    BY <1>2, <1>7, <2>1 DEF LogEvent, AtLog, sendVars, linkVars
<1>8. CASE SendBlock(t) \/ LogWaits(t) \/ WakeUp(t)
  <2>1. UNCHANGED <<thread, send_q, flows, registered>>
    BY <1>8 DEF SendBlock, LogWaits, WakeUp, sendVars, linkVars
  <2>2. PuntAfterQueue => PuntAfterQueue'
    BY <2>1 DEF PuntAfterQueue
  <2> QED
    BY <2>1, <2>2, PuntSame
<1>9. CASE HandlerEnds(t)
  <2>1. /\ todo = <<>> /\ thread' = [thread EXCEPT ![t] = Idle]
        /\ UNCHANGED <<registered, send_q, flows>>
    BY <1>9 DEF HandlerEnds, Reached, Return, sendVars, linkVars
  <2>2. Paired(Idle.todo)
    BY ShortPaired DEF Idle
  <2> QED
    BY <2>1, <2>2, PuntStart
<1> QED
  BY <1>4, <1>5, <1>6, <1>7, <1>8, <1>9 DEF Proceed

\* A log call ends a list, so an exception in it takes no rule with it.
LEMMA PuntClientActs ==
  ASSUME PuntInv, NEW t \in Threads, ClientActs(t)
  PROVE  (PuntPaired /\ PuntRuleKept)'
<1> DEFINE todo == thread[t].todo
           th == IF LogRaises(t) THEN Idle ELSE [thread[t] EXCEPT !.todo = <<>>]
<1>0. /\ thread \in [Threads -> ThreadType]
      /\ todo \in Seq(FlowMessage \cup {Log}) /\ LogLast(todo)
  BY DEF PuntInv, TypeInv, TypeOK, ThreadType, LogsLast
<1>1. todo # <<>> /\ Head(todo) = Log /\ UNCHANGED <<registered, send_q, flows>>
  BY DEF ClientActs, LogResumes, LogRaises, AtLog, sendVars, linkVars
<1>2. todo = <<Log>> /\ Tail(todo) = <<>>
  BY <1>0, <1>1, LogLastTail
<1>3. th.todo = <<>>
  BY <1>0 DEF Idle, ThreadType
<1>4. thread' = [thread EXCEPT ![t] = th]
  BY <1>0, <1>2 DEF ClientActs, LogResumes, LogRaises, Return
<1> HIDE DEF th
<1>5. \A u \in Threads : Paired(thread'[u].todo)
  BY <1>0, <1>3, <1>4, ShortPaired DEF PuntInv, PuntPaired
<1>6. PuntAfterQueue => PuntAfterQueue'
  BY <1>1 DEF PuntAfterQueue
<1>7. ~WillSendPunt(t)
  BY <1>2, LogIsDistinct DEF WillSendPunt
<1>8. \A u \in Threads : WillSendPunt(u) => WillSendPunt(u)'
  BY <1>0, <1>4, <1>7 DEF WillSendPunt
<1> QED
  BY <1>1, <1>5, <1>6, <1>8, PuntStep

LEMMA PuntSwitch ==
  ASSUME PuntInv, SendLoop \/ Environment
  PROVE  (PuntPaired /\ PuntRuleKept)'
<1>0. TypeInv /\ thread \in [Threads -> ThreadType] /\ flows \subseteq Rules
  BY DEF PuntInv, TypeInv, TypeOK
<1>1. CASE SendLoop
  <2>1. thread' = thread /\ registered' = registered
    BY <1>1 DEF SendLoop, threadVars, linkVars
  <2> QED
    BY <1>0, <1>1, <2>1, PuntSendLoop, PuntSame
<1>2. ASSUME NEW f \in Traffic, PacketIn(f)
      PROVE  (PuntPaired /\ PuntRuleKept)'
  <2>1. UNCHANGED <<thread, send_q, flows, registered>>
    BY <1>2 DEF PacketIn, threadVars, sendVars, linkVars
  <2>2. PuntAfterQueue => PuntAfterQueue'
    BY <2>1 DEF PuntAfterQueue
  <2> QED
    BY <2>1, <2>2, PuntSame
<1>3. ASSUME NEW g \in flows, FlowExpires(g)
      PROVE  (PuntPaired /\ PuntRuleKept)'
  <2>1. UNCHANGED <<thread, send_q, registered>> /\ flows' = flows \ {g} /\ g.timed
    BY <1>3 DEF FlowExpires, threadVars, sendVars, linkVars
  <2>2. g # PuntFlow
    BY <1>0, <2>1, PuntIsUnique
  <2>3. PuntAfterQueue => PuntAfterQueue'
    BY <2>1, <2>2 DEF PuntAfterQueue
  <2> QED
    BY <2>1, <2>3, PuntSame
<1>4. CASE Connect
  <2>1. UNCHANGED <<thread, send_q, flows, registered>>
    BY <1>4 DEF Connect, threadVars, sendVars
  <2>2. PuntAfterQueue => PuntAfterQueue'
    BY <2>1 DEF PuntAfterQueue
  <2> QED
    BY <2>1, <2>2, PuntSame
<1>5. CASE LoseConnection
  <2>1. registered' # "live"
    BY <1>5 DEF LoseConnection
  <2>2. \A u \in Threads : thread'[u].todo = thread[u].todo
    BY <1>0, <1>5 DEF LoseConnection, ThreadType
  <2>3. PuntPaired'
    BY <2>2 DEF PuntInv, PuntPaired, Paired, RemovesPunt
  <2> QED
    BY <2>1, <2>3 DEF PuntRuleKept
<1> QED
  BY <1>1, <1>2, <1>3, <1>4, <1>5 DEF Environment, Disconnect, SwitchCrash

LEMMA PuntHandleEvent ==
  ASSUME PuntInv, HandleEvent
  PROVE  (PuntPaired /\ PuntRuleKept)'
<1> DEFINE f == Head(events).frame
           live == Head(events).live
<1>0. /\ TypeInv /\ LOOP \in Threads
      /\ thread \in [Threads -> ThreadType] /\ HandlerOK(LOOP, thread[LOOP])
  BY ThreadFacts DEF PuntInv, TypeInv, TypeOK
<1>1. ASSUME NEW kind, TakeEvent(kind)
      PROVE  send_q' = send_q /\ flows' = flows /\ thread[LOOP].todo = <<>>
  BY <1>0, <1>1 DEF TakeEvent, Busy, HandlerOK, sendVars
<1>2. ASSUME NEW at, NEW todo, NEW arg, Start(LOOP, at, todo, live, arg), Paired(todo),
             TakeEvent("packet"), registered' = registered
      PROVE  (PuntPaired /\ PuntRuleKept)'
  <2> DEFINE th == [at |-> at, todo |-> todo, live |-> live, arg |-> arg,
                    attached |-> FALSE]
  <2>1. thread' = [thread EXCEPT ![LOOP] = th] /\ th.todo = todo
    BY <1>2 DEF Start
  <2> HIDE DEF th
  <2> QED
    BY <1>0, <1>1, <1>2, <2>1, PuntStart
<1>3. CASE IgnorePacket \/ DropPacket
  <2>1. TakeEvent("packet") /\ thread' = thread /\ registered' = registered
    BY <1>3 DEF IgnorePacket, DropPacket, threadVars, linkVars
  <2>2. PuntAfterQueue => PuntAfterQueue'
    BY <1>1, <2>1 DEF PuntAfterQueue
  <2> QED
    BY <2>1, <2>2, PuntSame
<1>4. CASE RateLimitPacket
  <2>1. TakeEvent("packet") /\ registered' = registered
        /\ Start(LOOP, "drop", <<Add(RateLimitFlow(f))>>, live, f)
    BY <1>4 DEF RateLimitPacket, linkVars
  <2> QED
    BY <1>2, <2>1, ShortPaired, RemoversOfPunt
<1>5. CASE DpiBlockPacket
  <2>1. TakeEvent("packet") /\ registered' = registered
        /\ Start(LOOP, "drop", <<Log>>, live, f)
    BY <1>5 DEF DpiBlockPacket, linkVars
  <2> QED
    BY <1>2, <2>1, ShortPaired, RemoversOfPunt
<1>6. CASE AllowPacket
  <2> DEFINE at == IF Learn(f)[f.eth_dst] # UNKNOWN /\ HasPorts(f) THEN "trust" ELSE "end"
  <2>1. TakeEvent("packet") /\ registered' = registered
        /\ Start(LOOP, at, <<PacketOut>>, live, f)
    BY <1>6 DEF AllowPacket, linkVars
  <2> HIDE DEF at
  <2> QED
    BY <1>2, <2>1, ShortPaired, RemoversOfPunt
<1>7. CASE ArpSpoofPacket
  <2>1. TakeEvent("packet") /\ registered' = registered
        /\ Start(LOOP, "drop", <<Add(ArpSpoofFlow(f))>>, live, f)
    BY <1>7 DEF ArpSpoofPacket, linkVars
  <2> QED
    BY <1>2, <2>1, ShortPaired, RemoversOfPunt
<1>8. CASE AllowArp
  <2> DEFINE port == Learn(f)[f.eth_dst]
             Todo(b) == IF port = UNKNOWN THEN <<PacketOut>>
                        ELSE IF b THEN <<Add(LearnedFlow(f, port))>>
                        ELSE <<Add(LearnedFlow(f, port)), PacketOut>>
  <2>1. PICK buffered \in Buffers : Start(LOOP, "end", Todo(buffered), live, f)
    BY <1>8 DEF AllowArp
  <2>2. TakeEvent("packet") /\ registered' = registered
    BY <1>8 DEF AllowArp, linkVars
  <2>3. Paired(Todo(buffered))
    BY ShortPaired, RemoversOfPunt
  <2> HIDE DEF Todo
  <2> QED
    BY <1>2, <2>1, <2>2, <2>3
<1>9. CASE SwitchHandshake
  <2> DEFINE todo == <<Add(MissFlow), Add(PuntFlow)>>
             th == [at |-> "end", todo |-> todo, live |-> live, arg |-> NoArg,
                    attached |-> FALSE]
  <2>1. /\ TakeEvent("features")
        /\ thread' = [thread EXCEPT ![LOOP] = th]
        /\ registered' = IF live THEN "live" ELSE "dead"
    BY <1>9 DEF SwitchHandshake, Start
  <2>2. PuntPaired'
    <3>1. \A u \in Threads : Paired(thread'[u].todo)
      BY <1>0, <2>1, ShortPaired DEF PuntInv, PuntPaired
    <3> QED
      BY <3>1 DEF PuntPaired, Paired, RemovesPunt
  <2>3. thread'[LOOP].todo = todo /\ thread'[LOOP].live = live
    BY <1>0, <2>1
  <2>4. live => WillSendPunt(LOOP)'
    <3>1. Len(todo) = 2 /\ todo[2] = Add(PuntFlow)
      OBVIOUS
    <3> HIDE DEF todo, live
    <3> QED
      BY <2>3, <3>1 DEF WillSendPunt
  <2> QED
    BY <1>0, <2>1, <2>2, <2>4 DEF PuntRuleKept
<1> QED
  BY <1>3, <1>4, <1>5, <1>6, <1>7, <1>8, <1>9 DEF HandleEvent

LEMMA PuntLoopContinues ==
  ASSUME PuntInv, LoopContinues
  PROVE  (PuntPaired /\ PuntRuleKept)'
<1>0. LOOP \in Threads /\ thread \in [Threads -> ThreadType]
  BY ThreadFacts DEF PuntInv, TypeInv, TypeOK
<1>1. thread[LOOP].todo = <<>> /\ UNCHANGED <<registered, send_q, flows>>
  BY DEF LoopContinues, LearnDropped, RecordTrust, MarkInstalled, Reached, sendVars, linkVars
<1>2. CASE Return(LOOP)
  <2>1. Paired(Idle.todo)
    BY ShortPaired DEF Idle
  <2> QED
    BY <1>0, <1>1, <1>2, <2>1, PuntStart DEF Return
<1>3. CASE RecordTrust /\ ~Return(LOOP)
  <2> DEFINE fl == TrustFlows(thread[LOOP].arg, mac_to_port[thread[LOOP].arg.eth_dst])
             th == [thread[LOOP] EXCEPT !.at = "installed",
                                        !.todo = <<Add(fl[1]), Add(fl[2]), Log>>,
                                        !.attached = TRUE]
  <2>1. thread' = [thread EXCEPT ![LOOP] = th]
    BY <1>0, <1>3 DEF RecordTrust
  <2>2. th.todo = <<Add(fl[1]), Add(fl[2]), Log>>
    BY <1>0 DEF ThreadType
  <2>3. Paired(th.todo)
    BY <2>2, ShortPaired, RemoversOfPunt
  <2> HIDE DEF th
  <2> QED
    BY <1>0, <1>1, <2>1, <2>3, PuntStart
<1> QED
  BY <1>2, <1>3 DEF LoopContinues, LearnDropped, MarkInstalled

LEMMA PuntRequest ==
  ASSUME PuntInv, NEW t \in RestThreads, Request(t)
  PROVE  (PuntPaired /\ PuntRuleKept)'
<1>0. /\ t \in Threads /\ thread \in [Threads -> ThreadType]
      /\ HandlerOK(t, thread[t])
  BY ThreadFacts DEF PuntInv, TypeInv, TypeOK
<1>1. PICK r \in Requests : \/ AddBlockedIp(t, r)   \/ DelBlockedIp(t, r)
                            \/ AddBlockedPort(t, r) \/ DelBlockedPort(t, r)
                            \/ AddDpiPattern(t, r)  \/ DelDpiPattern(t, r)
  BY DEF Request
<1>2. TakeRequest(t, r)
  BY <1>1 DEF AddBlockedIp, DelBlockedIp, AddBlockedPort, DelBlockedPort,
              AddDpiPattern, DelDpiPattern
<1>3. thread[t].todo = <<>> /\ UNCHANGED <<registered, send_q, flows>>
  BY <1>0, <1>2 DEF TakeRequest, Busy, HandlerOK, sendVars, linkVars
<1>4. ASSUME NEW at, NEW todo, NEW live, Start(t, at, todo, live, r), Paired(todo)
      PROVE  (PuntPaired /\ PuntRuleKept)'
  <2> DEFINE th == [at |-> at, todo |-> todo, live |-> live, arg |-> r, attached |-> FALSE]
  <2>1. thread' = [thread EXCEPT ![t] = th] /\ th.todo = todo
    BY <1>4 DEF Start
  <2> HIDE DEF th
  <2> QED
    BY <1>0, <1>3, <1>4, <2>1, PuntStart
<1>5. CASE AddBlockedIp(t, r) \/ AddBlockedPort(t, r)
  <2>1. Start(t, "flush_ip", <<Log>>, FALSE, r) \/ Start(t, "flush_port", <<Log>>, FALSE, r)
    BY <1>5 DEF AddBlockedIp, AddBlockedPort
  <2> QED
    BY <1>4, <2>1, ShortPaired, RemoversOfPunt
<1>6. CASE AddDpiPattern(t, r)
  <2> DEFINE todo == ToSwitch(<<Delete(AllIpv4), Add(PuntFlow)>>)
             live == registered = "live"
  <2>1. Start(t, "forget_all", todo, live, r)
    BY <1>6 DEF AddDpiPattern
  <2>2. Paired(todo)
    BY ShortPaired DEF ToSwitch
  <2> HIDE DEF todo, live
  <2> QED
    BY <1>4, <2>1, <2>2
<1>7. CASE DelBlockedIp(t, r) \/ DelBlockedPort(t, r) \/ DelDpiPattern(t, r)
  <2>1. thread' = thread
    BY <1>7 DEF DelBlockedIp, DelBlockedPort, DelDpiPattern, threadVars
  <2>2. PuntAfterQueue => PuntAfterQueue'
    BY <1>3 DEF PuntAfterQueue
  <2> QED
    BY <1>3, <2>1, <2>2, PuntSame
<1> QED
  BY <1>1, <1>5, <1>6, <1>7

LEMMA PuntRequestContinues ==
  ASSUME PuntInv, NEW t \in RestThreads, RequestContinues(t)
  PROVE  (PuntPaired /\ PuntRuleKept)'
<1> DEFINE r == thread[t].arg
           live == registered = "live"
<1>0. /\ t \in Threads /\ t # LOOP /\ LOOP \in Threads /\ TypeInv
      /\ thread \in [Threads -> ThreadType]
  BY ThreadFacts DEF PuntInv, TypeInv, TypeOK
<1>1. thread[t].todo = <<>> /\ UNCHANGED <<registered, send_q, flows>>
  BY DEF RequestContinues, FlushIp, FlushPort, ForgetIp, ForgetPort, ForgetAll, Forget,
         Reached, sendVars, linkVars
<1>2. ASSUME NEW at, NEW todo, Start(t, at, todo, live, r), Paired(todo)
      PROVE  (PuntPaired /\ PuntRuleKept)'
  <2> DEFINE th == [at |-> at, todo |-> todo, live |-> live, arg |-> r, attached |-> FALSE]
  <2>1. thread' = [thread EXCEPT ![t] = th] /\ th.todo = todo
    BY <1>2 DEF Start
  <2> HIDE DEF th
  <2> QED
    BY <1>0, <1>1, <1>2, <2>1, PuntStart
<1>3. CASE FlushIp(t)
  <2> DEFINE todo == ToSwitch(<<Delete(FromIp(r.ip)), Delete(ToIp(r.ip))>>)
  <2>1. Start(t, "forget_ip", todo, live, r)
    BY <1>3 DEF FlushIp
  <2>2. Paired(todo)
    BY ShortPaired, RemoversOfPunt DEF ToSwitch
  <2> HIDE DEF todo
  <2> QED
    BY <1>2, <2>1, <2>2
<1>4. CASE FlushPort(t)
  <2> DEFINE todo == ToSwitch(<<Delete(ToPort(r.port, r.proto))>>)
  <2>1. Start(t, "forget_port", todo, live, r)
    BY <1>4 DEF FlushPort
  <2>2. Paired(todo)
    BY ShortPaired, RemoversOfPunt DEF ToSwitch
  <2> HIDE DEF todo
  <2> QED
    BY <1>2, <2>1, <2>2
<1>5. ASSUME NEW S, Forget(t, S)
      PROVE  (PuntPaired /\ PuntRuleKept)'
  <2>1. thread' = [thread EXCEPT ![t] = Idle,
                                 ![LOOP].attached = @ /\ KeyOf(thread[LOOP].arg) \notin S]
    BY <1>5 DEF Forget
  <2>2. /\ thread'[t] = Idle
        /\ \A u \in Threads \ {t} : /\ thread'[u].todo = thread[u].todo
                                     /\ thread'[u].live = thread[u].live
    BY <1>0, <2>1 DEF ThreadType
  <2>3. \A u \in Threads : Paired(thread'[u].todo)
    BY <2>2, ShortPaired DEF PuntInv, PuntPaired, Idle
  <2>4. PuntAfterQueue => PuntAfterQueue'
    BY <1>1 DEF PuntAfterQueue
  <2>5. ~WillSendPunt(t)
    BY <1>1 DEF WillSendPunt
  <2>6. \A u \in Threads : WillSendPunt(u) => WillSendPunt(u)'
    BY <2>2, <2>5 DEF WillSendPunt
  <2> QED
    BY <1>1, <2>3, <2>4, <2>6, PuntStep
<1> QED
  BY <1>3, <1>4, <1>5 DEF RequestContinues, ForgetIp, ForgetPort, ForgetAll

(* Once a switch is registered, its punt rule is installed, queued or      *)
(* about to be sent: no interleaving of handshakes, flushes, full queues,  *)
(* lost connections and timeouts leaves the switch without it.             *)
THEOREM PuntNeverLost == Spec => []PuntRuleKept
<1>1. Init => PuntPaired /\ PuntRuleKept
  <2> SUFFICES ASSUME Init PROVE PuntPaired /\ PuntRuleKept
    OBVIOUS
  <2>1. \A t \in Threads : thread[t].todo = <<>>
    BY DEF Init, Idle
  <2> QED
    BY <2>1, ShortPaired DEF Init, PuntPaired, PuntRuleKept
<1>2. ASSUME TypeInv, LogsLast, PuntPaired, PuntRuleKept, [Next]_vars
      PROVE  PuntPaired' /\ PuntRuleKept'
  <2>0. PuntInv
    BY <1>2 DEF PuntInv
  <2>1. CASE Next
    BY <2>0, <2>1, PuntProceed, PuntClientActs, PuntSwitch, PuntHandleEvent,
       PuntLoopContinues, PuntRequest, PuntRequestContinues DEF Next
  <2>2. CASE UNCHANGED vars
    <3>1. UNCHANGED <<thread, send_q, flows, registered>>
      BY <2>2 DEF vars, threadVars, sendVars, linkVars
    <3>2. PuntAfterQueue => PuntAfterQueue'
      BY <3>1 DEF PuntAfterQueue
    <3> QED
      BY <2>0, <3>1, <3>2, PuntSame
  <2> QED
    BY <1>2, <2>1, <2>2
<1>3. TypeInv /\ LogsLast /\ PuntPaired /\ PuntRuleKept /\ [Next]_vars
        => (PuntPaired /\ PuntRuleKept)'
  BY <1>2
<1> QED
  BY <1>1, <1>3, TypeInvariant, LogAlwaysLast, PTL DEF Spec
=============================================================================
