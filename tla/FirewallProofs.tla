--------------------------- MODULE FirewallProofs ---------------------------
(***************************************************************************)
(* Proofs about Firewall, for every traffic, every set of requests and     *)
(* every bound that satisfies the assumptions of that module.              *)
(***************************************************************************)
EXTENDS FirewallProperties, SequenceTheorems, TLAPS

-----------------------------------------------------------------------------
(* Flow keys.                                                              *)

(* _trust_key is symmetric: both directions of a connection share one      *)
(* trust entry.                                                            *)
THEOREM TrustKeySymmetric ==
  ASSUME NEW proto, NEW a \in Int \X Int, NEW b \in Int \X Int
  PROVE  TrustKey(proto, a, b) = TrustKey(proto, b, a)
<1>1. a = <<a[1], a[2]>> /\ b = <<b[1], b[2]>>
  OBVIOUS
<1>2. AtMost(a, b) /\ AtMost(b, a) => a = b
  BY <1>1 DEF AtMost
<1>3. AtMost(a, b) \/ AtMost(b, a)
  BY DEF AtMost
<1> QED
  BY <1>2, <1>3 DEF TrustKey

(* _trust_key is injective up to direction: two connections never share an *)
(* entry.                                                                  *)
THEOREM TrustKeyInjective ==
  ASSUME NEW p, NEW a, NEW b, NEW q, NEW c, NEW d,
         TrustKey(p, a, b) = TrustKey(q, c, d)
  PROVE  p = q /\ ((a = c /\ b = d) \/ (a = d /\ b = c))
BY DEF TrustKey

LEMMA KeyInKeys ==
  ASSUME NEW f \in Traffic, HasPorts(f)
  PROVE  KeyOf(f) \in Keys
BY DEF Keys

-----------------------------------------------------------------------------
(* Sequences.                                                              *)

LEMMA TailType ==
  ASSUME NEW S, NEW s \in Seq(S), s # <<>>
  PROVE  /\ Head(s) \in S
         /\ Tail(s) \in Seq(S)
         /\ Len(Tail(s)) = Len(s) - 1
         /\ Len(s) \in Nat /\ Len(s) > 0
         /\ s[1] = Head(s)
         /\ \A i \in 1..Len(Tail(s)) : Tail(s)[i] = s[i + 1]
OBVIOUS

LEMMA AppendType ==
  ASSUME NEW S, NEW s \in Seq(S), NEW x \in S
  PROVE  /\ Append(s, x) \in Seq(S)
         /\ Len(Append(s, x)) = Len(s) + 1
         /\ Len(s) \in Nat
         /\ \A i \in 1..Len(s) : Append(s, x)[i] = s[i]
         /\ Append(s, x)[Len(s) + 1] = x
OBVIOUS

LEMMA ShortSeq ==
  ASSUME NEW S
  PROVE  /\ <<>> \in Seq(S)
         /\ \A x \in S : <<x>> \in Seq(S)
         /\ \A x, y \in S : <<x, y>> \in Seq(S)
         /\ \A x, y, z \in S : <<x, y, z>> \in Seq(S)
OBVIOUS

-----------------------------------------------------------------------------
(* The rules and messages that the handlers build.                         *)

LEMMA FrameFields ==
  ASSUME NEW f \in Traffic
  PROVE  /\ f \in Frame
         /\ f.in_port \in InPorts /\ f.in_port \in Nat \ {0}
         /\ f.eth_src \in Macs /\ f.eth_dst \in Macs
         /\ f.arp_spa \in Ips /\ f.arp_sha \in Int
         /\ f.payload \in Seq(Bytes)
<1>1. f \in Frame
  BY TrafficAssumption
<1> QED
  BY <1>1 DEF Frame, InPorts, Macs, Ips

\* The kinds of message.
LEMMA MessageKinds ==
  ASSUME NEW m \in FlowMessage
  PROVE  \/ \E g \in Rules : m = Add(g)
         \/ \E x : m = Delete(x)
         \/ m = PacketOut
BY DEF FlowMessage

LEMMA LogIsNoMessage == Log \notin FlowMessage
<1>1. Log.cmd = "log" /\ PacketOut.cmd = "out"
  BY DEF Log, PacketOut
<1>2. \A g : Add(g).cmd = "add"
  BY DEF Add
<1>3. \A x : Delete(x).cmd = "delete"
  BY DEF Delete
<1> QED
  BY <1>1, <1>2, <1>3, MessageKinds

LEMMA MessagesOK ==
  /\ Add(MissFlow) \in FlowMessage
  /\ Add(PuntFlow) \in FlowMessage
  /\ Delete(AllIpv4) \in FlowMessage
  /\ PacketOut \in FlowMessage
  /\ \A f \in Traffic : /\ Add(RateLimitFlow(f)) \in FlowMessage
                        /\ Add(ArpSpoofFlow(f)) \in FlowMessage
                        /\ \A p \in InPorts : Add(LearnedFlow(f, p)) \in FlowMessage
  /\ \A f \in Flows5 : \A p \in InPorts :
       /\ Add(TrustFlows(f, p)[1]) \in FlowMessage
       /\ Add(TrustFlows(f, p)[2]) \in FlowMessage
<1>1. /\ MissFlow \in Rules /\ PuntFlow \in Rules
      /\ \A f \in Traffic : RateLimitFlow(f) \in Rules /\ ArpSpoofFlow(f) \in Rules
      /\ \A f \in Traffic : \A p \in InPorts : LearnedFlow(f, p) \in Rules
  BY DEF Rules
<1>2. ASSUME NEW f \in Flows5, NEW p \in InPorts
      PROVE  TrustFlows(f, p)[1] \in Rules /\ TrustFlows(f, p)[2] \in Rules
  <2>1. f.in_port \in InPorts
    BY DEF Flows5, InPorts
  <2> QED
    BY <2>1 DEF Rules, TrustFlows
<1>3. \A g \in Rules : Add(g) \in FlowMessage
  BY DEF FlowMessage
<1>4. Delete(AllIpv4) \in FlowMessage /\ PacketOut \in FlowMessage
  BY DEF FlowMessage
<1> QED
  BY <1>1, <1>2, <1>3, <1>4

LEMMA RequestMessagesOK ==
  /\ \A r \in ReqOf("add_blocked_ip") :
       /\ Delete(FromIp(r.ip)) \in FlowMessage
       /\ Delete(ToIp(r.ip)) \in FlowMessage
  /\ \A r \in ReqOf("add_blocked_port") :
       Delete(ToPort(r.port, r.proto)) \in FlowMessage
BY DEF FlowMessage

LEMMA ApplyOK ==
  ASSUME NEW table \in SUBSET Rules, NEW m \in FlowMessage
  PROVE  Apply(table, m) \in SUBSET Rules
<1>1. CASE \E g \in Rules : m = Add(g)
  BY <1>1 DEF Apply, Add, AddFlow
<1>2. CASE m = PacketOut
  BY <1>2 DEF Apply, PacketOut
<1>3. CASE \E x : m = Delete(x)
  BY <1>3 DEF Apply, Delete, DeleteFlows
<1> QED
  BY <1>1, <1>2, <1>3, MessageKinds

LEMMA ExtendOK ==
  ASSUME NEW buf \in Seq(Bytes), NEW b \in Seq(Bytes),
         Len(buf) <= MAX_BUFFER_BYTES
  PROVE  /\ Extend(buf, b) \in Seq(Bytes)
         /\ Len(Extend(buf, b)) <= MAX_BUFFER_BYTES
<1> DEFINE room == MAX_BUFFER_BYTES - Len(buf)
<1>1. Len(buf) \in Nat /\ Len(b) \in Nat /\ MAX_BUFFER_BYTES \in Nat /\ room \in Int
  BY BoundsAssumption
<1>2. CASE room <= 0
  BY <1>1, <1>2 DEF Extend
<1>3. CASE room > 0 /\ Len(b) <= room
  BY <1>1, <1>3 DEF Extend
<1>4. CASE room > 0 /\ Len(b) > room
  <2>1. SubSeq(b, 1, room) \in Seq(Bytes) /\ Len(SubSeq(b, 1, room)) = room
    BY <1>1, <1>4
  <2> QED
    BY <1>1, <1>4, <2>1 DEF Extend
<1> QED
  BY <1>1, <1>2, <1>3, <1>4

-----------------------------------------------------------------------------
(* Type correctness.  TypeOK is inductive only together with WaitersOK: it *)
(* is WaitersOK that says that the thread which gets a slot has a message  *)
(* to put into it.                                                         *)

\* A thread waits at most once for a slot of the send queue, with a message to
\* send on a connection that is alive, and does not run meanwhile.
WaitersOK ==
  /\ \A i \in 1..Len(waiters) :
       LET th == thread[waiters[i]] IN
       /\ cpu # waiters[i]
       /\ th.at # "idle"
       /\ th.live
       /\ th.todo # <<>>
       /\ Head(th.todo) # Log
  /\ \A i, j \in 1..Len(waiters) : i # j => waiters[i] # waiters[j]

TypeInv == TypeOK /\ WaitersOK

LEMMA ThreadFacts ==
  /\ LOOP \in Threads
  /\ NoThread \notin Threads
  /\ \A t \in RestThreads : t \in Threads /\ t # LOOP
BY ThreadsAssumption DEF Threads

LEMMA IdleOK ==
  /\ Idle \in ThreadType
  /\ \A t : HandlerOK(t, Idle)
<1>1. Idle \in ThreadType
  BY ShortSeq DEF Idle, ThreadType, LoopLabels
<1> QED
  BY <1>1 DEF Idle, HandlerOK, LoopLabels, RestLabels

\* A step of one thread that runs, or of one that starts.
LEMMA StepOfThread ==
  ASSUME TypeInv, NEW t \in Threads, NEW th \in ThreadType,
         cpu = t \/ (cpu = NoThread /\ (thread[t].at = "idle" \/ AtLog(t))),
         thread' = [thread EXCEPT ![t] = th],
         HandlerOK(t, th),
         cpu' \in {t, NoThread},
         waiters' = waiters
  PROVE  /\ thread' \in [Threads -> ThreadType]
         /\ \A u \in Threads : HandlerOK(u, thread'[u])
         /\ cpu' \in Threads \cup {NoThread}
         /\ WaitersOK'
<1>1. thread \in [Threads -> ThreadType] /\ \A u \in Threads : HandlerOK(u, thread[u])
  BY DEF TypeInv, TypeOK
<1>2. thread' \in [Threads -> ThreadType]
  BY <1>1
<1>3. \A u \in Threads : HandlerOK(u, thread'[u])
  BY <1>1
<1>4. waiters \in Seq(Threads) /\ WaitersOK
  BY DEF TypeInv, TypeOK
<1>5. ASSUME NEW i \in 1..Len(waiters)
      PROVE  /\ waiters[i] \in Threads
             /\ waiters[i] # t
             /\ thread'[waiters[i]] = thread[waiters[i]]
             /\ cpu' # waiters[i]
  <2>1. waiters[i] \in Threads
    BY <1>4
  <2>2. waiters[i] # t
    BY <1>4, ThreadFacts DEF WaitersOK, AtLog
  <2> QED
    BY <1>1, <2>1, <2>2, ThreadFacts
<1>6. WaitersOK'
  BY <1>4, <1>5 DEF WaitersOK
<1> QED
  BY <1>2, <1>3, <1>6

LEMMA StartOK ==
  ASSUME TypeInv, NEW t \in Threads, NEW at, NEW todo, NEW live, NEW arg,
         cpu = t \/ (cpu = NoThread /\ thread[t].at = "idle"),
         Start(t, at, todo, live, arg),
         at \in LoopLabels \cup RestLabels,
         todo \in Seq(FlowMessage \cup {Log}),
         live \in BOOLEAN,
         arg \in Traffic \cup Requests \cup {NoArg},
         HandlerOK(t, [at |-> at, todo |-> todo, live |-> live, arg |-> arg,
                       attached |-> FALSE]),
         waiters' = waiters
  PROVE  /\ thread' \in [Threads -> ThreadType]
         /\ \A u \in Threads : HandlerOK(u, thread'[u])
         /\ cpu' \in Threads \cup {NoThread}
         /\ WaitersOK'
<1> DEFINE th == [at |-> at, todo |-> todo, live |-> live, arg |-> arg,
                  attached |-> FALSE]
<1>1. th \in ThreadType
  BY DEF ThreadType
<1>2. thread' = [thread EXCEPT ![t] = th] /\ cpu' = t
  BY DEF Start
<1> QED
  BY <1>1, <1>2, StepOfThread

LEMMA ReturnOK ==
  ASSUME TypeInv, NEW t \in Threads, cpu = t \/ (cpu = NoThread /\ AtLog(t)),
         Return(t), waiters' = waiters
  PROVE  /\ thread' \in [Threads -> ThreadType]
         /\ \A u \in Threads : HandlerOK(u, thread'[u])
         /\ cpu' \in Threads \cup {NoThread}
         /\ WaitersOK'
BY StepOfThread, IdleOK DEF Return

\* A thread drops the head of what it has to send.
LEMMA PopOK ==
  ASSUME TypeInv, NEW t \in Threads, thread[t].todo # <<>>
  PROVE  /\ [thread[t] EXCEPT !.todo = Tail(@)] \in ThreadType
         /\ HandlerOK(t, [thread[t] EXCEPT !.todo = Tail(@)])
         /\ Head(thread[t].todo) \in FlowMessage \cup {Log}
<1>1. thread[t] \in ThreadType /\ HandlerOK(t, thread[t])
  BY DEF TypeInv, TypeOK
<1>2. thread[t].todo \in Seq(FlowMessage \cup {Log})
  BY <1>1 DEF ThreadType
<1>3. /\ Tail(thread[t].todo) \in Seq(FlowMessage \cup {Log})
      /\ Head(thread[t].todo) \in FlowMessage \cup {Log}
  BY <1>2, TailType
<1>4. [thread[t] EXCEPT !.todo = Tail(@)] \in ThreadType
  BY <1>1, <1>3 DEF ThreadType
<1>5. HandlerOK(t, [thread[t] EXCEPT !.todo = Tail(@)])
  BY <1>1 DEF HandlerOK, ThreadType
<1> QED
  BY <1>3, <1>4, <1>5

\* The part of TypeOK that is about the trust table.
TableOK(table) ==
  /\ table \in [Keys -> Entry]
  /\ \A k \in Keys : /\ Len(table[k].buf_a) <= MAX_BUFFER_BYTES
                     /\ Len(table[k].buf_b) <= MAX_BUFFER_BYTES

LEMMA FreshOK == FreshEntry \in Entry /\ Len(FreshEntry.buf_a) <= MAX_BUFFER_BYTES
                   /\ Len(FreshEntry.buf_b) <= MAX_BUFFER_BYTES
BY BoundsAssumption, ShortSeq DEF FreshEntry, Entry

LEMMA InspectedOK ==
  ASSUME TableOK(trust_table), NEW f \in Traffic
  PROVE  TableOK(Inspected(f))
<1>1. CASE ~IsTcp(f) \/ f.payload = <<>>
  BY <1>1 DEF Inspected
<1>2. CASE IsTcp(f) /\ f.payload # <<>>
  <2> DEFINE k == KeyOf(f)
             e == trust_table[k]
             buf == Extend(Buffer(f), f.payload)
  <2>1. k \in Keys
    BY <1>2, KeyInKeys DEF IsTcp, HasPorts
  <2>2. e \in Entry /\ Len(e.buf_a) <= MAX_BUFFER_BYTES /\ Len(e.buf_b) <= MAX_BUFFER_BYTES
    BY <2>1 DEF TableOK
  <2>3. Buffer(f) \in Seq(Bytes) /\ Len(Buffer(f)) <= MAX_BUFFER_BYTES
    BY <2>2 DEF Buffer, Entry
  <2>4. buf \in Seq(Bytes) /\ Len(buf) <= MAX_BUFFER_BYTES
    BY <2>3, FrameFields, ExtendOK
  <2>5. (e.blocked \/ Inspect(buf)) \in BOOLEAN
    BY DEF Inspect
  <2> DEFINE a == [e EXCEPT !.buf_a = buf, !.blocked = @ \/ Inspect(buf)]
             b == [e EXCEPT !.buf_b = buf, !.blocked = @ \/ Inspect(buf)]
  <2>6. /\ a \in Entry /\ Len(a.buf_a) <= MAX_BUFFER_BYTES /\ Len(a.buf_b) <= MAX_BUFFER_BYTES
        /\ b \in Entry /\ Len(b.buf_a) <= MAX_BUFFER_BYTES /\ Len(b.buf_b) <= MAX_BUFFER_BYTES
    BY <2>2, <2>4, <2>5 DEF Entry
  <2>7. Inspected(f) = [trust_table EXCEPT ![k] = IF FromA(f) THEN a ELSE b]
    BY <1>2 DEF Inspected
  <2> HIDE DEF a, b
  <2> QED
    BY <2>1, <2>6, <2>7 DEF TableOK
<1> QED
  BY <1>1, <1>2

LEMMA LearnOK ==
  ASSUME TypeInv, NEW f \in Traffic
  PROVE  Learn(f) \in [Macs -> InPorts \cup {UNKNOWN}]
BY FrameFields DEF TypeInv, TypeOK, Learn

\* The event that is taken.
LEMMA HeadEvent ==
  ASSUME TypeInv, NEW kind, TakeEvent(kind)
  PROVE  /\ Head(events) \in EventType
         /\ Head(events).kind = kind
         /\ Head(events).live \in BOOLEAN
         /\ kind = "packet" => Head(events).frame \in Traffic
         /\ events' \in Seq(EventType) /\ Len(events') <= EventCap
         /\ cpu = NoThread /\ thread[LOOP].at = "idle"
         /\ blocked_ips' = blocked_ips /\ blocked_ports' = blocked_ports
         /\ patterns' = patterns /\ send_q' = send_q /\ waiters' = waiters
         /\ flows' = flows
<1>1. events \in Seq(EventType) /\ events # <<>> /\ Len(events) <= EventCap
  BY DEF TypeInv, TypeOK, TakeEvent
<1>2. Head(events) \in EventType /\ events' \in Seq(EventType) /\ Len(events') <= EventCap
  BY <1>1, TailType, BoundsAssumption DEF TakeEvent
<1> QED
  BY <1>2 DEF TakeEvent, EventType, Busy, ruleVars, sendVars

-----------------------------------------------------------------------------
(* TypeInv is preserved by every action.                                   *)

LEMMA TypeProceed ==
  ASSUME TypeInv, NEW t \in Threads, Proceed(t)
  PROVE  TypeInv'
<1> USE DEF TypeInv, ruleVars, tableVars, sendVars, linkVars
<1> DEFINE th == [thread[t] EXCEPT !.todo = Tail(@)]
<1>0. thread \in [Threads -> ThreadType] /\ HandlerOK(t, thread[t])
  BY DEF TypeOK
<1>1. CASE SendDiscard(t)
  <2>1. thread' = [thread EXCEPT ![t] = th] /\ cpu' = cpu /\ waiters' = waiters
        /\ thread[t].todo # <<>> /\ cpu = t
    BY <1>0, <1>1 DEF SendDiscard
  <2> HIDE DEF th
  <2> QED
    BY <1>1, <2>1, PopOK, StepOfThread DEF SendDiscard, TypeOK, th
<1>2. CASE SendNow(t)
  <2>1. thread' = [thread EXCEPT ![t] = th] /\ cpu' = cpu /\ waiters' = waiters
        /\ thread[t].todo # <<>> /\ cpu = t /\ Head(thread[t].todo) # Log
        /\ Len(send_q) < SendCap /\ send_q' = Append(send_q, Head(thread[t].todo))
    BY <1>0, <1>2 DEF SendNow, SlotFree
  <2>2. Head(thread[t].todo) \in FlowMessage
    BY <2>1, PopOK
  <2>3. send_q' \in Seq(FlowMessage) /\ Len(send_q') <= SendCap
    BY <2>1, <2>2, AppendType, BoundsAssumption DEF TypeOK
  <2> HIDE DEF th
  <2> QED
    BY <1>2, <2>1, <2>3, PopOK, StepOfThread DEF SendNow, TypeOK, th
<1>3. CASE SendBlock(t)
  <2>1. waiters' = Append(waiters, t) /\ cpu = t /\ cpu' = NoThread /\ thread' = thread
        /\ thread[t].todo # <<>> /\ Head(thread[t].todo) # Log /\ thread[t].live
    BY <1>3 DEF SendBlock
  <2>2. waiters \in Seq(Threads) /\ WaitersOK
    BY DEF TypeOK
  <2>3. waiters' \in Seq(Threads) /\ Len(waiters') = Len(waiters) + 1 /\ Len(waiters) \in Nat
        /\ (\A i \in 1..Len(waiters) : waiters'[i] = waiters[i])
        /\ waiters'[Len(waiters) + 1] = t
    BY <2>1, <2>2, AppendType
  <2>4. thread[t].at # "idle"
    BY <1>0, <2>1 DEF HandlerOK
  <2>5. \A i \in 1..Len(waiters) : waiters[i] # t
    BY <2>1, <2>2 DEF WaitersOK
  <2>6. WaitersOK'
    <3>1. ASSUME NEW i \in 1..Len(waiters')
          PROVE  /\ waiters'[i] \in Threads
                 /\ thread[waiters'[i]].at # "idle"
                 /\ thread[waiters'[i]].live
                 /\ thread[waiters'[i]].todo # <<>>
                 /\ Head(thread[waiters'[i]].todo) # Log
      BY <2>1, <2>2, <2>3, <2>4 DEF WaitersOK
    <3>2. ASSUME NEW i \in 1..Len(waiters'), NEW j \in 1..Len(waiters'), i # j
          PROVE  waiters'[i] # waiters'[j]
      BY <3>2, <2>2, <2>3, <2>5 DEF WaitersOK
    <3> QED
      BY <3>1, <3>2, <2>1, ThreadFacts DEF WaitersOK
  <2> QED
    BY <1>3, <2>1, <2>3, <2>6 DEF SendBlock, TypeOK
<1>4. CASE SendResume(t)
  <2>1. waiters # <<>> /\ t = Head(waiters) /\ waiters' = Tail(waiters)
        /\ cpu = NoThread /\ cpu' = t /\ thread' = [thread EXCEPT ![t] = th]
        /\ Len(send_q) < SendCap /\ send_q' = Append(send_q, Head(thread[t].todo))
    BY <1>0, <1>4 DEF SendResume
  <2>2. waiters \in Seq(Threads) /\ WaitersOK
    BY DEF TypeOK
  <2>3. /\ waiters' \in Seq(Threads) /\ Len(waiters') = Len(waiters) - 1
        /\ Len(waiters) \in Nat /\ Len(waiters) > 0 /\ waiters[1] = t
        /\ \A i \in 1..Len(waiters') : waiters'[i] = waiters[i + 1]
    BY <2>1, <2>2, TailType
  <2>4. thread[t].todo # <<>> /\ Head(thread[t].todo) # Log
    BY <2>2, <2>3 DEF WaitersOK
  <2>5. send_q' \in Seq(FlowMessage) /\ Len(send_q') <= SendCap
    <3>1. Head(thread[t].todo) \in FlowMessage
      BY <2>4, PopOK
    <3> QED
      BY <2>1, <3>1, AppendType, BoundsAssumption DEF TypeOK
  <2>6. th \in ThreadType /\ HandlerOK(t, th)
    BY <2>4, PopOK
  <2> HIDE DEF th
  <2>7. thread' \in [Threads -> ThreadType] /\ \A u \in Threads : HandlerOK(u, thread'[u])
    BY <1>0, <2>1, <2>6 DEF TypeOK
  <2>8. WaitersOK'
    <3>1. ASSUME NEW i \in 1..Len(waiters')
          PROVE  /\ i + 1 \in 1..Len(waiters)
                 /\ waiters'[i] = waiters[i + 1]
                 /\ waiters'[i] \in Threads
                 /\ waiters'[i] # t
                 /\ thread'[waiters'[i]] = thread[waiters'[i]]
      <4>1. i + 1 \in 1..Len(waiters) /\ waiters'[i] = waiters[i + 1] /\ i + 1 # 1
        BY <2>3
      <4>2. waiters[i + 1] \in Threads
        BY <4>1, <2>2
      <4>3. waiters[i + 1] # waiters[1]
        BY <4>1, <2>2, <2>3 DEF WaitersOK
      <4> QED
        BY <4>1, <4>2, <4>3, <2>1, <2>3, <1>0
    <3>2. ASSUME NEW i \in 1..Len(waiters'), NEW j \in 1..Len(waiters'), i # j
          PROVE  waiters'[i] # waiters'[j]
      BY <3>1, <3>2, <2>2 DEF WaitersOK
    <3> QED
      BY <3>1, <3>2, <2>1, <2>2 DEF WaitersOK
  <2> QED
    BY <1>4, <2>1, <2>3, <2>5, <2>7, <2>8 DEF SendResume, TypeOK
<1>5. CASE LogEvent(t)
  <2>1. thread' = [thread EXCEPT ![t] = th] /\ cpu' = cpu /\ waiters' = waiters
        /\ thread[t].todo # <<>> /\ cpu = t
    BY <1>0, <1>5 DEF LogEvent, AtLog
  <2> HIDE DEF th
  <2> QED
    BY <1>5, <2>1, PopOK, StepOfThread DEF LogEvent, TypeOK, th
<1>6. CASE LogWaits(t) \/ WakeUp(t)
  <2>1. CASE LogWaits(t)
    <3>1. WaitersOK'
      <4>1. waiters \in Seq(Threads) /\ waiters' = waiters /\ thread' = thread
            /\ cpu' = NoThread
        BY <2>1 DEF LogWaits, TypeOK
      <4>2. \A i \in 1..Len(waiters) : waiters[i] # NoThread
        BY <4>1, ThreadFacts
      <4> QED
        BY <4>1, <4>2 DEF WaitersOK
    <3> QED
      BY <2>1, <3>1 DEF LogWaits, TypeOK
  <2>2. CASE WakeUp(t)
    BY <2>2 DEF WakeUp, TypeOK, WaitersOK
  <2> QED
    BY <1>6, <2>1, <2>2
<1>7. CASE HandlerEnds(t)
  BY <1>7, ReturnOK DEF HandlerEnds, Reached, TypeOK
<1> QED
  BY <1>1, <1>2, <1>3, <1>4, <1>5, <1>6, <1>7 DEF Proceed

LEMMA TypeClientActs ==
  ASSUME TypeInv, NEW t \in Threads, ClientActs(t)
  PROVE  TypeInv'
<1> USE DEF TypeInv, ruleVars, tableVars, sendVars, linkVars
<1>0. thread \in [Threads -> ThreadType] /\ HandlerOK(t, thread[t])
  BY DEF TypeOK
<1>1. CASE LogResumes(t)
  <2> DEFINE th == [thread[t] EXCEPT !.todo = Tail(@)]
  <2>1. thread' = [thread EXCEPT ![t] = th] /\ cpu' = t /\ waiters' = waiters
        /\ AtLog(t) /\ thread[t].todo # <<>> /\ cpu = NoThread
    BY <1>0, <1>1 DEF LogResumes, AtLog
  <2> HIDE DEF th
  <2> QED
    BY <1>1, <2>1, PopOK, StepOfThread DEF LogResumes, TypeOK, th
<1>2. CASE LogRaises(t)
  <2> DEFINE k == KeyOf(thread[t].arg)
  <2>1. Return(t) /\ AtLog(t) /\ cpu \in {t, NoThread} /\ waiters' = waiters
    BY <1>2 DEF LogRaises
  <2>2. TableOK(trust_table)
    BY DEF TypeOK, TableOK
  <2>3. TableOK(trust_table')
    <3>1. CASE thread[t].at = "installed"
      <4>1. thread[t].arg \in Flows5
        BY <1>0, <3>1 DEF HandlerOK
      <4>2. k \in Keys
        BY <4>1, KeyInKeys DEF Flows5
      <4> HIDE DEF k
      <4>3. trust_table[k].aborted + 1 \in Nat
        BY <2>2, <4>2 DEF TableOK, Entry
      <4>4. [trust_table[k] EXCEPT !.aborted = @ + 1] \in Entry
        BY <2>2, <4>2, <4>3 DEF TableOK, Entry
      <4>5. \/ trust_table' = trust_table
            \/ trust_table' = [trust_table EXCEPT ![k].aborted = @ + 1]
        BY <1>2 DEF LogRaises, k
      <4> QED
        BY <2>2, <4>2, <4>4, <4>5 DEF TableOK, Entry
    <3>2. CASE thread[t].at # "installed"
      BY <1>2, <2>2, <3>2 DEF LogRaises
    <3> QED
      BY <3>1, <3>2
  <2>4. /\ thread' \in [Threads -> ThreadType]
        /\ \A u \in Threads : HandlerOK(u, thread'[u])
        /\ cpu' \in Threads \cup {NoThread}
        /\ WaitersOK'
    BY <2>1, ReturnOK
  <2> QED
    BY <1>2, <2>3, <2>4 DEF LogRaises, TypeOK, TableOK
<1> QED
  BY <1>1, <1>2 DEF ClientActs

LEMMA TypeSwitch ==
  ASSUME TypeInv, SendLoop \/ Environment
  PROVE  TypeInv'
<1> USE DEF TypeInv, ruleVars, tableVars, threadVars, sendVars, linkVars
<1>1. CASE SendLoop
  <2>1. send_q \in Seq(FlowMessage) /\ send_q # <<>> /\ flows \in SUBSET Rules
        /\ Len(send_q) <= SendCap
    BY <1>1 DEF SendLoop, TypeOK
  <2>2. Head(send_q) \in FlowMessage /\ Tail(send_q) \in Seq(FlowMessage)
        /\ Len(Tail(send_q)) <= SendCap
    BY <2>1, TailType, BoundsAssumption
  <2>3. flows' \in SUBSET Rules
    BY <1>1, <2>1, <2>2, ApplyOK DEF SendLoop
  <2> QED
    BY <1>1, <2>2, <2>3 DEF SendLoop, TypeOK, WaitersOK
<1>2. ASSUME NEW f \in Traffic, PacketIn(f)
      PROVE  TypeInv'
  <2>1. [kind |-> "packet", frame |-> f, live |-> TRUE] \in EventType
    BY DEF EventType
  <2>2. events' \in Seq(EventType) /\ Len(events') <= EventCap
    BY <1>2, <2>1, AppendType, BoundsAssumption DEF PacketIn, TypeOK
  <2> QED
    BY <1>2, <2>2 DEF PacketIn, TypeOK, WaitersOK
<1>3. ASSUME NEW g \in flows, FlowExpires(g)
      PROVE  TypeInv'
  BY <1>3 DEF FlowExpires, TypeOK, WaitersOK
<1>4. CASE Connect
  <2>1. [kind |-> "features", frame |-> NoArg, live |-> TRUE] \in EventType
    BY DEF EventType
  <2>2. events' \in Seq(EventType) /\ Len(events') <= EventCap
    BY <1>4, <2>1, AppendType, BoundsAssumption DEF Connect, TypeOK
  <2> QED
    BY <1>4, <2>2 DEF Connect, TypeOK, WaitersOK
<1>5. ASSUME LoseConnection, flows' \in SUBSET Rules
      PROVE  TypeInv'
  <2>1. thread \in [Threads -> ThreadType] /\ events \in Seq(EventType)
    BY DEF TypeOK
  <2>2. ASSUME NEW t \in Threads
        PROVE  /\ thread'[t] = [thread[t] EXCEPT !.live = FALSE]
               /\ thread'[t] \in ThreadType
               /\ HandlerOK(t, thread'[t])
    <3>1. thread'[t] = [thread[t] EXCEPT !.live = FALSE] /\ thread[t] \in ThreadType
      BY <1>5, <2>1 DEF LoseConnection
    <3>2. HandlerOK(t, thread[t])
      BY DEF TypeOK
    <3> QED
      BY <3>1, <3>2 DEF HandlerOK, ThreadType
  <2>3. thread' \in [Threads -> ThreadType]
    BY <1>5, <2>1, <2>2 DEF LoseConnection
  <2>4. ASSUME NEW e \in EventType
        PROVE  [e EXCEPT !.live = FALSE] \in EventType
    BY DEF EventType
  <2>5. events' \in Seq(EventType) /\ Len(events') = Len(events)
    BY <1>5, <2>1, <2>4 DEF LoseConnection
  <2>6. waiters' = <<>> /\ send_q' = <<>>
    BY <1>5 DEF LoseConnection
  <2>7. WaitersOK' /\ waiters' \in Seq(Threads) /\ send_q' \in Seq(FlowMessage)
        /\ Len(send_q') <= SendCap
    BY <2>6, BoundsAssumption DEF WaitersOK
  <2> QED
    BY <1>5, <2>2, <2>3, <2>5, <2>7 DEF LoseConnection, TypeOK
<1> QED
  BY <1>1, <1>2, <1>3, <1>4, <1>5 DEF Environment, Disconnect, SwitchCrash, TypeOK

LEMMA TypeHandleEvent ==
  ASSUME TypeInv, HandleEvent
  PROVE  TypeInv'
<1> USE DEF TypeInv, ruleVars, tableVars, threadVars, sendVars, linkVars
<1> DEFINE f == Head(events).frame
           live == Head(events).live
<1>0. TableOK(trust_table) /\ LOOP \in Threads
  BY ThreadFacts DEF TypeOK, TableOK
<1>1. CASE IgnorePacket
  BY <1>1, HeadEvent DEF IgnorePacket, TypeOK, WaitersOK
<1>2. CASE DropPacket
  <2>1. TakeEvent("packet")
    BY <1>2 DEF DropPacket
  <2>2. mac_to_port' \in [Macs -> InPorts \cup {UNKNOWN}]
    BY <1>2, <2>1, HeadEvent, LearnOK DEF DropPacket
  <2> QED
    BY <1>2, <2>1, <2>2, HeadEvent DEF DropPacket, TypeOK, WaitersOK
<1>3. CASE RateLimitPacket
  <2>1. TakeEvent("packet") /\ Start(LOOP, "drop", <<Add(RateLimitFlow(f))>>, live, f)
    BY <1>3 DEF RateLimitPacket
  <2>2. f \in Traffic /\ live \in BOOLEAN /\ cpu = NoThread /\ thread[LOOP].at = "idle"
        /\ waiters' = waiters
    BY <2>1, HeadEvent
  <2>3. <<Add(RateLimitFlow(f))>> \in Seq(FlowMessage \cup {Log})
    BY <2>2, MessagesOK, ShortSeq
  <2> HIDE DEF f, live
  <2>4. HandlerOK(LOOP, [at |-> "drop", todo |-> <<Add(RateLimitFlow(f))>>,
                         live |-> live, arg |-> f, attached |-> FALSE])
    BY <2>2 DEF HandlerOK, LoopLabels
  <2>5. /\ thread' \in [Threads -> ThreadType]
        /\ \A u \in Threads : HandlerOK(u, thread'[u])
        /\ cpu' \in Threads \cup {NoThread}
        /\ WaitersOK'
    BY <1>0, <2>1, <2>2, <2>3, <2>4, StartOK DEF LoopLabels
  <2> QED
    BY <1>3, <2>1, <2>5, HeadEvent DEF RateLimitPacket, TypeOK
<1>4. CASE DpiBlockPacket
  <2>1. TakeEvent("packet") /\ Start(LOOP, "drop", <<Log>>, live, f)
    BY <1>4 DEF DpiBlockPacket
  <2>2. f \in Traffic /\ live \in BOOLEAN /\ cpu = NoThread /\ thread[LOOP].at = "idle"
        /\ waiters' = waiters
    BY <2>1, HeadEvent
  <2>3. <<Log>> \in Seq(FlowMessage \cup {Log})
    BY ShortSeq
  <2>4. TableOK(trust_table')
    BY <1>0, <1>4, <2>2, InspectedOK DEF DpiBlockPacket
  <2> HIDE DEF f, live
  <2>5. HandlerOK(LOOP, [at |-> "drop", todo |-> <<Log>>,
                         live |-> live, arg |-> f, attached |-> FALSE])
    BY <2>2 DEF HandlerOK, LoopLabels
  <2>6. /\ thread' \in [Threads -> ThreadType]
        /\ \A u \in Threads : HandlerOK(u, thread'[u])
        /\ cpu' \in Threads \cup {NoThread}
        /\ WaitersOK'
    BY <1>0, <2>1, <2>2, <2>3, <2>5, StartOK DEF LoopLabels
  <2> QED
    BY <1>4, <2>1, <2>4, <2>6, HeadEvent DEF DpiBlockPacket, TypeOK, TableOK
<1>5. CASE AllowPacket
  <2> DEFINE at == IF Learn(f)[f.eth_dst] # UNKNOWN /\ HasPorts(f) THEN "trust" ELSE "end"
  <2>1. TakeEvent("packet") /\ Start(LOOP, at, <<PacketOut>>, live, f)
    BY <1>5 DEF AllowPacket
  <2>2. f \in Traffic /\ live \in BOOLEAN /\ cpu = NoThread /\ thread[LOOP].at = "idle"
        /\ waiters' = waiters
    BY <2>1, HeadEvent
  <2>3. <<PacketOut>> \in Seq(FlowMessage \cup {Log})
    BY MessagesOK, ShortSeq
  <2>4. TableOK(trust_table')
    BY <1>0, <1>5, <2>2, InspectedOK DEF AllowPacket
  <2>5. mac_to_port' \in [Macs -> InPorts \cup {UNKNOWN}]
    BY <1>5, <2>2, LearnOK DEF AllowPacket
  <2>6. at \in {"trust", "end"} /\ (at = "trust" => f \in Flows5)
    BY <2>2 DEF Flows5
  <2> HIDE DEF f, live, at
  <2>7. HandlerOK(LOOP, [at |-> at, todo |-> <<PacketOut>>,
                         live |-> live, arg |-> f, attached |-> FALSE])
    BY <2>2, <2>6 DEF HandlerOK, LoopLabels
  <2>8. /\ thread' \in [Threads -> ThreadType]
        /\ \A u \in Threads : HandlerOK(u, thread'[u])
        /\ cpu' \in Threads \cup {NoThread}
        /\ WaitersOK'
    BY <1>0, <2>1, <2>2, <2>3, <2>6, <2>7, StartOK DEF LoopLabels
  <2> QED
    BY <1>5, <2>1, <2>4, <2>5, <2>8, HeadEvent DEF AllowPacket, TypeOK, TableOK
<1>6. CASE ArpSpoofPacket
  <2>1. TakeEvent("packet") /\ Start(LOOP, "drop", <<Add(ArpSpoofFlow(f))>>, live, f)
    BY <1>6 DEF ArpSpoofPacket
  <2>2. f \in Traffic /\ live \in BOOLEAN /\ cpu = NoThread /\ thread[LOOP].at = "idle"
        /\ waiters' = waiters
    BY <2>1, HeadEvent
  <2>3. <<Add(ArpSpoofFlow(f))>> \in Seq(FlowMessage \cup {Log})
    BY <2>2, MessagesOK, ShortSeq
  <2> HIDE DEF f, live
  <2>4. HandlerOK(LOOP, [at |-> "drop", todo |-> <<Add(ArpSpoofFlow(f))>>,
                         live |-> live, arg |-> f, attached |-> FALSE])
    BY <2>2 DEF HandlerOK, LoopLabels
  <2>5. /\ thread' \in [Threads -> ThreadType]
        /\ \A u \in Threads : HandlerOK(u, thread'[u])
        /\ cpu' \in Threads \cup {NoThread}
        /\ WaitersOK'
    BY <1>0, <2>1, <2>2, <2>3, <2>4, StartOK DEF LoopLabels
  <2> QED
    BY <1>6, <2>1, <2>5, HeadEvent DEF ArpSpoofPacket, TypeOK
<1>7. CASE AllowArp
  <2> DEFINE port == Learn(f)[f.eth_dst]
             Todo(b) == IF port = UNKNOWN THEN <<PacketOut>>
                        ELSE IF b THEN <<Add(LearnedFlow(f, port))>>
                        ELSE <<Add(LearnedFlow(f, port)), PacketOut>>
  <2>1. PICK buffered \in Buffers : Start(LOOP, "end", Todo(buffered), live, f)
    BY <1>7 DEF AllowArp
  <2>2. f \in Traffic /\ live \in BOOLEAN /\ cpu = NoThread /\ thread[LOOP].at = "idle"
        /\ waiters' = waiters /\ TakeEvent("packet")
    BY <1>7, HeadEvent DEF AllowArp
  <2>3. port \in InPorts \cup {UNKNOWN} /\ mac_to_port' \in [Macs -> InPorts \cup {UNKNOWN}]
    BY <1>7, <2>2, LearnOK, FrameFields DEF AllowArp
  <2>4. arp_table' \in [Ips -> Int]
    BY <1>7, <2>2, FrameFields DEF AllowArp, TypeOK
  <2>5. Todo(buffered) \in Seq(FlowMessage \cup {Log})
    <3>1. CASE port = UNKNOWN
      BY <3>1, MessagesOK, ShortSeq
    <3>2. CASE port # UNKNOWN
      <4>1. Add(LearnedFlow(f, port)) \in FlowMessage /\ PacketOut \in FlowMessage
        BY <3>2, <2>2, <2>3, MessagesOK
      <4> HIDE DEF f, port
      <4> QED
        BY <3>2, <4>1, ShortSeq
    <3> QED
      BY <3>1, <3>2
  <2> HIDE DEF f, live, port, Todo
  <2>6. HandlerOK(LOOP, [at |-> "end", todo |-> Todo(buffered),
                         live |-> live, arg |-> f, attached |-> FALSE])
    BY <2>2 DEF HandlerOK, LoopLabels
  <2>7. /\ thread' \in [Threads -> ThreadType]
        /\ \A u \in Threads : HandlerOK(u, thread'[u])
        /\ cpu' \in Threads \cup {NoThread}
        /\ WaitersOK'
    BY <1>0, <2>1, <2>2, <2>5, <2>6, StartOK DEF LoopLabels
  <2> QED
    BY <1>7, <2>2, <2>3, <2>4, <2>7, HeadEvent DEF AllowArp, TypeOK
<1>8. CASE SwitchHandshake
  <2> DEFINE todo == <<Add(MissFlow), Add(PuntFlow)>>
  <2>1. TakeEvent("features") /\ Start(LOOP, "end", todo, live, NoArg)
    BY <1>8 DEF SwitchHandshake
  <2>2. live \in BOOLEAN /\ cpu = NoThread /\ thread[LOOP].at = "idle" /\ waiters' = waiters
    BY <2>1, HeadEvent
  <2>3. todo \in Seq(FlowMessage \cup {Log})
    BY MessagesOK, ShortSeq
  <2>4. arp_table' \in [Ips -> Int]
    BY <1>8 DEF SwitchHandshake, UNKNOWN
  <2> HIDE DEF live, todo
  <2>5. HandlerOK(LOOP, [at |-> "end", todo |-> todo,
                         live |-> live, arg |-> NoArg, attached |-> FALSE])
    BY <2>2 DEF HandlerOK, LoopLabels
  <2>6. /\ thread' \in [Threads -> ThreadType]
        /\ \A u \in Threads : HandlerOK(u, thread'[u])
        /\ cpu' \in Threads \cup {NoThread}
        /\ WaitersOK'
    BY <1>0, <2>1, <2>2, <2>3, <2>5, StartOK DEF LoopLabels
  <2> QED
    BY <1>8, <2>1, <2>4, <2>6, HeadEvent DEF SwitchHandshake, TypeOK
<1> QED
  BY <1>1, <1>2, <1>3, <1>4, <1>5, <1>6, <1>7, <1>8 DEF HandleEvent

\* The packet that counts for the trust of its flow has a known way.
WayKnown ==
  thread[LOOP].at = "trust" => mac_to_port[thread[LOOP].arg.eth_dst] # UNKNOWN

LEMMA TypeLoopContinues ==
  ASSUME TypeInv, WayKnown, LoopContinues
  PROVE  TypeInv'
<1> USE DEF TypeInv, ruleVars, tableVars, threadVars, sendVars, linkVars
<1> DEFINE f == thread[LOOP].arg
           k == KeyOf(f)
<1>0. /\ TableOK(trust_table)
      /\ LOOP \in Threads
      /\ thread \in [Threads -> ThreadType]
      /\ HandlerOK(LOOP, thread[LOOP])
  BY ThreadFacts DEF TypeOK, TableOK
<1>1. CASE LearnDropped
  <2>1. f \in Traffic
    BY <1>0, <1>1 DEF LearnDropped, Reached, HandlerOK
  <2>2. mac_to_port' \in [Macs -> InPorts \cup {UNKNOWN}]
    BY <1>1, <2>1, LearnOK DEF LearnDropped
  <2>3. cpu = LOOP /\ Return(LOOP) /\ waiters' = waiters
    BY <1>1 DEF LearnDropped, Reached
  <2> QED
    BY <1>0, <1>1, <2>2, <2>3, ReturnOK DEF LearnDropped, TypeOK
<1>2. CASE RecordTrust
  <2>1. f \in Flows5
    BY <1>0, <1>2 DEF RecordTrust, Reached, HandlerOK
  <2>2. f \in Traffic /\ k \in Keys
    BY <2>1, KeyInKeys DEF Flows5
  <2>3. TableOK(trust_table')
    <3>1. trust_table[k].count + 1 \in Nat
      BY <1>0, <2>2 DEF TableOK, Entry
    <3> HIDE DEF f, k
    <3>2. [trust_table[k] EXCEPT !.count = @ + 1] \in Entry
      BY <1>0, <2>2, <3>1 DEF TableOK, Entry
    <3>3. \/ trust_table' = trust_table
          \/ trust_table' = [trust_table EXCEPT ![k].count = @ + 1]
      BY <1>2 DEF RecordTrust, f, k
    <3> QED
      BY <1>0, <2>2, <3>2, <3>3 DEF TableOK, Entry
  <2>4. cpu = LOOP /\ waiters' = waiters
    BY <1>2 DEF RecordTrust, Reached
  <2>5. /\ thread' \in [Threads -> ThreadType]
        /\ \A u \in Threads : HandlerOK(u, thread'[u])
        /\ cpu' \in Threads \cup {NoThread}
        /\ WaitersOK'
    <3>1. CASE Return(LOOP)
      BY <1>0, <2>4, <3>1, ReturnOK
    <3>2. CASE ~Return(LOOP)
      <4> DEFINE flow == TrustFlows(f, mac_to_port[f.eth_dst])
                 todo == <<Add(flow[1]), Add(flow[2]), Log>>
                 th == [thread[LOOP] EXCEPT !.at = "installed", !.todo = todo,
                                            !.attached = TRUE]
      <4>1. thread' = [thread EXCEPT ![LOOP] = th] /\ cpu' = cpu
        BY <1>0, <1>2, <3>2 DEF RecordTrust
      <4>2. mac_to_port[f.eth_dst] \in InPorts
        BY <1>2, <2>2, FrameFields DEF TypeOK, WayKnown, RecordTrust, Reached
      <4>3. todo \in Seq(FlowMessage \cup {Log})
        BY <2>1, <4>2, MessagesOK, ShortSeq
      <4>4. th \in ThreadType /\ HandlerOK(LOOP, th)
        BY <1>0, <2>1, <4>3 DEF ThreadType, HandlerOK, LoopLabels
      <4> HIDE DEF th
      <4> QED
        BY <1>0, <2>4, <4>1, <4>4, StepOfThread
    <3> QED
      BY <3>1, <3>2
  <2> QED
    BY <1>2, <2>3, <2>5 DEF RecordTrust, TypeOK, TableOK
<1>3. CASE MarkInstalled
  <2>1. f \in Flows5
    BY <1>0, <1>3 DEF MarkInstalled, Reached, HandlerOK
  <2>2. f \in Traffic /\ k \in Keys
    BY <2>1, KeyInKeys DEF Flows5
  <2>3. TableOK(trust_table')
    <3> HIDE DEF f, k
    <3>1. [trust_table[k] EXCEPT !.installed = TRUE] \in Entry
      BY <1>0, <2>2 DEF TableOK, Entry
    <3>2. \/ trust_table' = trust_table
          \/ trust_table' = [trust_table EXCEPT ![k].installed = TRUE]
      BY <1>3 DEF MarkInstalled, f, k
    <3> QED
      BY <1>0, <2>2, <3>1, <3>2 DEF TableOK, Entry
  <2>4. cpu = LOOP /\ Return(LOOP) /\ waiters' = waiters
    BY <1>3 DEF MarkInstalled, Reached
  <2> QED
    BY <1>0, <1>3, <2>3, <2>4, ReturnOK DEF MarkInstalled, TypeOK, TableOK
<1> QED
  BY <1>1, <1>2, <1>3 DEF LoopContinues

LEMMA TypeRequest ==
  ASSUME TypeInv, NEW t \in RestThreads, Request(t)
  PROVE  TypeInv'
<1> USE DEF TypeInv, ruleVars, tableVars, threadVars, sendVars, linkVars
<1>0. t \in Threads /\ t # LOOP
  BY ThreadFacts
<1>1. PICK r \in Requests : \/ AddBlockedIp(t, r)   \/ DelBlockedIp(t, r)
                            \/ AddBlockedPort(t, r) \/ DelBlockedPort(t, r)
                            \/ AddDpiPattern(t, r)  \/ DelDpiPattern(t, r)
  BY DEF Request
<1>2. TakeRequest(t, r)
  BY <1>1 DEF AddBlockedIp, DelBlockedIp, AddBlockedPort, DelBlockedPort,
              AddDpiPattern, DelDpiPattern
<1>3. cpu = NoThread /\ thread[t].at = "idle" /\ waiters' = waiters
  BY <1>2 DEF TakeRequest, Busy
<1>4. ASSUME NEW at \in RestLabels, NEW todo \in Seq(FlowMessage \cup {Log}),
             NEW live \in BOOLEAN, Start(t, at, todo, live, r),
             HandlerOK(t, [at |-> at, todo |-> todo, live |-> live, arg |-> r,
                           attached |-> FALSE])
      PROVE  /\ thread' \in [Threads -> ThreadType]
             /\ \A u \in Threads : HandlerOK(u, thread'[u])
             /\ cpu' \in Threads \cup {NoThread}
             /\ WaitersOK'
  BY <1>0, <1>3, <1>4, StartOK
<1>5. <<Log>> \in Seq(FlowMessage \cup {Log})
  BY ShortSeq
<1>6. CASE AddBlockedIp(t, r)
  <2>1. Start(t, "flush_ip", <<Log>>, FALSE, r) /\ r \in ReqOf("add_blocked_ip")
    BY <1>6 DEF AddBlockedIp, ReqOf
  <2>2. HandlerOK(t, [at |-> "flush_ip", todo |-> <<Log>>, live |-> FALSE, arg |-> r,
                      attached |-> FALSE])
    BY <1>0, <2>1 DEF HandlerOK, RestLabels
  <2>3. "flush_ip" \in RestLabels
    BY DEF RestLabels
  <2> QED
    BY <1>2, <1>4, <1>5, <1>6, <2>1, <2>2, <2>3 DEF AddBlockedIp, TakeRequest, TypeOK
<1>7. CASE AddBlockedPort(t, r)
  <2>1. Start(t, "flush_port", <<Log>>, FALSE, r) /\ r \in ReqOf("add_blocked_port")
    BY <1>7 DEF AddBlockedPort, ReqOf
  <2>2. HandlerOK(t, [at |-> "flush_port", todo |-> <<Log>>, live |-> FALSE, arg |-> r,
                      attached |-> FALSE])
    BY <1>0, <2>1 DEF HandlerOK, RestLabels
  <2>3. "flush_port" \in RestLabels
    BY DEF RestLabels
  <2> QED
    BY <1>2, <1>4, <1>5, <1>7, <2>1, <2>2, <2>3 DEF AddBlockedPort, TakeRequest, TypeOK
<1>8. CASE AddDpiPattern(t, r)
  <2> DEFINE todo == ToSwitch(<<Delete(AllIpv4), Add(PuntFlow)>>)
             live == registered = "live"
  <2>1. Start(t, "forget_all", todo, live, r) /\ r \in ReqOf("add_dpi_pattern")
        /\ patterns' = patterns \cup {r.pattern}
    BY <1>8 DEF AddDpiPattern, ReqOf
  <2>2. todo \in Seq(FlowMessage \cup {Log})
    BY MessagesOK, ShortSeq DEF ToSwitch
  <2>3. live \in BOOLEAN
    OBVIOUS
  <2> HIDE DEF todo, live
  <2>4. HandlerOK(t, [at |-> "forget_all", todo |-> todo, live |-> live, arg |-> r,
                      attached |-> FALSE])
    BY <1>0, <2>1 DEF HandlerOK, RestLabels
  <2>5. "forget_all" \in RestLabels
    BY DEF RestLabels
  <2>6. patterns' \subseteq Builtins \cup UserPatterns /\ Builtins \subseteq patterns'
    BY <2>1 DEF UserPatterns, TypeOK
  <2> QED
    BY <1>2, <1>4, <1>8, <2>1, <2>2, <2>3, <2>4, <2>5, <2>6
       DEF AddDpiPattern, TakeRequest, TypeOK
<1>9. CASE DelBlockedIp(t, r) \/ DelBlockedPort(t, r) \/ DelDpiPattern(t, r)
  BY <1>2, <1>9 DEF DelBlockedIp, DelBlockedPort, DelDpiPattern, TakeRequest,
                    TypeOK, WaitersOK
<1> QED
  BY <1>1, <1>6, <1>7, <1>8, <1>9

\* A request that forgets entries returns; the event loop may lose its entry.
LEMMA ForgetOK ==
  ASSUME TypeInv, NEW t \in RestThreads, NEW S, cpu = t, Forget(t, S)
  PROVE  TypeInv'
<1> USE DEF TypeInv, ruleVars, tableVars, sendVars, linkVars
<1>0. /\ t \in Threads /\ t # LOOP /\ LOOP \in Threads
      /\ thread \in [Threads -> ThreadType]
      /\ \A u \in Threads : HandlerOK(u, thread[u])
      /\ waiters \in Seq(Threads) /\ waiters' = waiters /\ cpu' = NoThread
      /\ WaitersOK
  BY ThreadFacts DEF TypeOK, Forget
<1> DEFINE att == thread[LOOP].attached /\ KeyOf(thread[LOOP].arg) \notin S
           lp == [thread[LOOP] EXCEPT !.attached = att]
<1>1. /\ thread'[t] = Idle
      /\ thread'[LOOP] = lp
      /\ \A u \in Threads \ {t, LOOP} : thread'[u] = thread[u]
      /\ thread' = [u \in Threads |-> thread'[u]]
  BY <1>0 DEF Forget
<1>2. att \in BOOLEAN
  OBVIOUS
<1> HIDE DEF att
<1>3. lp \in ThreadType /\ HandlerOK(LOOP, lp)
  BY <1>0, <1>2 DEF ThreadType, HandlerOK
<1>4. lp.at = thread[LOOP].at /\ lp.live = thread[LOOP].live /\ lp.todo = thread[LOOP].todo
  BY <1>0 DEF ThreadType
<1> HIDE DEF lp
<1>5. \A u \in Threads : thread'[u] \in ThreadType /\ HandlerOK(u, thread'[u])
  BY <1>0, <1>1, <1>3, IdleOK
<1>6. thread' \in [Threads -> ThreadType]
  BY <1>1, <1>5
<1>7. ASSUME NEW i \in 1..Len(waiters)
      PROVE  /\ waiters[i] \in Threads /\ waiters[i] # t
             /\ thread'[waiters[i]].at = thread[waiters[i]].at
             /\ thread'[waiters[i]].live = thread[waiters[i]].live
             /\ thread'[waiters[i]].todo = thread[waiters[i]].todo
             /\ cpu' # waiters[i]
  <2>1. waiters[i] \in Threads /\ waiters[i] # t
    BY <1>0 DEF WaitersOK
  <2> QED
    BY <1>0, <1>1, <1>4, <2>1, ThreadFacts
<1>8. WaitersOK'
  BY <1>0, <1>7 DEF WaitersOK
<1>9. TableOK(trust_table')
  <2>1. TableOK(trust_table)
    BY DEF TypeOK, TableOK
  <2>2. trust_table' = [k \in Keys |-> IF k \in S THEN FreshEntry ELSE trust_table[k]]
    BY DEF Forget
  <2> QED
    BY <2>1, <2>2, FreshOK DEF TableOK
<1> QED
  BY <1>0, <1>5, <1>6, <1>8, <1>9 DEF Forget, TypeOK, TableOK

LEMMA TypeRequestContinues ==
  ASSUME TypeInv, NEW t \in RestThreads, RequestContinues(t)
  PROVE  TypeInv'
<1> USE DEF TypeInv, ruleVars, tableVars, sendVars, linkVars
<1> DEFINE r == thread[t].arg
           live == registered = "live"
<1>0. /\ t \in Threads /\ t # LOOP
      /\ thread \in [Threads -> ThreadType]
      /\ HandlerOK(t, thread[t])
  BY ThreadFacts DEF TypeOK
<1>1. r \in Traffic \cup Requests \cup {NoArg} /\ live \in BOOLEAN
  BY <1>0 DEF ThreadType
<1>2. CASE FlushIp(t)
  <2> DEFINE todo == ToSwitch(<<Delete(FromIp(r.ip)), Delete(ToIp(r.ip))>>)
  <2>1. cpu = t /\ Start(t, "forget_ip", todo, live, r) /\ waiters' = waiters
        /\ r \in ReqOf("add_blocked_ip")
    BY <1>0, <1>2 DEF FlushIp, Reached, HandlerOK
  <2>2. todo \in Seq(FlowMessage \cup {Log})
    BY <2>1, RequestMessagesOK, ShortSeq DEF ToSwitch
  <2> HIDE DEF r, live, todo
  <2>3. HandlerOK(t, [at |-> "forget_ip", todo |-> todo, live |-> live, arg |-> r,
                      attached |-> FALSE])
    BY <1>0, <2>1 DEF HandlerOK, RestLabels
  <2>4. /\ thread' \in [Threads -> ThreadType]
        /\ \A u \in Threads : HandlerOK(u, thread'[u])
        /\ cpu' \in Threads \cup {NoThread}
        /\ WaitersOK'
    BY <1>0, <1>1, <2>1, <2>2, <2>3, StartOK DEF RestLabels
  <2> QED
    BY <1>2, <2>4 DEF FlushIp, TypeOK
<1>3. CASE FlushPort(t)
  <2> DEFINE todo == ToSwitch(<<Delete(ToPort(r.port, r.proto))>>)
  <2>1. cpu = t /\ Start(t, "forget_port", todo, live, r) /\ waiters' = waiters
        /\ r \in ReqOf("add_blocked_port")
    BY <1>0, <1>3 DEF FlushPort, Reached, HandlerOK
  <2>2. todo \in Seq(FlowMessage \cup {Log})
    BY <2>1, RequestMessagesOK, ShortSeq DEF ToSwitch
  <2> HIDE DEF r, live, todo
  <2>3. HandlerOK(t, [at |-> "forget_port", todo |-> todo, live |-> live, arg |-> r,
                      attached |-> FALSE])
    BY <1>0, <2>1 DEF HandlerOK, RestLabels
  <2>4. /\ thread' \in [Threads -> ThreadType]
        /\ \A u \in Threads : HandlerOK(u, thread'[u])
        /\ cpu' \in Threads \cup {NoThread}
        /\ WaitersOK'
    BY <1>0, <1>1, <2>1, <2>2, <2>3, StartOK DEF RestLabels
  <2> QED
    BY <1>3, <2>4 DEF FlushPort, TypeOK
<1>4. CASE ForgetIp(t) \/ ForgetPort(t) \/ ForgetAll(t)
  BY <1>4, ForgetOK DEF ForgetIp, ForgetPort, ForgetAll, Reached
<1> QED
  BY <1>2, <1>3, <1>4 DEF RequestContinues

LEMMA TypeInit == Init => TypeInv /\ WayKnown
<1> SUFFICES ASSUME Init PROVE TypeInv /\ WayKnown
  OBVIOUS
<1>1. /\ \A t \in Threads : thread[t] = Idle
      /\ thread \in [Threads -> ThreadType]
      /\ \A t \in Threads : HandlerOK(t, thread[t])
  BY IdleOK DEF Init
<1>2. TableOK(trust_table)
  BY FreshOK DEF Init, TableOK
<1>3. /\ events \in Seq(EventType) /\ Len(events) <= EventCap
      /\ send_q \in Seq(FlowMessage) /\ Len(send_q) <= SendCap
      /\ waiters \in Seq(Threads) /\ WaitersOK
  BY BoundsAssumption DEF Init, WaitersOK
<1>4. thread[LOOP].at = "idle"
  BY <1>1, ThreadFacts DEF Idle
<1>5. WayKnown
  BY <1>4 DEF WayKnown
<1>6. mac_to_port \in [Macs -> InPorts \cup {UNKNOWN}] /\ arp_table \in [Ips -> Int]
  BY DEF Init, UNKNOWN
<1>7. /\ patterns \subseteq Builtins \cup UserPatterns /\ Builtins \subseteq patterns
      /\ cpu \in Threads \cup {NoThread}
      /\ registered \in {"none", "live", "dead"}
      /\ connected \in BOOLEAN
      /\ flows \subseteq Rules
  BY DEF Init
<1> QED
  BY <1>1, <1>2, <1>3, <1>5, <1>6, <1>7 DEF TypeInv, TypeOK, TableOK

-----------------------------------------------------------------------------
(* What the actions leave alone.                                           *)

\* Thread u goes on with the handler it runs.
SameHandler(u) ==
  /\ thread'[u].at = thread[u].at
  /\ thread'[u].arg = thread[u].arg
  /\ thread'[u].attached = thread[u].attached

LEMMA ProceedKeeps ==
  ASSUME TypeInv, NEW t \in Threads, Proceed(t)
  PROVE  /\ \A u \in Threads :
              SameHandler(u) \/ (thread[u].at = "end" /\ thread'[u] = Idle)
         /\ UNCHANGED <<ruleVars, tableVars>>
<1> DEFINE Kept == \A u \in Threads :
                     SameHandler(u) \/ (thread[u].at = "end" /\ thread'[u] = Idle)
<1>0. thread \in [Threads -> ThreadType]
  BY DEF TypeInv, TypeOK
<1>1. thread' = [thread EXCEPT ![t].todo = Tail(@)] => Kept
  BY <1>0 DEF SameHandler, ThreadType
<1>2. thread' = thread => Kept
  BY DEF SameHandler
<1>3. HandlerEnds(t) => Kept
  BY <1>0 DEF HandlerEnds, Return, Reached, SameHandler
<1>4. \/ thread' = [thread EXCEPT ![t].todo = Tail(@)]
      \/ thread' = thread
      \/ HandlerEnds(t)
  BY DEF Proceed, SendDiscard, SendNow, SendBlock, SendResume, LogEvent, LogWaits, WakeUp
<1>5. UNCHANGED <<ruleVars, tableVars>>
  BY DEF Proceed, SendDiscard, SendNow, SendBlock, SendResume, LogEvent, LogWaits,
         WakeUp, HandlerEnds
<1> QED
  BY <1>1, <1>2, <1>3, <1>4, <1>5

\* A client lets the handler of t go on, or ends it.
LEMMA ClientKeeps ==
  ASSUME TypeInv, NEW t \in Threads, ClientActs(t)
  PROVE  /\ \A u \in Threads \ {t} : SameHandler(u)
         /\ UNCHANGED <<ruleVars, mac_to_port, arp_table>>
         /\ \/ LogResumes(t) /\ SameHandler(t) /\ UNCHANGED trust_table
            \/ LogRaises(t) /\ thread'[t] = Idle
<1>0. thread \in [Threads -> ThreadType]
  BY DEF TypeInv, TypeOK
<1>1. CASE LogResumes(t)
  BY <1>0, <1>1 DEF LogResumes, SameHandler, ThreadType, tableVars
<1>2. CASE LogRaises(t)
  BY <1>0, <1>2 DEF LogRaises, Return, SameHandler
<1> QED
  BY <1>1, <1>2 DEF ClientActs

LEMMA SwitchKeeps ==
  ASSUME TypeInv, SendLoop \/ Environment
  PROVE  /\ \A u \in Threads : SameHandler(u)
         /\ UNCHANGED <<ruleVars, tableVars>>
<1>0. thread \in [Threads -> ThreadType]
  BY DEF TypeInv, TypeOK
<1>1. CASE LoseConnection
  BY <1>0, <1>1 DEF LoseConnection, SameHandler, ThreadType
<1>2. CASE SendLoop \/ Connect
  BY <1>2 DEF SendLoop, Connect, SameHandler, threadVars
<1>3. ASSUME NEW f \in Traffic, PacketIn(f)
      PROVE  (\A u \in Threads : SameHandler(u)) /\ UNCHANGED <<ruleVars, tableVars>>
  BY <1>3 DEF PacketIn, SameHandler, threadVars
<1>4. ASSUME NEW g \in flows, FlowExpires(g)
      PROVE  (\A u \in Threads : SameHandler(u)) /\ UNCHANGED <<ruleVars, tableVars>>
  BY <1>4 DEF FlowExpires, SameHandler, threadVars
<1> QED
  BY <1>1, <1>2, <1>3, <1>4 DEF Environment, Disconnect, SwitchCrash

LEMMA RequestKeeps ==
  ASSUME TypeInv, NEW t \in RestThreads, Request(t)
  PROVE  /\ \A u \in Threads \ {t} : SameHandler(u)
         /\ UNCHANGED tableVars
<1>0. t \in Threads /\ thread \in [Threads -> ThreadType]
  BY ThreadFacts DEF TypeInv, TypeOK
<1>1. PICK r \in Requests : \/ AddBlockedIp(t, r)   \/ DelBlockedIp(t, r)
                            \/ AddBlockedPort(t, r) \/ DelBlockedPort(t, r)
                            \/ AddDpiPattern(t, r)  \/ DelDpiPattern(t, r)
  BY DEF Request
<1>2. UNCHANGED tableVars
  BY <1>1 DEF AddBlockedIp, DelBlockedIp, AddBlockedPort, DelBlockedPort,
              AddDpiPattern, DelDpiPattern, TakeRequest
<1>3. CASE thread' = thread
  BY <1>2, <1>3 DEF SameHandler
<1>4. CASE \E at, todo, live : Start(t, at, todo, live, r)
  BY <1>0, <1>2, <1>4 DEF Start, SameHandler
<1> QED
  BY <1>1, <1>3, <1>4 DEF AddBlockedIp, DelBlockedIp, AddBlockedPort, DelBlockedPort,
                          AddDpiPattern, DelDpiPattern, threadVars

LEMMA FlushKeeps ==
  ASSUME TypeInv, NEW t \in RestThreads, FlushIp(t) \/ FlushPort(t)
  PROVE  /\ \A u \in Threads \ {t} : SameHandler(u)
         /\ thread[t].at # "forget_all" /\ thread'[t].at # "forget_all"
         /\ UNCHANGED <<ruleVars, tableVars>>
<1>0. t \in Threads /\ thread \in [Threads -> ThreadType]
  BY ThreadFacts DEF TypeInv, TypeOK
<1> QED
  BY <1>0 DEF FlushIp, FlushPort, Start, Reached, SameHandler

LEMMA ForgetKeeps ==
  ASSUME TypeInv, NEW t \in RestThreads, NEW S, Forget(t, S)
  PROVE  /\ \A u \in Threads \ {t, LOOP} : SameHandler(u)
         /\ thread'[t] = Idle
         /\ thread'[LOOP].at = thread[LOOP].at
         /\ thread'[LOOP].arg = thread[LOOP].arg
         /\ thread'[LOOP].attached =
              (thread[LOOP].attached /\ KeyOf(thread[LOOP].arg) \notin S)
         /\ UNCHANGED <<ruleVars, mac_to_port, arp_table>>
         /\ trust_table' = [k \in Keys |-> IF k \in S THEN FreshEntry ELSE trust_table[k]]
<1>0. t \in Threads /\ t # LOOP /\ LOOP \in Threads /\ thread \in [Threads -> ThreadType]
  BY ThreadFacts DEF TypeInv, TypeOK
<1>1. thread' = [thread EXCEPT ![t] = Idle,
                               ![LOOP].attached = @ /\ KeyOf(thread[LOOP].arg) \notin S]
  BY DEF Forget
<1> QED
  BY <1>0, <1>1 DEF Forget, SameHandler, ThreadType

LEMMA WayKnownNext ==
  ASSUME TypeInv, WayKnown, Next
  PROVE  WayKnown'
<1> USE DEF TypeInv, tableVars
<1>0. LOOP \in Threads /\ thread \in [Threads -> ThreadType]
  BY ThreadFacts DEF TypeOK
<1>1. ASSUME NEW t \in Threads, Proceed(t)
      PROVE  WayKnown'
  BY <1>0, <1>1, ProceedKeeps DEF SameHandler, WayKnown, Idle
<1>7. ASSUME NEW t \in Threads, ClientActs(t)
      PROVE  WayKnown'
  BY <1>0, <1>7, ClientKeeps DEF SameHandler, WayKnown, Idle
<1>2. CASE SendLoop \/ Environment
  BY <1>0, <1>2, SwitchKeeps DEF SameHandler, WayKnown
<1>3. ASSUME NEW t \in RestThreads, Request(t) \/ RequestContinues(t)
      PROVE  WayKnown'
  <2>1. t # LOOP
    BY ThreadFacts
  <2>2. CASE Request(t)
    BY <1>0, <2>1, <2>2, RequestKeeps DEF SameHandler, WayKnown
  <2>3. CASE FlushIp(t) \/ FlushPort(t)
    BY <1>0, <2>1, <2>3, FlushKeeps DEF SameHandler, WayKnown
  <2>4. CASE ForgetIp(t) \/ ForgetPort(t) \/ ForgetAll(t)
    BY <2>4, ForgetKeeps DEF ForgetIp, ForgetPort, ForgetAll, WayKnown
  <2> QED
    BY <1>3, <2>2, <2>3, <2>4 DEF RequestContinues
<1>4. CASE LoopContinues
  <2>1. CASE Return(LOOP)
    BY <1>0, <2>1 DEF Return, Idle, WayKnown
  <2>2. CASE RecordTrust /\ ~Return(LOOP)
    <3>1. thread'[LOOP].at = "installed"
      BY <1>0, <2>2 DEF RecordTrust, ThreadType
    <3> QED
      BY <3>1 DEF WayKnown
  <2> QED
    BY <1>4, <2>1, <2>2 DEF LoopContinues, LearnDropped, MarkInstalled
<1>5. CASE AllowPacket
  <2> DEFINE f == Head(events).frame
  <2>1. /\ thread'[LOOP].arg = f
        /\ mac_to_port' = Learn(f)
        /\ thread'[LOOP].at = "trust" => Learn(f)[f.eth_dst] # UNKNOWN
    BY <1>0, <1>5 DEF AllowPacket, Start
  <2> QED
    BY <2>1 DEF WayKnown
<1>6. CASE HandleEvent /\ ~AllowPacket
  <2>1. thread'[LOOP].at # "trust"
    <3>1. CASE IgnorePacket \/ DropPacket
      <4>1. thread' = thread /\ TakeEvent("packet")
        BY <3>1 DEF IgnorePacket, DropPacket, threadVars
      <4> QED
        BY <4>1 DEF TakeEvent, Busy
    <3>2. CASE RateLimitPacket \/ DpiBlockPacket \/ ArpSpoofPacket
      <4>1. CASE RateLimitPacket
        BY <1>0, <4>1 DEF RateLimitPacket, Start
      <4>2. CASE DpiBlockPacket
        BY <1>0, <4>2 DEF DpiBlockPacket, Start
      <4>3. CASE ArpSpoofPacket
        BY <1>0, <4>3 DEF ArpSpoofPacket, Start
      <4> QED
        BY <3>2, <4>1, <4>2, <4>3
    <3>3. CASE AllowArp
      BY <1>0, <3>3 DEF AllowArp, Start
    <3>4. CASE SwitchHandshake
      BY <1>0, <3>4 DEF SwitchHandshake, Start
    <3> QED
      BY <1>6, <3>1, <3>2, <3>3, <3>4 DEF HandleEvent
  <2> QED
    BY <2>1 DEF WayKnown
<1> QED
  BY <1>1, <1>2, <1>3, <1>4, <1>5, <1>6, <1>7 DEF Next

LEMMA TypeNext ==
  ASSUME TypeInv, WayKnown, [Next]_vars
  PROVE  TypeInv' /\ WayKnown'
<1>1. CASE Next
  BY <1>1, WayKnownNext, TypeHandleEvent, TypeLoopContinues, TypeRequest,
     TypeRequestContinues, TypeProceed, TypeClientActs, TypeSwitch DEF Next
<1>2. CASE UNCHANGED vars
  BY <1>2 DEF vars, ruleVars, tableVars, threadVars, sendVars, linkVars,
              TypeInv, TypeOK, WaitersOK, WayKnown
<1> QED
  BY <1>1, <1>2

LEMMA TypeInvariant == Spec => []TypeInv
<1>1. TypeInv /\ WayKnown /\ [Next]_vars => (TypeInv /\ WayKnown)'
  BY TypeNext
<1> QED
  BY TypeInit, <1>1, PTL DEF Spec

(* TypeOK holds in every state FirewallApp, its threads and the switch can *)
(* reach: no buffer or queue exceeds its bound, and the switch holds only  *)
(* rules the code builds.                                                  *)
THEOREM TypeCorrect == Spec => []TypeOK
<1>1. TypeInv => TypeOK
  BY DEF TypeInv
<1> QED
  BY <1>1, TypeInvariant, PTL
-----------------------------------------------------------------------------
(* A log call is the last thing in a list: an exception in it cuts off     *)
(* what the code does after the list, and no send.                         *)

LogLast(todo) == \A i \in 1..Len(todo) : todo[i] = Log => i = Len(todo)

LogsLast == \A t \in Threads : LogLast(thread[t].todo)

LEMMA LogLastTail ==
  ASSUME NEW S, NEW todo \in Seq(S), todo # <<>>, LogLast(todo)
  PROVE  /\ LogLast(Tail(todo))
         /\ Head(todo) = Log => todo = <<Log>> /\ Tail(todo) = <<>>
<1>1. /\ Len(Tail(todo)) = Len(todo) - 1 /\ Len(todo) \in Nat /\ Len(todo) > 0
      /\ todo[1] = Head(todo) /\ Tail(todo) \in Seq(S)
      /\ \A i \in 1..Len(Tail(todo)) : Tail(todo)[i] = todo[i + 1]
  BY TailType
<1>2. LogLast(Tail(todo))
  <2> SUFFICES ASSUME NEW i \in 1..Len(Tail(todo)), Tail(todo)[i] = Log
               PROVE  i = Len(Tail(todo))
    BY DEF LogLast
  <2>1. i + 1 \in 1..Len(todo) /\ Tail(todo)[i] = todo[i + 1]
    BY <1>1
  <2>2. i + 1 = Len(todo)
    BY <2>1 DEF LogLast
  <2>3. i \in Int /\ Len(Tail(todo)) = Len(todo) - 1 /\ Len(todo) \in Nat
    BY <1>1
  <2> QED
    BY <2>2, <2>3
<1>3. ASSUME Head(todo) = Log
      PROVE  todo = <<Log>> /\ Tail(todo) = <<>>
  <2>1. 1 \in 1..Len(todo) /\ todo[1] = Log
    BY <1>1, <1>3
  <2>2. Len(todo) = 1
    BY <2>1 DEF LogLast
  <2>3. todo = <<Log>>
    BY <2>1, <2>2
  <2> QED
    BY <2>3
<1> QED
  BY <1>2, <1>3

LEMMA LogIsDistinct ==
  /\ PacketOut # Log
  /\ \A g : Add(g) # Log
  /\ \A x : Delete(x) # Log
<1>1. Log.cmd = "log" /\ PacketOut.cmd # "log"
  BY DEF Log, PacketOut
<1>2. ASSUME NEW g
      PROVE  Add(g).cmd # "log" /\ Delete(g).cmd # "log"
  BY DEF Add, Delete
<1> QED
  BY <1>1, <1>2

LEMMA ShortLogLast ==
  /\ LogLast(<<>>)
  /\ \A m : LogLast(<<m>>)
  /\ \A m, n : m # Log => LogLast(<<m, n>>)
  /\ \A m, n, o : m # Log /\ n # Log => LogLast(<<m, n, o>>)
<1>1. LogLast(<<>>)
  BY DEF LogLast
<1>2. ASSUME NEW m
      PROVE  LogLast(<<m>>)
  BY DEF LogLast
<1>3. ASSUME NEW m, NEW n, m # Log
      PROVE  LogLast(<<m, n>>)
  BY <1>3 DEF LogLast
<1>4. ASSUME NEW m, NEW n, NEW o, m # Log, n # Log
      PROVE  LogLast(<<m, n, o>>)
  BY <1>4 DEF LogLast
<1> QED
  BY <1>1, <1>2, <1>3, <1>4

LEMMA LogsLastNext ==
  ASSUME TypeInv, LogsLast, [Next]_vars
  PROVE  LogsLast'
<1>0. LOOP \in Threads /\ RestThreads \subseteq Threads
      /\ thread \in [Threads -> ThreadType]
  BY ThreadFacts DEF TypeInv, TypeOK, Threads
<1>1. ASSUME \A u \in Threads : thread'[u].todo = thread[u].todo
      PROVE  LogsLast'
  BY <1>1 DEF LogsLast, LogLast
<1>2. ASSUME NEW t \in Threads, NEW th, thread' = [thread EXCEPT ![t] = th],
             LogLast(th.todo)
      PROVE  LogsLast'
  <2>1. \A u \in Threads : LogLast(thread'[u].todo)
    BY <1>0, <1>2 DEF LogsLast
  <2> QED
    BY <2>1 DEF LogsLast, LogLast
<1>3. ASSUME NEW t \in Threads, NEW at, NEW todo, NEW live, NEW arg,
             Start(t, at, todo, live, arg), LogLast(todo)
      PROVE  LogsLast'
  <2> DEFINE th == [at |-> at, todo |-> todo, live |-> live, arg |-> arg,
                    attached |-> FALSE]
  <2>1. thread' = [thread EXCEPT ![t] = th] /\ th.todo = todo
    BY <1>3 DEF Start
  <2> HIDE DEF th
  <2> QED
    BY <1>2, <1>3, <2>1
<1>4. ASSUME NEW t \in Threads, thread' = [thread EXCEPT ![t] = Idle]
      PROVE  LogsLast'
  <2>1. LogLast(Idle.todo)
    BY ShortLogLast DEF Idle
  <2> QED
    BY <1>2, <1>4, <2>1
<1>5. ASSUME NEW t \in Threads, thread' = [thread EXCEPT ![t].todo = Tail(@)],
             thread[t].todo # <<>>
      PROVE  LogsLast'
  <2>1. thread[t].todo \in Seq(FlowMessage \cup {Log})
    BY <1>0 DEF ThreadType
  <2>2. LogLast(Tail(thread[t].todo))
    BY <1>5, <2>1, LogLastTail DEF LogsLast
  <2> DEFINE th == [thread[t] EXCEPT !.todo = Tail(@)]
  <2>3. thread' = [thread EXCEPT ![t] = th] /\ th.todo = Tail(thread[t].todo)
    BY <1>0, <1>5 DEF ThreadType
  <2> HIDE DEF th
  <2> QED
    BY <1>2, <2>2, <2>3
<1>6. ASSUME NEW t \in Threads, Proceed(t) \/ ClientActs(t)
      PROVE  LogsLast'
  <2>1. CASE SendResume(t)
    <3>1. waiters # <<>> /\ t = Head(waiters) /\ waiters \in Seq(Threads) /\ WaitersOK
      BY <2>1 DEF SendResume, TypeInv, TypeOK
    <3>2. 1 \in 1..Len(waiters) /\ waiters[1] = t
      BY <3>1, TailType
    <3>3. thread[t].todo # <<>>
      BY <3>1, <3>2 DEF WaitersOK
    <3> QED
      BY <1>5, <2>1, <3>3 DEF SendResume
  <2>2. CASE SendDiscard(t) \/ SendNow(t) \/ LogEvent(t) \/ LogResumes(t)
    BY <1>5, <2>2 DEF SendDiscard, SendNow, LogEvent, LogResumes, AtLog
  <2>3. CASE SendBlock(t) \/ LogWaits(t) \/ WakeUp(t)
    BY <1>1, <2>3 DEF SendBlock, LogWaits, WakeUp
  <2>4. CASE HandlerEnds(t) \/ LogRaises(t)
    BY <1>4, <2>4 DEF HandlerEnds, LogRaises, Return
  <2> QED
    BY <1>6, <2>1, <2>2, <2>3, <2>4 DEF Proceed, ClientActs
<1>7. CASE SendLoop \/ Environment \/ UNCHANGED vars
  <2>1. CASE LoseConnection
    <3>1. \A u \in Threads : thread'[u].todo = thread[u].todo
      BY <1>0, <2>1 DEF LoseConnection, ThreadType
    <3> QED
      BY <1>1, <3>1
  <2>2. CASE thread' = thread
    BY <1>1, <2>2
  <2> QED
    BY <1>7, <2>1, <2>2 DEF Environment, SendLoop, PacketIn, FlowExpires, Connect,
                            Disconnect, SwitchCrash, threadVars, vars
<1>8. CASE HandleEvent
  <2> DEFINE f == Head(events).frame
             live == Head(events).live
  <2>1. CASE IgnorePacket \/ DropPacket
    BY <1>1, <2>1 DEF IgnorePacket, DropPacket, threadVars
  <2>2. CASE RateLimitPacket
    BY <1>0, <1>3, <2>2, ShortLogLast DEF RateLimitPacket
  <2>3. CASE DpiBlockPacket
    BY <1>0, <1>3, <2>3, ShortLogLast DEF DpiBlockPacket
  <2>4. CASE AllowPacket
    <3> DEFINE at == IF Learn(f)[f.eth_dst] # UNKNOWN /\ HasPorts(f) THEN "trust" ELSE "end"
    <3>1. Start(LOOP, at, <<PacketOut>>, live, f)
      BY <2>4 DEF AllowPacket
    <3> HIDE DEF at
    <3> QED
      BY <1>0, <1>3, <3>1, ShortLogLast
  <2>5. CASE ArpSpoofPacket
    BY <1>0, <1>3, <2>5, ShortLogLast DEF ArpSpoofPacket
  <2>6. CASE AllowArp
    <3> DEFINE port == Learn(f)[f.eth_dst]
               Todo(b) == IF port = UNKNOWN THEN <<PacketOut>>
                          ELSE IF b THEN <<Add(LearnedFlow(f, port))>>
                          ELSE <<Add(LearnedFlow(f, port)), PacketOut>>
    <3>1. PICK buffered \in Buffers : Start(LOOP, "end", Todo(buffered), live, f)
      BY <2>6 DEF AllowArp
    <3>2. LogLast(Todo(buffered))
      BY ShortLogLast, LogIsDistinct
    <3> HIDE DEF Todo
    <3> QED
      BY <1>0, <1>3, <3>1, <3>2
  <2>7. CASE SwitchHandshake
    BY <1>0, <1>3, <2>7, ShortLogLast, LogIsDistinct DEF SwitchHandshake
  <2> QED
    BY <1>8, <2>1, <2>2, <2>3, <2>4, <2>5, <2>6, <2>7 DEF HandleEvent
<1>9. CASE LoopContinues
  <2>1. CASE Return(LOOP)
    BY <1>0, <1>4, <2>1 DEF Return
  <2>2. CASE RecordTrust /\ ~Return(LOOP)
    <3> DEFINE fl == TrustFlows(thread[LOOP].arg, mac_to_port[thread[LOOP].arg.eth_dst])
               th == [thread[LOOP] EXCEPT !.at = "installed",
                                          !.todo = <<Add(fl[1]), Add(fl[2]), Log>>,
                                          !.attached = TRUE]
    <3>1. thread' = [thread EXCEPT ![LOOP] = th]
      BY <1>0, <2>2 DEF RecordTrust
    <3>2. th.todo = <<Add(fl[1]), Add(fl[2]), Log>>
      BY <1>0 DEF ThreadType
    <3>3. LogLast(th.todo)
      BY <3>2, ShortLogLast, LogIsDistinct
    <3> HIDE DEF th
    <3> QED
      BY <1>0, <1>2, <3>1, <3>3
  <2> QED
    BY <1>9, <2>1, <2>2 DEF LoopContinues, LearnDropped, MarkInstalled
<1>10. ASSUME NEW t \in RestThreads, Request(t) \/ RequestContinues(t)
       PROVE  LogsLast'
  <2>0. t \in Threads /\ t # LOOP
    BY <1>0, ThreadFacts
  <2>1. ASSUME NEW r \in Requests, AddBlockedIp(t, r) \/ AddBlockedPort(t, r)
        PROVE  LogsLast'
    BY <1>3, <2>0, <2>1, ShortLogLast DEF AddBlockedIp, AddBlockedPort
  <2>2. ASSUME NEW r \in Requests,
               DelBlockedIp(t, r) \/ DelBlockedPort(t, r) \/ DelDpiPattern(t, r)
        PROVE  LogsLast'
    BY <1>1, <2>2 DEF DelBlockedIp, DelBlockedPort, DelDpiPattern, threadVars
  <2>3. ASSUME NEW r \in Requests, AddDpiPattern(t, r)
        PROVE  LogsLast'
    <3> DEFINE todo == ToSwitch(<<Delete(AllIpv4), Add(PuntFlow)>>)
    <3>1. LogLast(todo)
      BY ShortLogLast, LogIsDistinct DEF ToSwitch
    <3>2. Start(t, "forget_all", todo, registered = "live", r)
      BY <2>3 DEF AddDpiPattern
    <3> HIDE DEF todo
    <3> QED
      BY <1>3, <2>0, <3>1, <3>2
  <2>4. CASE FlushIp(t)
    <3> DEFINE ip == thread[t].arg.ip
               todo == ToSwitch(<<Delete(FromIp(ip)), Delete(ToIp(ip))>>)
    <3>1. LogLast(todo)
      BY ShortLogLast, LogIsDistinct DEF ToSwitch
    <3>2. Start(t, "forget_ip", todo, registered = "live", thread[t].arg)
      BY <2>4 DEF FlushIp
    <3> HIDE DEF todo
    <3> QED
      BY <1>3, <2>0, <3>1, <3>2
  <2>5. CASE FlushPort(t)
    <3> DEFINE r == thread[t].arg
               todo == ToSwitch(<<Delete(ToPort(r.port, r.proto))>>)
    <3>1. LogLast(todo)
      BY ShortLogLast DEF ToSwitch
    <3>2. Start(t, "forget_port", todo, registered = "live", r)
      BY <2>5 DEF FlushPort
    <3> HIDE DEF todo
    <3> QED
      BY <1>3, <2>0, <3>1, <3>2
  <2>6. ASSUME NEW S, Forget(t, S)
        PROVE  LogsLast'
    <3>1. /\ thread'[t] = Idle
          /\ \A u \in Threads \ {t} : thread'[u].todo = thread[u].todo
      BY <1>0, <2>0, <2>6 DEF Forget, ThreadType
    <3>2. \A u \in Threads : LogLast(thread'[u].todo)
      BY <3>1, ShortLogLast DEF Idle, LogsLast
    <3> QED
      BY <3>2 DEF LogsLast, LogLast
  <2> QED
    BY <1>10, <2>1, <2>2, <2>3, <2>4, <2>5, <2>6
       DEF Request, RequestContinues, ForgetIp, ForgetPort, ForgetAll
<1> QED
  BY <1>6, <1>7, <1>8, <1>9, <1>10 DEF Next

LEMMA LogAlwaysLast == Spec => []LogsLast
<1>1. Init => LogsLast
  BY ShortLogLast DEF Init, Idle, LogsLast
<1>2. TypeInv /\ LogsLast /\ [Next]_vars => LogsLast'
  BY LogsLastNext
<1> QED
  BY <1>1, <1>2, TypeInvariant, PTL DEF Spec
=============================================================================
