------------------------ MODULE FirewallTrustProofs ------------------------
(***************************************************************************)
(* Proofs about inspection, trust and ARP bindings, from the type          *)
(* invariant of FirewallProofs.  Trust accounting and the ARP bindings are *)
(* inductive apart from it.  Clean buffers rest on a flush that no         *)
(* exception ends (FlushesSendOnly), the blocked entries on EarnsUnblocked *)
(* and trust in the switch on EarnedInv, which follows the messages on     *)
(* their way to the switch and the flushes that are under way.             *)
(***************************************************************************)
EXTENDS FirewallProofs

-----------------------------------------------------------------------------
(* A flush logs nothing once it has begun to delete: no exception of _log  *)
(* can keep it from clearing the trust table.                              *)

FlushLabels == {"forget_ip", "forget_port", "forget_all"}

SendsOnly(th) ==
  th.at \in FlushLabels => \A i \in 1..Len(th.todo) : th.todo[i] # Log

FlushesSendOnly == \A t \in Threads : SendsOnly(thread[t])

LEMMA FlushesSendOnlyNext ==
  ASSUME TypeInv, TypeInv', FlushesSendOnly, [Next]_vars
  PROVE  FlushesSendOnly'
<1>0. LOOP \in Threads /\ RestThreads \subseteq Threads
      /\ thread \in [Threads -> ThreadType]
  BY ThreadFacts DEF TypeInv, TypeOK, Threads
<1>1. ASSUME \A u \in Threads : thread'[u].todo = thread[u].todo /\ thread'[u].at = thread[u].at
      PROVE  FlushesSendOnly'
  BY <1>1 DEF FlushesSendOnly, SendsOnly
<1>2. ASSUME NEW t \in Threads, NEW th, thread' = [thread EXCEPT ![t] = th], SendsOnly(th)
      PROVE  FlushesSendOnly'
  <2>1. \A u \in Threads : SendsOnly(thread'[u])
    BY <1>0, <1>2 DEF FlushesSendOnly
  <2> QED
    BY <2>1 DEF FlushesSendOnly, SendsOnly
<1>3. ASSUME NEW t \in Threads, NEW at, NEW todo, NEW live, NEW arg,
             Start(t, at, todo, live, arg),
             at \notin FlushLabels \/ \A i \in 1..Len(todo) : todo[i] # Log
      PROVE  FlushesSendOnly'
  <2> DEFINE th == [at |-> at, todo |-> todo, live |-> live, arg |-> arg,
                    attached |-> FALSE]
  <2>1. thread' = [thread EXCEPT ![t] = th] /\ th.todo = todo /\ th.at = at
    BY <1>3 DEF Start
  <2> HIDE DEF th
  <2> QED
    BY <1>2, <1>3, <2>1 DEF SendsOnly
<1>4. ASSUME NEW t \in Threads, thread' = [thread EXCEPT ![t] = Idle]
      PROVE  FlushesSendOnly'
  <2>1. SendsOnly(Idle)
    BY DEF Idle, SendsOnly
  <2> QED
    BY <1>2, <1>4, <2>1
<1>5. ASSUME NEW t \in Threads, thread' = [thread EXCEPT ![t].todo = Tail(@)],
             thread[t].todo # <<>>
      PROVE  FlushesSendOnly'
  <2>1. thread[t].todo \in Seq(FlowMessage \cup {Log}) /\ SendsOnly(thread[t])
    BY <1>0 DEF ThreadType, FlushesSendOnly
  <2> DEFINE th == [thread[t] EXCEPT !.todo = Tail(@)]
  <2>2. /\ thread' = [thread EXCEPT ![t] = th]
        /\ th.todo = Tail(thread[t].todo) /\ th.at = thread[t].at
    BY <1>0, <1>5 DEF ThreadType
  <2>3. /\ Len(Tail(thread[t].todo)) = Len(thread[t].todo) - 1
        /\ Len(thread[t].todo) \in Nat
        /\ \A i \in 1..Len(Tail(thread[t].todo)) :
             Tail(thread[t].todo)[i] = thread[t].todo[i + 1]
    BY <1>5, <2>1, TailType
  <2>4. \A i \in 1..Len(Tail(thread[t].todo)) : i + 1 \in 1..Len(thread[t].todo)
    BY <2>3
  <2> HIDE DEF th
  <2>5. SendsOnly(th)
    BY <2>1, <2>2, <2>3, <2>4 DEF SendsOnly
  <2> QED
    BY <1>2, <2>2, <2>5
<1>6. ASSUME NEW t \in Threads, Proceed(t) \/ ClientActs(t)
      PROVE  FlushesSendOnly'
  <2>1. CASE SendResume(t)
    <3>1. waiters # <<>> /\ t = Head(waiters) /\ waiters \in Seq(Threads) /\ WaitersOK
      BY <2>1 DEF SendResume, TypeInv, TypeOK
    <3>2. 1 \in 1..Len(waiters) /\ waiters[1] = t
      BY <3>1, TailType
    <3>3. thread[t].todo # <<>>
      BY <3>1, <3>2 DEF WaitersOK
    <3> QED
      BY <1>5, <2>1, <3>3 DEF SendResume
  <2>2. CASE SendDiscard(t) \/ SendNow(t) \/ LogEvent(t) \/ LogResumes(t)
    BY <1>5, <2>2 DEF SendDiscard, SendNow, LogEvent, LogResumes, AtLog
  <2>3. CASE SendBlock(t) \/ LogWaits(t) \/ WakeUp(t)
    BY <1>1, <2>3 DEF SendBlock, LogWaits, WakeUp
  <2>4. CASE HandlerEnds(t) \/ LogRaises(t)
    BY <1>4, <2>4 DEF HandlerEnds, LogRaises, Return
  <2> QED
    BY <1>6, <2>1, <2>2, <2>3, <2>4 DEF Proceed, ClientActs
<1>7. CASE SendLoop \/ Environment \/ UNCHANGED vars
  <2>1. CASE LoseConnection
    <3>1. \A u \in Threads : thread'[u].todo = thread[u].todo /\ thread'[u].at = thread[u].at
      BY <1>0, <2>1 DEF LoseConnection, ThreadType
    <3> QED
      BY <1>1, <3>1
  <2>2. CASE thread' = thread
    BY <1>1, <2>2
  <2> QED
    BY <1>7, <2>1, <2>2 DEF Environment, SendLoop, PacketIn, FlowExpires, Connect,
                            Disconnect, SwitchCrash, threadVars, vars
\* The event loop never flushes.
<1>8. CASE HandleEvent \/ LoopContinues
  <2>1. \A u \in RestThreads : thread'[u] = thread[u]
    <3> DEFINE Rest == \A u \in RestThreads : thread'[u] = thread[u]
    <3>1. ASSUME NEW th, thread' = [thread EXCEPT ![LOOP] = th]
          PROVE  Rest
      BY <1>0, <3>1, ThreadFacts
    <3>2. ASSUME NEW at, NEW todo, NEW live, NEW arg, Start(LOOP, at, todo, live, arg)
          PROVE  Rest
      BY <3>1, <3>2 DEF Start
    <3>3. CASE IgnorePacket \/ DropPacket
      BY <3>3 DEF IgnorePacket, DropPacket, threadVars
    <3>4. CASE RateLimitPacket \/ DpiBlockPacket \/ ArpSpoofPacket \/ SwitchHandshake
      BY <3>2, <3>4 DEF RateLimitPacket, DpiBlockPacket, ArpSpoofPacket, SwitchHandshake
    <3>5. CASE AllowPacket \/ AllowArp
      BY <3>2, <3>5 DEF AllowPacket, AllowArp
    <3>6. CASE LoopContinues
      BY <1>0, <3>6, ThreadFacts
         DEF LoopContinues, LearnDropped, RecordTrust, MarkInstalled, Return
    <3> QED
      BY <1>8, <3>3, <3>4, <3>5, <3>6 DEF HandleEvent
  <2>2. thread'[LOOP].at \notin FlushLabels
    BY <1>0 DEF TypeInv, TypeOK, HandlerOK, LoopLabels, FlushLabels
  <2> QED
    BY <2>1, <2>2 DEF FlushesSendOnly, SendsOnly, Threads
<1>9. ASSUME NEW t \in RestThreads, Request(t) \/ RequestContinues(t)
      PROVE  FlushesSendOnly'
  <2>0. t \in Threads /\ t # LOOP
    BY <1>0, ThreadFacts
  <2>1. ASSUME NEW r \in Requests, AddBlockedIp(t, r) \/ AddBlockedPort(t, r)
        PROVE  FlushesSendOnly'
    BY <1>3, <2>0, <2>1 DEF AddBlockedIp, AddBlockedPort, FlushLabels
  <2>2. ASSUME NEW r \in Requests,
               DelBlockedIp(t, r) \/ DelBlockedPort(t, r) \/ DelDpiPattern(t, r)
        PROVE  FlushesSendOnly'
    BY <1>1, <2>2 DEF DelBlockedIp, DelBlockedPort, DelDpiPattern, threadVars
  <2>3. ASSUME NEW r \in Requests, AddDpiPattern(t, r)
        PROVE  FlushesSendOnly'
    <3> DEFINE todo == ToSwitch(<<Delete(AllIpv4), Add(PuntFlow)>>)
    <3>1. \A i \in 1..Len(todo) : todo[i] # Log
      BY LogIsDistinct DEF ToSwitch
    <3>2. Start(t, "forget_all", todo, registered = "live", r)
      BY <2>3 DEF AddDpiPattern
    <3> HIDE DEF todo
    <3> QED
      BY <1>3, <2>0, <3>1, <3>2
  <2>4. CASE FlushIp(t)
    <3> DEFINE ip == thread[t].arg.ip
               todo == ToSwitch(<<Delete(FromIp(ip)), Delete(ToIp(ip))>>)
    <3>1. \A i \in 1..Len(todo) : todo[i] # Log
      BY LogIsDistinct DEF ToSwitch
    <3>2. Start(t, "forget_ip", todo, registered = "live", thread[t].arg)
      BY <2>4 DEF FlushIp
    <3> HIDE DEF todo
    <3> QED
      BY <1>3, <2>0, <3>1, <3>2
  <2>5. CASE FlushPort(t)
    <3> DEFINE r == thread[t].arg
               todo == ToSwitch(<<Delete(ToPort(r.port, r.proto))>>)
    <3>1. \A i \in 1..Len(todo) : todo[i] # Log
      BY LogIsDistinct DEF ToSwitch
    <3>2. Start(t, "forget_port", todo, registered = "live", r)
      BY <2>5 DEF FlushPort
    <3> HIDE DEF todo
    <3> QED
      BY <1>3, <2>0, <3>1, <3>2
  <2>6. ASSUME NEW S, Forget(t, S)
        PROVE  FlushesSendOnly'
    <3>1. /\ thread'[t] = Idle
          /\ \A u \in Threads \ {t} : /\ thread'[u].todo = thread[u].todo
                                      /\ thread'[u].at = thread[u].at
      BY <1>0, <2>0, <2>6 DEF Forget, ThreadType
    <3>2. \A u \in Threads : SendsOnly(thread'[u])
      BY <3>1 DEF Idle, FlushesSendOnly, SendsOnly, FlushLabels
    <3> QED
      BY <3>2 DEF FlushesSendOnly, SendsOnly
  <2> QED
    BY <1>9, <2>1, <2>2, <2>3, <2>4, <2>5, <2>6
       DEF Request, RequestContinues, ForgetIp, ForgetPort, ForgetAll
<1> QED
  BY <1>6, <1>7, <1>8, <1>9 DEF Next

LEMMA FlushesNeverLog == Spec => []FlushesSendOnly
<1>1. Init => FlushesSendOnly
  BY DEF Init, Idle, FlushesSendOnly, SendsOnly, FlushLabels
<1>2. TypeInv /\ TypeInv' /\ FlushesSendOnly /\ [Next]_vars => FlushesSendOnly'
  BY FlushesSendOnlyNext
<1> QED
  BY <1>1, <1>2, TypeInvariant, PTL DEF Spec

-----------------------------------------------------------------------------
(* What a packet does to the trust table.                                  *)

\* A TCP packet whose payload is taken belongs to a flow that is not blocked.
LEMMA NotYetBlocked ==
  ASSUME NEW f \in Traffic, f.eth_type = 2048, IsTcp(f),
         CheckIp(f, "ALLOWED") \in {"ALLOWED", "DPI_MATCH"}
  PROVE  ~trust_table[KeyOf(f)].blocked
<1>1. f.ip_proto = 6
  BY DEF IsTcp
<1>2. CheckTcpFlags(f.flags) = "ALLOWED"
      \/ CheckTcpFlags(f.flags) \notin {"ALLOWED", "DPI_MATCH"}
  BY DEF CheckTcpFlags
<1>3. CheckIp(f, "ALLOWED") = CheckDpi(f)
  BY <1>1, <1>2 DEF CheckIp
<1>4. CheckDpi(f) # "DPI_BLOCKED"
  BY <1>3
<1> QED
  BY <1>4 DEF CheckDpi

LEMMA InspectedKeeps ==
  ASSUME TypeInv, NEW f \in Traffic, NEW k \in Keys
  PROVE  /\ Inspected(f)[k].count = trust_table[k].count
         /\ Inspected(f)[k].installed = trust_table[k].installed
         /\ Inspected(f)[k].aborted = trust_table[k].aborted
         /\ k # KeyOf(f) \/ ~IsTcp(f) => Inspected(f)[k] = trust_table[k]
<1>1. trust_table \in [Keys -> Entry]
  BY DEF TypeInv, TypeOK
<1> DEFINE e == trust_table[KeyOf(f)]
           buf == Extend(Buffer(f), f.payload)
           a == [e EXCEPT !.buf_a = buf, !.blocked = @ \/ Inspect(buf)]
           b == [e EXCEPT !.buf_b = buf, !.blocked = @ \/ Inspect(buf)]
<1>2. KeyOf(f) \in Keys => /\ a.count = e.count /\ a.installed = e.installed
                           /\ b.count = e.count /\ b.installed = e.installed
                           /\ a.aborted = e.aborted /\ b.aborted = e.aborted
  BY <1>1 DEF Entry
<1>3. \/ Inspected(f) = trust_table
      \/ /\ Inspected(f) = [trust_table EXCEPT ![KeyOf(f)] = IF FromA(f) THEN a ELSE b]
         /\ IsTcp(f)
  BY DEF Inspected
<1> HIDE DEF a, b, e
<1> QED
  BY <1>1, <1>2, <1>3 DEF e

\* What any packet or handshake does to the rules, the threads and the table.
LEMMA EventKeeps ==
  ASSUME TypeInv, HandleEvent
  PROVE  /\ \A u \in RestThreads : SameHandler(u)
         /\ UNCHANGED ruleVars
         /\ thread[LOOP].at = "idle"
         /\ thread'[LOOP].at # "installed"
         /\ \/ trust_table' = trust_table
            \/ \E f \in Traffic : /\ f.eth_type = 2048
                                  /\ CheckIp(f, "ALLOWED") \in {"ALLOWED", "DPI_MATCH"}
                                  /\ trust_table' = Inspected(f)
<1> DEFINE Others == \A u \in RestThreads : thread'[u] = thread[u]
<1>0. /\ LOOP \in Threads /\ thread \in [Threads -> ThreadType]
      /\ \A u \in RestThreads : u \in Threads /\ u # LOOP
  BY ThreadFacts DEF TypeInv, TypeOK
<1>1. ASSUME NEW kind, TakeEvent(kind)
      PROVE  UNCHANGED ruleVars /\ thread[LOOP].at = "idle"
  BY <1>1 DEF TakeEvent, Busy
<1>2. ASSUME NEW at, NEW todo, NEW live, NEW arg, Start(LOOP, at, todo, live, arg),
             at # "installed"
      PROVE  Others /\ thread'[LOOP].at # "installed"
  BY <1>0, <1>2 DEF Start
<1>3. Others => \A u \in RestThreads : SameHandler(u)
  BY DEF SameHandler
<1>4. CASE IgnorePacket \/ DropPacket
  <2>1. TakeEvent("packet") /\ thread' = thread /\ trust_table' = trust_table
    BY <1>4 DEF IgnorePacket, DropPacket, tableVars, threadVars
  <2> QED
    BY <1>1, <1>3, <2>1
<1>5. CASE RateLimitPacket
  <2>1. TakeEvent("packet") /\ trust_table' = trust_table
        /\ Start(LOOP, "drop", <<Add(RateLimitFlow(Head(events).frame))>>,
                 Head(events).live, Head(events).frame)
    BY <1>5 DEF RateLimitPacket, tableVars
  <2> QED
    BY <1>1, <1>2, <1>3, <2>1
<1>6. CASE DpiBlockPacket
  <2> DEFINE f == Head(events).frame
  <2>1. TakeEvent("packet") /\ trust_table' = Inspected(f) /\ f.eth_type = 2048
        /\ CheckIp(f, "ALLOWED") = "DPI_MATCH"
        /\ Start(LOOP, "drop", <<Log>>, Head(events).live, f)
    BY <1>6 DEF DpiBlockPacket
  <2>2. f \in Traffic
    BY <2>1, HeadEvent
  <2> QED
    BY <1>1, <1>2, <1>3, <2>1, <2>2
<1>7. CASE AllowPacket
  <2> DEFINE f == Head(events).frame
             at == IF Learn(f)[f.eth_dst] # UNKNOWN /\ HasPorts(f) THEN "trust" ELSE "end"
  <2>1. TakeEvent("packet") /\ trust_table' = Inspected(f) /\ f.eth_type = 2048
        /\ CheckIp(f, "ALLOWED") = "ALLOWED"
        /\ Start(LOOP, at, <<PacketOut>>, Head(events).live, f)
    BY <1>7 DEF AllowPacket
  <2>2. f \in Traffic /\ at # "installed"
    BY <2>1, HeadEvent
  <2> HIDE DEF at
  <2> QED
    BY <1>1, <1>2, <1>3, <2>1, <2>2
<1>8. CASE ArpSpoofPacket
  <2>1. TakeEvent("packet") /\ trust_table' = trust_table
        /\ Start(LOOP, "drop", <<Add(ArpSpoofFlow(Head(events).frame))>>,
                 Head(events).live, Head(events).frame)
    BY <1>8 DEF ArpSpoofPacket, tableVars
  <2> QED
    BY <1>1, <1>2, <1>3, <2>1
<1>9. CASE AllowArp
  <2>1. TakeEvent("packet") /\ trust_table' = trust_table
    BY <1>9 DEF AllowArp
  <2>2. Others /\ thread'[LOOP].at # "installed"
    BY <1>0, <1>9 DEF AllowArp, Start
  <2> QED
    BY <1>1, <1>3, <2>1, <2>2
<1>10. CASE SwitchHandshake
  <2>1. TakeEvent("features") /\ trust_table' = trust_table
        /\ Start(LOOP, "end", <<Add(MissFlow), Add(PuntFlow)>>, Head(events).live, NoArg)
    BY <1>10 DEF SwitchHandshake
  <2> QED
    BY <1>1, <1>2, <1>3, <2>1
<1> QED
  BY <1>4, <1>5, <1>6, <1>7, <1>8, <1>9, <1>10 DEF HandleEvent

-----------------------------------------------------------------------------
(* Trust accounting.                                                       *)

LEMMA TrustAccountingNext ==
  ASSUME TypeInv, TrustAccounting, [Next]_vars
  PROVE  TrustAccounting'
<1> USE DEF TypeInv
<1>0. /\ LOOP \in Threads /\ thread \in [Threads -> ThreadType]
      /\ HandlerOK(LOOP, thread[LOOP])
      /\ trust_table \in [Keys -> Entry]
      /\ TRUST_K \in Nat /\ TRUST_K # 0
  BY ThreadFacts, BoundsAssumption DEF TypeOK
\* The table stays and the event loop keeps its handler, or has none that
\* installs.
<1>1. ASSUME trust_table' = trust_table,
             \/ SameHandler(LOOP)
             \/ thread[LOOP].at # "installed" /\ thread'[LOOP].at # "installed"
      PROVE  TrustAccounting'
  BY <1>1 DEF TrustAccounting, Installing, SameHandler
<1>2. ASSUME NEW t \in Threads, Proceed(t)
      PROVE  TrustAccounting'
  BY <1>0, <1>1, <1>2, ProceedKeeps DEF Idle, tableVars
<1>3. CASE SendLoop \/ Environment
  BY <1>0, <1>1, <1>3, SwitchKeeps DEF tableVars
<1>4. ASSUME NEW t \in RestThreads, Request(t)
      PROVE  TrustAccounting'
  BY <1>0, <1>1, <1>4, RequestKeeps, ThreadFacts DEF tableVars
<1>5. ASSUME NEW t \in RestThreads, FlushIp(t) \/ FlushPort(t)
      PROVE  TrustAccounting'
  BY <1>0, <1>1, <1>5, FlushKeeps, ThreadFacts DEF tableVars
<1>6. ASSUME NEW t \in RestThreads, NEW S, Forget(t, S)
      PROVE  TrustAccounting'
  <2>1. ASSUME NEW k \in Keys
        PROVE  /\ trust_table'[k] = IF k \in S THEN FreshEntry ELSE trust_table[k]
               /\ Installing(k)' <=> Installing(k) /\ k \notin S
    <3>1. /\ thread'[LOOP].at = thread[LOOP].at
          /\ thread'[LOOP].arg = thread[LOOP].arg
          /\ thread'[LOOP].attached =
               (thread[LOOP].attached /\ KeyOf(thread[LOOP].arg) \notin S)
          /\ trust_table'[k] = IF k \in S THEN FreshEntry ELSE trust_table[k]
      BY <1>6, ForgetKeeps
    <3> QED
      BY <3>1 DEF Installing
  <2> QED
    BY <1>0, <2>1 DEF TrustAccounting, FreshEntry
<1>7. CASE HandleEvent
  <2>1. thread[LOOP].at # "installed" /\ thread'[LOOP].at # "installed"
    BY <1>7, EventKeeps
  <2>2. ASSUME NEW k \in Keys
        PROVE  /\ trust_table'[k].count = trust_table[k].count
               /\ trust_table'[k].installed = trust_table[k].installed
               /\ trust_table'[k].aborted = trust_table[k].aborted
    <3>1. CASE trust_table' = trust_table
      BY <3>1
    <3>2. CASE trust_table' # trust_table
      <4>1. PICK f \in Traffic : trust_table' = Inspected(f)
        BY <1>7, <3>2, EventKeeps
      <4> QED
        BY <4>1, InspectedKeeps
    <3> QED
      BY <3>1, <3>2
  <2> QED
    BY <2>1, <2>2 DEF TrustAccounting, Installing
<1>8. CASE LearnDropped
  BY <1>0, <1>1, <1>8 DEF LearnDropped, Reached, Return, Idle
<1>9. CASE RecordTrust
  <2> DEFINE k == KeyOf(thread[LOOP].arg)
             e == trust_table[k]
  <2>1. thread[LOOP].at = "trust" /\ thread[LOOP].arg \in Flows5
    BY <1>0, <1>9 DEF RecordTrust, Reached, HandlerOK
  <2>2. k \in Keys
    BY <2>1, KeyInKeys DEF Flows5
  <2>3. \A x \in Keys : ~Installing(x)
    BY <2>1 DEF Installing
  <2>4. CASE e.installed
    <3>1. trust_table' = trust_table /\ thread'[LOOP] = Idle
      BY <1>0, <1>9, <2>4 DEF RecordTrust, Return
    <3> QED
      BY <1>1, <2>1, <3>1 DEF Idle
  <2>5. CASE ~e.installed
    <3>1. /\ e.count \in Nat /\ e.aborted \in Nat
          /\ e.count <= TRUST_K + e.aborted
          /\ e.count # TRUST_K + e.aborted
          /\ e.aborted > 0 => e.count >= TRUST_K + e.aborted - 1
      BY <1>0, <2>2, <2>3, <2>5 DEF TrustAccounting, Entry
    <3>2. trust_table' = [trust_table EXCEPT ![k].count = @ + 1]
      BY <1>9, <2>5 DEF RecordTrust
    <3>3. /\ trust_table'[k].count = e.count + 1
          /\ trust_table'[k].installed = e.installed
          /\ trust_table'[k].aborted = e.aborted
          /\ \A x \in Keys \ {k} : trust_table'[x] = trust_table[x]
      BY <1>0, <2>2, <3>2 DEF Entry
    <3>4. PICK c \in Nat, n \in Nat : c = e.count /\ n = e.aborted
      BY <3>1
    <3> HIDE DEF e
    <3>5. CASE c + 1 < TRUST_K
      <4>1. thread'[LOOP].at = "idle"
        BY <1>0, <1>9, <3>4, <3>5 DEF RecordTrust, Return, Idle, e
      <4>2. \A x \in Keys : ~Installing(x)'
        BY <4>1 DEF Installing
      <4>3. n = 0 /\ c + 1 < TRUST_K + n
        BY <1>0, <3>1, <3>4, <3>5
      <4> QED
        BY <1>0, <2>2, <2>3, <2>5, <3>3, <3>4, <4>2, <4>3 DEF TrustAccounting
    <3>6. CASE ~(c + 1 < TRUST_K)
      <4>1. /\ thread'[LOOP].at = "installed"
            /\ thread'[LOOP].attached
            /\ thread'[LOOP].arg = thread[LOOP].arg
        <5>1. ~(e.installed \/ e.count + 1 < TRUST_K)
          BY <1>0, <2>5, <3>4, <3>6
        <5> QED
          BY <1>0, <1>9, <5>1 DEF RecordTrust, ThreadType, e
      <4>2. \A x \in Keys : Installing(x)' <=> x = k
        BY <4>1 DEF Installing
      <4>3. c + 1 = TRUST_K + n
        BY <1>0, <3>1, <3>4, <3>6
      <4> QED
        BY <1>0, <2>2, <2>3, <2>5, <3>3, <3>4, <4>2, <4>3 DEF TrustAccounting
    <3> QED
      BY <3>5, <3>6
  <2> QED
    BY <2>4, <2>5
<1>10. CASE MarkInstalled
  <2> DEFINE k == KeyOf(thread[LOOP].arg)
  <2>1. thread[LOOP].at = "installed" /\ thread[LOOP].arg \in Flows5
        /\ thread'[LOOP].at = "idle"
    BY <1>0, <1>10 DEF MarkInstalled, Reached, HandlerOK, Return, Idle
  <2>2. k \in Keys
    BY <2>1, KeyInKeys DEF Flows5
  <2>3. \A x \in Keys : ~Installing(x)'
    BY <2>1 DEF Installing
  <2>4. CASE thread[LOOP].attached
    <3>1. \A x \in Keys : Installing(x) <=> x = k
      BY <2>1, <2>4 DEF Installing
    <3>2. /\ trust_table'[k].count = trust_table[k].count
          /\ trust_table'[k].aborted = trust_table[k].aborted
          /\ trust_table'[k].installed
          /\ \A x \in Keys \ {k} : trust_table'[x] = trust_table[x]
      BY <1>0, <1>10, <2>2, <2>4 DEF MarkInstalled, Entry
    <3> QED
      BY <2>2, <2>3, <3>1, <3>2 DEF TrustAccounting
  <2>5. CASE ~thread[LOOP].attached
    <3>1. \A x \in Keys : ~Installing(x)
      BY <2>5 DEF Installing
    <3>2. trust_table' = trust_table
      BY <1>10, <2>5 DEF MarkInstalled
    <3> QED
      BY <2>3, <3>1, <3>2 DEF TrustAccounting
  <2> QED
    BY <2>4, <2>5
<1>11. CASE UNCHANGED vars
  BY <1>1, <1>11 DEF vars, tableVars, threadVars, SameHandler
\* An exception in the log call of _install_trust_flow leaves an entry that is
\* not marked and is one packet short of its next attempt.
<1>12. ASSUME NEW t \in Threads, ClientActs(t)
       PROVE  TrustAccounting'
  <2>1. CASE LogRaises(t) /\ t = LOOP /\ thread[LOOP].at = "installed"
             /\ thread[LOOP].attached
    <3> DEFINE k == KeyOf(thread[LOOP].arg)
    <3>1. k \in Keys
      BY <1>0, <2>1, KeyInKeys DEF HandlerOK, Flows5
    <3>2. /\ trust_table' = [trust_table EXCEPT ![k].aborted = @ + 1]
          /\ thread'[LOOP].at = "idle"
      BY <1>0, <2>1 DEF LogRaises, Return, Idle
    <3>3. /\ trust_table'[k].count = trust_table[k].count
          /\ trust_table'[k].installed = trust_table[k].installed
          /\ trust_table'[k].aborted = trust_table[k].aborted + 1
          /\ \A x \in Keys \ {k} : trust_table'[x] = trust_table[x]
      BY <1>0, <3>1, <3>2 DEF Entry
    <3>4. (\A x \in Keys : ~Installing(x)') /\ \A x \in Keys : Installing(x) <=> x = k
      BY <2>1, <3>2 DEF Installing
    <3>5. /\ trust_table[k].count = TRUST_K + trust_table[k].aborted
          /\ trust_table[k].count \in Nat /\ trust_table[k].aborted \in Nat
      BY <1>0, <3>1, <3>4 DEF TrustAccounting, Entry
    <3>6. ~trust_table[k].installed
      BY <3>1, <3>4 DEF TrustAccounting
    <3> QED
      BY <1>0, <3>1, <3>3, <3>4, <3>5, <3>6 DEF TrustAccounting
  <2>2. CASE ~(LogRaises(t) /\ t = LOOP /\ thread[LOOP].at = "installed"
               /\ thread[LOOP].attached)
    <3>1. t = LOOP \/ thread[t].at # "installed"
      BY ThreadFacts DEF TypeOK, HandlerOK, RestLabels
    <3>2. trust_table' = trust_table
      BY <1>12, <2>2, <3>1, ClientKeeps DEF LogRaises
    <3>3. \/ SameHandler(LOOP)
          \/ /\ thread'[LOOP].at # "installed"
             /\ thread[LOOP].at # "installed" \/ ~thread[LOOP].attached
      BY <1>0, <1>12, <2>2, ClientKeeps DEF Idle
    <3> QED
      BY <1>1, <3>2, <3>3 DEF TrustAccounting, Installing
  <2> QED
    BY <2>1, <2>2
<1> QED
  BY <1>2, <1>3, <1>4, <1>5, <1>6, <1>7, <1>8, <1>9, <1>10, <1>11, <1>12
     DEF Next, LoopContinues, RequestContinues, ForgetIp, ForgetPort, ForgetAll

(* _record_trust counts to K and one packet further for each installation  *)
(* that a raising _log has cut short, and exactly the flows that have got  *)
(* there are marked installed or about to be, whatever flushes and         *)
(* exceptions come between the sends of _install_trust_flow.               *)
THEOREM TrustAccounted == Spec => []TrustAccounting
<1>1. Init => TrustAccounting
  <2> SUFFICES ASSUME Init PROVE TrustAccounting
    OBVIOUS
  <2>1. thread[LOOP].at = "idle"
    BY ThreadFacts DEF Init, Idle
  <2>2. \A k \in Keys : trust_table[k] = FreshEntry
    BY DEF Init
  <2> QED
    BY <2>1, <2>2, BoundsAssumption DEF TrustAccounting, Installing, FreshEntry
<1>2. TypeInv /\ TrustAccounting /\ [Next]_vars => TrustAccounting'
  BY TrustAccountingNext
<1> QED
  BY <1>1, <1>2, TypeInvariant, PTL DEF Spec

-----------------------------------------------------------------------------
(* Inspection.                                                             *)

\* The buffers of entry e hold nothing that a pattern of P matches.
CleanEntry(e, P) == ~e.blocked => \A p \in P : ~Hit(p, e.buf_a) /\ ~Hit(p, e.buf_b)

LEMMA BlockedField ==
  ASSUME NEW e \in Entry, NEW buf
  PROVE  /\ [e EXCEPT !.buf_a = buf, !.blocked = @ \/ Inspect(buf)].blocked
              <=> e.blocked \/ Inspect(buf)
         /\ [e EXCEPT !.buf_b = buf, !.blocked = @ \/ Inspect(buf)].blocked
              <=> e.blocked \/ Inspect(buf)
BY DEF Entry

LEMMA InspectedClean ==
  ASSUME TypeInv, NEW f \in Traffic, f.eth_type = 2048,
         CheckIp(f, "ALLOWED") \in {"ALLOWED", "DPI_MATCH"},
         NEW k \in Keys, NEW P \in SUBSET patterns, CleanEntry(trust_table[k], P)
  PROVE  CleanEntry(Inspected(f)[k], P)
<1>0. CASE f.payload = <<>>
  BY <1>0 DEF Inspected
<1>1. CASE k # KeyOf(f) \/ ~IsTcp(f)
  BY <1>1, InspectedKeeps
<1>2. CASE k = KeyOf(f) /\ IsTcp(f) /\ f.payload # <<>>
  <2> DEFINE e == trust_table[k]
             buf == Extend(Buffer(f), f.payload)
             a == [e EXCEPT !.buf_a = buf, !.blocked = @ \/ Inspect(buf)]
             b == [e EXCEPT !.buf_b = buf, !.blocked = @ \/ Inspect(buf)]
  <2>1. trust_table \in [Keys -> Entry] /\ e \in Entry
    BY DEF TypeInv, TypeOK
  <2>2. ~e.blocked
    BY <1>2, NotYetBlocked
  <2>3. ~Inspect(buf) => \A p \in P : ~Hit(p, buf)
    BY DEF Inspect, Hit
  <2>4. Inspected(f)[k] = IF FromA(f) THEN a ELSE b
    BY <1>2, <2>1 DEF Inspected
  <2> HIDE DEF buf
  <2>5. /\ a.buf_a = buf /\ a.buf_b = e.buf_b
        /\ b.buf_b = buf /\ b.buf_a = e.buf_a
    BY <2>1 DEF Entry
  <2>6. (a.blocked <=> e.blocked \/ Inspect(buf)) /\ (b.blocked <=> e.blocked \/ Inspect(buf))
    BY <2>1, BlockedField
  <2> HIDE DEF e, a, b
  <2>7. CleanEntry(a, P) /\ CleanEntry(b, P)
    BY <2>2, <2>3, <2>5, <2>6 DEF CleanEntry, e
  <2> QED
    BY <2>4, <2>7
<1> QED
  BY <1>0, <1>1, <1>2

LEMMA CleanBuffersNext ==
  ASSUME TypeInv, FlushesSendOnly, CleanBuffers, [Next]_vars
  PROVE  CleanBuffers'
<1> USE DEF TypeInv
<1> DEFINE P == patterns \ Flushing
<1>0. /\ LOOP \in Threads /\ thread \in [Threads -> ThreadType]
      /\ \A u \in RestThreads : u \in Threads /\ u # LOOP
      /\ trust_table \in [Keys -> Entry]
  BY ThreadFacts DEF TypeOK
<1>1. \A k \in Keys : CleanEntry(trust_table[k], P)
  BY DEF CleanBuffers, CleanEntry
<1>2. (\A k \in Keys : CleanEntry(trust_table[k], P)') => CleanBuffers'
  BY DEF CleanBuffers, CleanEntry
<1> HIDE DEF P
\* No pattern comes into force and no entry gets new bytes.
<1>3. ASSUME P' \subseteq P,
             \A k \in Keys : /\ trust_table'[k].blocked = trust_table[k].blocked
                             /\ trust_table'[k].buf_a = trust_table[k].buf_a
                             /\ trust_table'[k].buf_b = trust_table[k].buf_b
      PROVE  CleanBuffers'
  BY <1>1, <1>2, <1>3 DEF CleanEntry
<1>4. ASSUME patterns' = patterns,
             \A u \in RestThreads : thread[u].at = "forget_all" =>
               thread'[u].at = thread[u].at /\ thread'[u].arg = thread[u].arg
      PROVE  P' \subseteq P
  BY <1>4 DEF P, Flushing
<1>5. ASSUME NEW t \in Threads, Proceed(t)
      PROVE  CleanBuffers'
  <2>1. /\ patterns' = patterns /\ trust_table' = trust_table
        /\ \A u \in RestThreads : thread[u].at = "forget_all" => SameHandler(u)
    BY <1>0, <1>5, ProceedKeeps DEF tableVars, ruleVars
  <2> QED
    BY <1>3, <1>4, <2>1 DEF SameHandler
<1>6. CASE SendLoop \/ Environment
  <2>1. /\ patterns' = patterns /\ trust_table' = trust_table
        /\ \A u \in RestThreads : SameHandler(u)
    BY <1>0, <1>6, SwitchKeeps DEF tableVars, ruleVars
  <2> QED
    BY <1>3, <1>4, <2>1 DEF SameHandler
<1>7. ASSUME NEW t \in RestThreads, Request(t)
      PROVE  CleanBuffers'
  <2>1. trust_table' = trust_table /\ \A u \in RestThreads \ {t} : SameHandler(u)
    BY <1>0, <1>7, RequestKeeps DEF tableVars
  <2>2. PICK r \in Requests : \/ AddBlockedIp(t, r)   \/ DelBlockedIp(t, r)
                              \/ AddBlockedPort(t, r) \/ DelBlockedPort(t, r)
                              \/ AddDpiPattern(t, r)  \/ DelDpiPattern(t, r)
    BY <1>7 DEF Request
  <2>3. thread[t].at = "idle"
    BY <2>2 DEF AddBlockedIp, DelBlockedIp, AddBlockedPort, DelBlockedPort,
                AddDpiPattern, DelDpiPattern, TakeRequest, Busy
  <2>4. Flushing \subseteq Flushing'
    BY <2>1, <2>3 DEF Flushing, SameHandler
  <2>5. CASE AddDpiPattern(t, r)
    <3>1. patterns' = patterns \cup {r.pattern} /\ thread'[t].at = "forget_all"
          /\ thread'[t].arg = r
      BY <1>0, <2>5 DEF AddDpiPattern, Start
    <3>2. r.pattern \in Flushing'
      BY <3>1 DEF Flushing
    <3>3. P' \subseteq P
      BY <2>4, <3>1, <3>2 DEF P
    <3> QED
      BY <1>3, <2>1, <3>3
  <2>6. CASE ~AddDpiPattern(t, r)
    <3>1. patterns' \subseteq patterns
      BY <2>2, <2>6 DEF AddBlockedIp, DelBlockedIp, AddBlockedPort, DelBlockedPort,
                        DelDpiPattern
    <3>2. P' \subseteq P
      BY <2>4, <3>1 DEF P
    <3> QED
      BY <1>3, <2>1, <3>2
  <2> QED
    BY <2>5, <2>6
<1>8. ASSUME NEW t \in RestThreads, FlushIp(t) \/ FlushPort(t)
      PROVE  CleanBuffers'
  <2>1. /\ patterns' = patterns /\ trust_table' = trust_table
        /\ \A u \in RestThreads : thread[u].at = "forget_all" => SameHandler(u)
    BY <1>0, <1>8, FlushKeeps DEF tableVars, ruleVars
  <2> QED
    BY <1>3, <1>4, <2>1 DEF SameHandler
<1>9. ASSUME NEW t \in RestThreads, ForgetIp(t) \/ ForgetPort(t)
      PROVE  CleanBuffers'
  <2>1. PICK S : Forget(t, S)
    BY <1>9 DEF ForgetIp, ForgetPort
  <2>2. thread[t].at # "forget_all"
    BY <1>9 DEF ForgetIp, ForgetPort, Reached
  <2>3. /\ patterns' = patterns
        /\ \A u \in RestThreads : thread[u].at = "forget_all" => SameHandler(u)
        /\ \A k \in Keys : trust_table'[k] \in {FreshEntry, trust_table[k]}
    BY <1>0, <2>1, <2>2, ForgetKeeps DEF ruleVars
  <2>4. P' \subseteq P
    BY <1>4, <2>3 DEF SameHandler
  <2> QED
    BY <1>1, <1>2, <2>3, <2>4 DEF CleanEntry, FreshEntry, Hit
<1>10. ASSUME NEW t \in RestThreads, ForgetAll(t)
       PROVE  CleanBuffers'
  <2>1. \A k \in Keys : trust_table'[k] = FreshEntry
    BY <1>10, ForgetKeeps DEF ForgetAll
  <2> QED
    BY <1>2, <2>1 DEF CleanEntry, FreshEntry, Hit
<1>11. CASE HandleEvent
  <2>1. patterns' = patterns /\ \A u \in RestThreads : SameHandler(u)
    BY <1>11, EventKeeps DEF ruleVars
  <2>2. P' \subseteq P /\ P \subseteq patterns
    BY <1>4, <2>1 DEF SameHandler, P
  <2>3. CASE trust_table' = trust_table
    BY <1>3, <2>2, <2>3
  <2>4. CASE trust_table' # trust_table
    <3>1. PICK f \in Traffic : /\ f.eth_type = 2048
                               /\ CheckIp(f, "ALLOWED") \in {"ALLOWED", "DPI_MATCH"}
                               /\ trust_table' = Inspected(f)
      BY <1>11, <2>4, EventKeeps
    <3>2. \A k \in Keys : CleanEntry(trust_table'[k], P)
      BY <1>1, <2>2, <3>1, InspectedClean
    <3> QED
      BY <1>2, <2>2, <3>2 DEF CleanEntry
  <2> QED
    BY <2>3, <2>4
<1>12. CASE LoopContinues
  <2> DEFINE k == KeyOf(thread[LOOP].arg)
  <2>1. /\ \/ trust_table' = trust_table
           \/ trust_table' = [trust_table EXCEPT ![k].count = @ + 1]
           \/ trust_table' = [trust_table EXCEPT ![k].installed = TRUE]
        /\ patterns' = patterns
    BY <1>12 DEF LoopContinues, LearnDropped, RecordTrust, MarkInstalled, ruleVars
  <2>2. ASSUME NEW x \in Keys
        PROVE  /\ trust_table'[x].blocked = trust_table[x].blocked
               /\ trust_table'[x].buf_a = trust_table[x].buf_a
               /\ trust_table'[x].buf_b = trust_table[x].buf_b
    <3>0. trust_table[x] \in Entry
      BY <1>0
    <3>1. \/ trust_table'[x] = trust_table[x]
          \/ trust_table'[x] = [trust_table[x] EXCEPT !.count = @ + 1]
          \/ trust_table'[x] = [trust_table[x] EXCEPT !.installed = TRUE]
      BY <1>0, <2>1
    <3> QED
      BY <3>0, <3>1 DEF Entry
  <2>3. \A u \in RestThreads : thread'[u] = thread[u]
    BY <1>0, <1>12 DEF LoopContinues, LearnDropped, RecordTrust, MarkInstalled, Return
  <2> QED
    BY <1>3, <1>4, <2>1, <2>2, <2>3
<1>13. CASE UNCHANGED vars
  BY <1>3, <1>4, <1>13 DEF vars, ruleVars, tableVars, threadVars
\* An exception of _log ends no flush.
<1>14. ASSUME NEW t \in Threads, ClientActs(t)
       PROVE  CleanBuffers'
  <2>1. AtLog(t) /\ thread[t].todo \in Seq(FlowMessage \cup {Log})
    BY <1>0, <1>14 DEF ClientActs, LogResumes, LogRaises, ThreadType
  <2>2. 1 \in 1..Len(thread[t].todo) /\ thread[t].todo[1] = Log
    BY <2>1, TailType DEF AtLog
  <2>3. thread[t].at # "forget_all"
    BY <2>2 DEF FlushesSendOnly, SendsOnly, FlushLabels
  <2>4. /\ patterns' = patterns
        /\ \A u \in RestThreads : thread[u].at = "forget_all" => SameHandler(u)
    BY <1>0, <1>14, <2>3, ClientKeeps DEF ruleVars
  <2>5. P' \subseteq P
    BY <1>4, <2>4 DEF SameHandler
  <2>6. \/ trust_table' = trust_table
        \/ trust_table' = [trust_table EXCEPT ![KeyOf(thread[t].arg)].aborted = @ + 1]
    BY <1>14 DEF ClientActs, LogResumes, LogRaises, tableVars
  <2>7. ASSUME NEW k \in Keys
        PROVE  /\ trust_table'[k].blocked = trust_table[k].blocked
               /\ trust_table'[k].buf_a = trust_table[k].buf_a
               /\ trust_table'[k].buf_b = trust_table[k].buf_b
    <3>0. trust_table[k] \in Entry
      BY <1>0
    <3>1. \/ trust_table'[k] = trust_table[k]
          \/ trust_table'[k] = [trust_table[k] EXCEPT !.aborted = @ + 1]
      BY <1>0, <2>6
    <3> QED
      BY <3>0, <3>1 DEF Entry
  <2> QED
    BY <1>3, <2>5, <2>7
<1> QED
  BY <1>5, <1>6, <1>7, <1>8, <1>9, <1>10, <1>11, <1>12, <1>13, <1>14
     DEF Next, RequestContinues

(* A flow that _check_dpi lets pass has nothing in its buffers that a      *)
(* pattern in force matches, except a pattern still being flushed.         *)
THEOREM BuffersClean == Spec => []CleanBuffers
<1>1. Init => CleanBuffers
  BY DEF Init, CleanBuffers, FreshEntry, Hit
<1>2. TypeInv /\ FlushesSendOnly /\ CleanBuffers /\ [Next]_vars => CleanBuffers'
  BY CleanBuffersNext
<1> QED
  BY <1>1, <1>2, TypeInvariant, FlushesNeverLog, PTL DEF Spec

-----------------------------------------------------------------------------
(* A blocked flow earns nothing.                                           *)

\* The flow the event loop works on, from the verdict to the mark, is not
\* blocked, and only TCP flows ever are.
EarnsUnblocked ==
  /\ \A k \in Keys : trust_table[k].blocked => k[1] = 6
  /\ thread[LOOP].at = "trust" => ~trust_table[KeyOf(thread[LOOP].arg)].blocked
  /\ thread[LOOP].at = "installed" /\ thread[LOOP].attached =>
       ~trust_table[KeyOf(thread[LOOP].arg)].blocked

\* A step leaves the entry of k alone or replaces it, unless the flow is not
\* blocked.
EntryKept(k) == trust_table[k].blocked => trust_table'[k] \in {trust_table[k], FreshEntry}

LEMMA InspectedBlocks ==
  ASSUME TypeInv, NEW f \in Traffic, NEW k \in Keys, Inspected(f)[k].blocked
  PROVE  \/ trust_table[k].blocked
         \/ /\ k = KeyOf(f) /\ IsTcp(f) /\ f.payload # <<>>
            /\ Inspect(Extend(Buffer(f), f.payload))
<1>1. CASE k # KeyOf(f) \/ ~IsTcp(f) \/ f.payload = <<>>
  BY <1>1, InspectedKeeps DEF Inspected
<1>2. CASE k = KeyOf(f) /\ IsTcp(f) /\ f.payload # <<>>
  <2> DEFINE e == trust_table[k]
             buf == Extend(Buffer(f), f.payload)
             a == [e EXCEPT !.buf_a = buf, !.blocked = @ \/ Inspect(buf)]
             b == [e EXCEPT !.buf_b = buf, !.blocked = @ \/ Inspect(buf)]
  <2>1. trust_table \in [Keys -> Entry] /\ e \in Entry
    BY DEF TypeInv, TypeOK
  <2>2. Inspected(f)[k] = IF FromA(f) THEN a ELSE b
    BY <1>2, <2>1 DEF Inspected
  <2> HIDE DEF buf
  <2>3. (a.blocked <=> e.blocked \/ Inspect(buf)) /\ (b.blocked <=> e.blocked \/ Inspect(buf))
    BY <2>1, BlockedField
  <2> HIDE DEF e, a, b
  <2>4. e.blocked \/ Inspect(buf)
    BY <2>2, <2>3
  <2> QED
    BY <1>2, <2>4 DEF e, buf
<1> QED
  BY <1>1, <1>2

\* A packet that goes on to be counted was let through by every check.
LEMMA TrustStarts ==
  ASSUME TypeInv, HandleEvent, thread'[LOOP].at = "trust"
  PROVE  \E f \in Traffic : /\ f.eth_type = 2048 /\ HasPorts(f)
                            /\ CheckIp(f, "ALLOWED") = "ALLOWED"
                            /\ trust_table' = Inspected(f)
                            /\ thread'[LOOP].arg = f
<1>0. LOOP \in Threads /\ thread \in [Threads -> ThreadType]
  BY ThreadFacts DEF TypeInv, TypeOK
<1>1. ~(IgnorePacket \/ DropPacket)
  BY DEF IgnorePacket, DropPacket, TakeEvent, Busy, threadVars
<1>2. ~(RateLimitPacket \/ DpiBlockPacket \/ ArpSpoofPacket \/ AllowArp \/ SwitchHandshake)
  BY <1>0 DEF RateLimitPacket, DpiBlockPacket, ArpSpoofPacket, AllowArp,
              SwitchHandshake, Start
<1>3. AllowPacket
  BY <1>1, <1>2 DEF HandleEvent
<1> DEFINE f == Head(events).frame
           at == IF Learn(f)[f.eth_dst] # UNKNOWN /\ HasPorts(f) THEN "trust" ELSE "end"
<1>4. TakeEvent("packet") /\ trust_table' = Inspected(f) /\ f.eth_type = 2048
      /\ CheckIp(f, "ALLOWED") = "ALLOWED"
      /\ Start(LOOP, at, <<PacketOut>>, Head(events).live, f)
  BY <1>3 DEF AllowPacket
<1>5. thread'[LOOP].at = at /\ thread'[LOOP].arg = f
  BY <1>0, <1>4 DEF Start
<1>6. HasPorts(f) /\ f \in Traffic
  BY <1>4, <1>5, HeadEvent
<1> QED
  BY <1>4, <1>5, <1>6

LEMMA EarnsUnblockedNext ==
  ASSUME TypeInv, TypeInv', EarnsUnblocked, [Next]_vars
  PROVE  EarnsUnblocked' /\ \A k \in Keys : EntryKept(k)
<1> USE DEF TypeInv
<1> DEFINE Kept == \A k \in Keys : EntryKept(k)
           l == thread[LOOP]
<1>0. /\ LOOP \in Threads /\ thread \in [Threads -> ThreadType]
      /\ HandlerOK(LOOP, thread[LOOP])
      /\ trust_table \in [Keys -> Entry]
      /\ \A u \in RestThreads : u \in Threads /\ u # LOOP
  BY ThreadFacts DEF TypeOK
\* The table stays, and the event loop keeps its handler or ends it.
<1>1. ASSUME trust_table' = trust_table,
             SameHandler(LOOP) \/ thread'[LOOP].at \notin {"trust", "installed"}
      PROVE  EarnsUnblocked' /\ Kept
  BY <1>1 DEF EarnsUnblocked, EntryKept, SameHandler
<1>2. ASSUME NEW t \in Threads, Proceed(t)
      PROVE  EarnsUnblocked' /\ Kept
  BY <1>0, <1>1, <1>2, ProceedKeeps DEF Idle, tableVars
<1>3. CASE SendLoop \/ Environment
  BY <1>0, <1>1, <1>3, SwitchKeeps DEF tableVars
<1>4. ASSUME NEW t \in RestThreads, Request(t)
      PROVE  EarnsUnblocked' /\ Kept
  BY <1>0, <1>1, <1>4, RequestKeeps DEF tableVars
<1>5. ASSUME NEW t \in RestThreads, FlushIp(t) \/ FlushPort(t)
      PROVE  EarnsUnblocked' /\ Kept
  BY <1>0, <1>1, <1>5, FlushKeeps DEF tableVars
<1>6. ASSUME NEW t \in RestThreads, NEW S, Forget(t, S)
      PROVE  EarnsUnblocked' /\ Kept
  <2>0. /\ thread'[LOOP].at = l.at /\ thread'[LOOP].arg = l.arg
        /\ thread'[LOOP].attached = (l.attached /\ KeyOf(l.arg) \notin S)
        /\ trust_table' = [k \in Keys |-> IF k \in S THEN FreshEntry ELSE trust_table[k]]
    BY <1>6, ForgetKeeps
  <2>1. /\ thread'[LOOP].at = l.at /\ thread'[LOOP].arg = l.arg
        /\ thread'[LOOP].attached => l.attached
        /\ \A k \in Keys : trust_table'[k] = IF k \in S THEN FreshEntry ELSE trust_table[k]
    BY <2>0
  <2>2. \A k \in Keys : trust_table'[k] \in {trust_table[k], FreshEntry}
    BY <2>1
  <2>3. \A k \in Keys : trust_table'[k].blocked => trust_table[k].blocked
    BY <2>2 DEF FreshEntry
  <2>4. l.at \in {"trust", "installed"} => KeyOf(l.arg) \in Keys
    BY <1>0, KeyInKeys DEF HandlerOK, Flows5
  <2>5. EarnsUnblocked'
    BY <2>1, <2>3, <2>4 DEF EarnsUnblocked
  <2> QED
    BY <2>2, <2>5 DEF EntryKept
<1>7. CASE HandleEvent
  <2>1. CASE trust_table' = trust_table /\ thread'[LOOP].at # "trust"
    BY <1>1, <1>7, <2>1, EventKeeps
  <2>2. CASE trust_table' # trust_table \/ thread'[LOOP].at = "trust"
    <3>1. PICK f \in Traffic : /\ f.eth_type = 2048
                               /\ CheckIp(f, "ALLOWED") \in {"ALLOWED", "DPI_MATCH"}
                               /\ trust_table' = Inspected(f)
                               /\ thread'[LOOP].at = "trust" =>
                                    /\ HasPorts(f) /\ thread'[LOOP].arg = f
                                    /\ CheckIp(f, "ALLOWED") = "ALLOWED"
      BY <1>7, <2>2, EventKeeps, TrustStarts
    <3>2. ASSUME NEW k \in Keys, trust_table[k].blocked
          PROVE  trust_table'[k] = trust_table[k]
      <4>1. k # KeyOf(f) \/ ~IsTcp(f)
        BY <3>1, <3>2, NotYetBlocked
      <4> QED
        BY <3>1, <4>1, InspectedKeeps
    <3>3. ASSUME NEW k \in Keys, trust_table'[k].blocked
          PROVE  k[1] = 6
      <4>1. trust_table[k].blocked \/ (k = KeyOf(f) /\ IsTcp(f))
        BY <3>1, <3>3, InspectedBlocks
      <4> QED
        BY <4>1 DEF EarnsUnblocked, KeyOf, TrustKey, IsTcp
    <3>4. ASSUME thread'[LOOP].at = "trust"
          PROVE  ~trust_table'[KeyOf(f)].blocked
      <4>1. KeyOf(f) \in Keys /\ KeyOf(f)[1] = f.ip_proto
        BY <3>1, <3>4, KeyInKeys DEF KeyOf, TrustKey
      <4>2. CASE ~IsTcp(f)
        BY <3>1, <3>3, <4>1, <4>2 DEF IsTcp
      <4>3. CASE IsTcp(f)
        <5>1. CheckDpi(f) = "ALLOWED"
          BY <3>1, <3>4, <4>3 DEF CheckIp, CheckTcpFlags, IsTcp
        <5>2. /\ ~trust_table[KeyOf(f)].blocked
              /\ f.payload = <<>> \/ ~Inspect(Extend(Buffer(f), f.payload))
          BY <5>1 DEF CheckDpi
        <5> QED
          BY <3>1, <4>1, <5>2, InspectedBlocks
      <4> QED
        BY <4>2, <4>3
    <3>5. EarnsUnblocked'
      BY <1>7, <3>1, <3>3, <3>4, EventKeeps DEF EarnsUnblocked
    <3> QED
      BY <3>2, <3>5 DEF EntryKept
  <2> QED
    BY <2>1, <2>2
<1>8. CASE LearnDropped
  BY <1>0, <1>1, <1>8 DEF LearnDropped, Return, Idle
\* The event loop counts, marks or records an exception: in the entry it holds,
\* which is not blocked.
<1>9. ASSUME NEW e, ~trust_table[KeyOf(l.arg)].blocked, KeyOf(l.arg) \in Keys,
             trust_table' = [trust_table EXCEPT ![KeyOf(l.arg)] = e], ~e.blocked,
             thread'[LOOP].at \in {"idle", "installed"},
             thread'[LOOP].at = "installed" => thread'[LOOP].arg = l.arg
      PROVE  EarnsUnblocked' /\ Kept
  <2>1. \A k \in Keys : trust_table'[k] = IF k = KeyOf(l.arg) THEN e ELSE trust_table[k]
    BY <1>0, <1>9
  <2>2. EarnsUnblocked'
    BY <1>9, <2>1 DEF EarnsUnblocked
  <2> QED
    BY <1>9, <2>1, <2>2 DEF EntryKept
<1>10. CASE RecordTrust
  <2> DEFINE k == KeyOf(l.arg)
             e == trust_table[k]
             e1 == [e EXCEPT !.count = @ + 1]
  <2>1. l.at = "trust" /\ l.arg \in Flows5
    BY <1>0, <1>10 DEF RecordTrust, Reached, HandlerOK
  <2>2. k \in Keys /\ ~e.blocked
    BY <2>1, KeyInKeys DEF Flows5, EarnsUnblocked
  <2>3. \/ thread'[LOOP].at = "idle"
        \/ thread'[LOOP].at = "installed" /\ thread'[LOOP].arg = l.arg
    BY <1>0, <1>10 DEF RecordTrust, Return, Idle, ThreadType
  <2>4. CASE e.installed
    <3>1. trust_table' = trust_table /\ thread'[LOOP] = Idle
      BY <1>0, <1>10, <2>4 DEF RecordTrust, Return
    <3> QED
      BY <1>1, <3>1 DEF Idle
  <2>5. CASE ~e.installed
    <3>1. trust_table' = [trust_table EXCEPT ![k] = e1]
      BY <1>10, <2>5 DEF RecordTrust
    <3>2. ~e1.blocked
      BY <1>0, <2>2 DEF Entry
    <3> HIDE DEF e1
    <3> QED
      BY <1>9, <2>2, <2>3, <3>1, <3>2
  <2> QED
    BY <2>4, <2>5
<1>11. CASE MarkInstalled
  <2> DEFINE k == KeyOf(l.arg)
             e == trust_table[k]
             e1 == [e EXCEPT !.installed = TRUE]
  <2>1. l.at = "installed" /\ l.arg \in Flows5 /\ thread'[LOOP].at = "idle"
    BY <1>0, <1>11 DEF MarkInstalled, Reached, HandlerOK, Return, Idle
  <2>2. CASE l.attached
    <3>1. k \in Keys /\ ~e.blocked
      BY <2>1, <2>2, KeyInKeys DEF Flows5, EarnsUnblocked
    <3>2. trust_table' = [trust_table EXCEPT ![k] = e1]
      BY <1>11, <2>2 DEF MarkInstalled
    <3>3. ~e1.blocked
      BY <1>0, <3>1 DEF Entry
    <3> HIDE DEF e1
    <3> QED
      BY <1>9, <2>1, <3>1, <3>2, <3>3
  <2>3. CASE ~l.attached
    BY <1>1, <1>11, <2>1, <2>3 DEF MarkInstalled
  <2> QED
    BY <2>2, <2>3
<1>12. ASSUME NEW t \in Threads, ClientActs(t)
       PROVE  EarnsUnblocked' /\ Kept
  <2>1. CASE LogRaises(t) /\ t = LOOP /\ l.at = "installed" /\ l.attached
    <3> DEFINE k == KeyOf(l.arg)
               e == trust_table[k]
               e1 == [e EXCEPT !.aborted = @ + 1]
    <3>1. k \in Keys /\ ~e.blocked
      BY <1>0, <2>1, KeyInKeys DEF HandlerOK, Flows5, EarnsUnblocked
    <3>2. trust_table' = [trust_table EXCEPT ![k] = e1] /\ thread'[LOOP].at = "idle"
      BY <1>0, <2>1 DEF LogRaises, Return, Idle
    <3>3. ~e1.blocked
      BY <1>0, <3>1 DEF Entry
    <3> HIDE DEF e1
    <3> QED
      BY <1>9, <3>1, <3>2, <3>3
  <2>2. CASE ~(LogRaises(t) /\ t = LOOP /\ l.at = "installed" /\ l.attached)
    <3>1. t = LOOP \/ thread[t].at # "installed"
      BY ThreadFacts DEF TypeOK, HandlerOK, RestLabels
    <3>2. trust_table' = trust_table
      BY <1>12, <2>2, <3>1, ClientKeeps DEF LogRaises
    <3>3. SameHandler(LOOP) \/ thread'[LOOP].at \notin {"trust", "installed"}
      BY <1>0, <1>12, ClientKeeps DEF Idle
    <3> QED
      BY <1>1, <3>2, <3>3
  <2> QED
    BY <2>1, <2>2
<1>13. CASE UNCHANGED vars
  BY <1>1, <1>13 DEF vars, tableVars, threadVars, SameHandler
<1> QED
  BY <1>2, <1>3, <1>4, <1>5, <1>6, <1>7, <1>8, <1>10, <1>11, <1>12, <1>13
     DEF Next, LoopContinues, RequestContinues, ForgetIp, ForgetPort, ForgetAll

(* A flow that DPI has blocked earns nothing while its entry stands: no    *)
(* packet, whenever it was queued, adds bytes or a count to the entry or   *)
(* marks it installed.  The argument is that the event loop, from the      *)
(* verdict on a packet to the mark, holds an entry that is not blocked.    *)
THEOREM VerdictStands == Spec => BlockedEarnsNothing
<1>1. Init => EarnsUnblocked
  BY ThreadFacts DEF Init, EarnsUnblocked, Idle, FreshEntry
<1>2. TypeInv /\ TypeInv' /\ EarnsUnblocked /\ [Next]_vars
        => EarnsUnblocked' /\ \A k \in Keys : EntryKept(k)
  BY EarnsUnblockedNext
<1>3. (\A k \in Keys : EntryKept(k)) =>
        [\A k \in Keys : trust_table[k].blocked =>
           trust_table'[k] \in {trust_table[k], FreshEntry}]_vars
  BY DEF EntryKept
<1> QED
  BY <1>1, <1>2, <1>3, TypeInvariant, PTL DEF Spec, BlockedEarnsNothing

-----------------------------------------------------------------------------
(* ARP.                                                                    *)

(* No packet replaces a binding of arp_table: an address changes its MAC   *)
(* only through the empty table that a handshake leaves.                   *)
THEOREM BindingsKept == Spec => BindingKept
<1> DEFINE Kept == \A i \in Ips : arp_table[i] # UNKNOWN =>
                     arp_table'[i] \in {arp_table[i], UNKNOWN}
<1>1. ASSUME TypeInv, [Next]_vars
      PROVE  [Kept]_vars
  <2> USE DEF TypeInv
  <2>0. arp_table \in [Ips -> Int]
    BY <1>1 DEF TypeOK
  <2>1. arp_table' = arp_table => Kept
    OBVIOUS
  <2>2. ASSUME NEW t \in Threads, Proceed(t)
        PROVE  Kept
    BY <2>1, <2>2, <1>1, ProceedKeeps DEF tableVars
  <2>3. CASE SendLoop \/ Environment
    BY <2>1, <2>3, <1>1, SwitchKeeps DEF tableVars
  <2>4. ASSUME NEW t \in RestThreads, Request(t)
        PROVE  Kept
    BY <2>1, <2>4, <1>1, RequestKeeps DEF tableVars
  <2>5. ASSUME NEW t \in RestThreads, FlushIp(t) \/ FlushPort(t)
        PROVE  Kept
    BY <2>1, <2>5, <1>1, FlushKeeps DEF tableVars
  <2>6. ASSUME NEW t \in RestThreads, NEW S, Forget(t, S)
        PROVE  Kept
    BY <2>1, <2>6 DEF Forget
  <2>7. CASE LoopContinues
    BY <2>1, <2>7 DEF LoopContinues, LearnDropped, RecordTrust, MarkInstalled
  <2>8. CASE IgnorePacket \/ DropPacket \/ RateLimitPacket \/ DpiBlockPacket
             \/ AllowPacket \/ ArpSpoofPacket
    BY <2>1, <2>8 DEF IgnorePacket, DropPacket, RateLimitPacket, DpiBlockPacket,
                      AllowPacket, ArpSpoofPacket, tableVars
  <2>9. CASE AllowArp
    <3> DEFINE f == Head(events).frame
    <3>1. /\ arp_table' = [arp_table EXCEPT ![f.arp_spa] = f.arp_sha]
          /\ CheckArpSpoof(f) = "ALLOWED"
      BY <2>9 DEF AllowArp
    <3>2. arp_table[f.arp_spa] \in {UNKNOWN, f.arp_sha}
      BY <3>1 DEF CheckArpSpoof
    <3> QED
      BY <2>0, <3>1, <3>2
  <2>10. CASE SwitchHandshake
    BY <2>10 DEF SwitchHandshake
  <2>11. ASSUME NEW t \in Threads, ClientActs(t)
         PROVE  Kept
    BY <1>1, <2>1, <2>11, ClientKeeps
  <2> HIDE DEF Kept
  <2> QED
    BY <1>1, <2>2, <2>3, <2>4, <2>5, <2>6, <2>7, <2>8, <2>9, <2>10, <2>11
       DEF Next, HandleEvent, RequestContinues, ForgetIp, ForgetPort, ForgetAll
<1>2. TypeInv /\ [Next]_vars => [Kept]_vars
  BY <1>1
<1> QED
  BY <1>2, TypeInvariant, PTL DEF Spec, BindingKept

-----------------------------------------------------------------------------
(* Trust in the switch is earned.                                          *)

TrustRule == {g \in Rules : g.priority = 400}

Removes(m, g) == m.cmd = "delete" /\ Covers(m.match, g.match)

\* The switch may have rule g once it has carried out the queue.
Survives(g) ==
  \/ /\ g \in flows
     /\ \A j \in 1..Len(send_q) : ~Removes(send_q[j], g)
  \/ \E i \in 1..Len(send_q) :
       /\ send_q[i] = Add(g)
       /\ \A j \in (i + 1)..Len(send_q) : ~Removes(send_q[j], g)

\* Thread t is between the first delete of a flush and its clearing of the
\* table.
Flushes(t) == thread[t].at \in {"forget_ip", "forget_all"}

\* What is left to a thread that has sent everything: nothing, or the log call
\* in which it may wait for a client.
Sent == {<<>>, <<Log>>}

\* A thread that has something to send or is in a flush keeps the processor:
\* the one place at which it may lose it is a call of _log behind all it sends.
OneRuns ==
  \A t \in Threads :
    /\ thread[t].todo \notin Sent \/ Flushes(t) => cpu = t
    /\ \A i \in 1..Len(thread[t].todo) :
         thread[t].todo[i] = Log => i = Len(thread[t].todo) /\ ~Flushes(t)

\* Without a registered connection that is alive, nothing is in the switch or
\* on its way to it, and no packet of a live connection waits; a flush holds the
\* connection that is registered.
Alive ==
  /\ \A i, j \in 1..Len(events) : i < j /\ events[i].live => events[j].live
  /\ registered = "live" => /\ \A i \in 1..Len(events) : events[i].live
                            /\ \A t \in Threads : Flushes(t) => thread[t].live
  /\ registered # "live" =>
       /\ flows = {} /\ send_q = <<>>
       /\ \A i \in 1..Len(events) : events[i].live => events[i].kind = "features"
       /\ \A t \in Threads : ~thread[t].live

Counted(g) == trust_table[FlowKey(g)].count >= TRUST_K

WillAdd(t, g)    == \E i \in 1..Len(thread[t].todo) : thread[t].todo[i] = Add(g)
WillRemove(t, g) == \E i \in 1..Len(thread[t].todo) : Removes(thread[t].todo[i], g)

\* The flush of t is about the rule g.
Concerns(t, g) ==
  \/ thread[t].at = "forget_all"
  \/ thread[t].at = "forget_ip" /\ FlowKey(g) \in KeysOfIp(thread[t].arg.ip)

\* A trust rule that the switch has or will have belongs to a flow with K clean
\* packets on record; a flush that is about to take the record has deleted the
\* rule or is going to.
Earned ==
  \A g \in TrustRule :
    /\ Survives(g) => Counted(g)
    /\ \A t \in Threads : /\ WillAdd(t, g) => Counted(g) /\ ~Flushes(t)
                          /\ Concerns(t, g) /\ Survives(g) => WillRemove(t, g)

EarnedInv == /\ TypeInv /\ WayKnown
             /\ waiters = <<>> /\ OneRuns /\ Alive /\ Earned

LEMMA TrustRuleFacts ==
  ASSUME NEW g \in TrustRule
  PROVE  /\ FlowKey(g) \in Keys
         /\ Covers(AllIpv4, g.match)
         /\ \A ip : FlowKey(g) \in KeysOfIp(ip) =>
              Covers(FromIp(ip), g.match) \/ Covers(ToIp(ip), g.match)
<1>1. PICK f \in Flows5, p \in InPorts :
        \/ g = TrustFlow(f.ip_proto, Sender(f), Receiver(f), p)
        \/ g = TrustFlow(f.ip_proto, Receiver(f), Sender(f), p)
  BY DEF TrustRule, Rules, MissFlow, PuntFlow, RateLimitFlow, ArpSpoofFlow, LearnedFlow
<1>2. /\ Sender(f) = <<f.ipv4_src, f.tp_src>> /\ Receiver(f) = <<f.ipv4_dst, f.tp_dst>>
      /\ Sender(f) \in Int \X Int /\ Receiver(f) \in Int \X Int /\ f \in Traffic /\ HasPorts(f)
  BY FrameFields DEF Flows5, Sender, Receiver, Frame
<1>3. PICK a \in Int \X Int, b \in Int \X Int :
        /\ g = TrustFlow(f.ip_proto, a, b, p)
        /\ TrustKey(f.ip_proto, a, b) = KeyOf(f)
  BY <1>1, <1>2, TrustKeySymmetric DEF KeyOf
<1>4. /\ g.match.eth_type = 2048 /\ g.match.ip_proto = f.ip_proto
      /\ g.match.ipv4_src = a[1] /\ g.match.ipv4_dst = b[1]
      /\ g.match.tp_src = a[2] /\ g.match.tp_dst = b[2]
      /\ DOMAIN g.match = {"eth_type", "ip_proto", "ipv4_src", "ipv4_dst", "tp_src", "tp_dst"}
  BY <1>3 DEF TrustFlow
<1>5. FlowKey(g) = TrustKey(f.ip_proto, a, b)
  <2>1. a = <<a[1], a[2]>> /\ b = <<b[1], b[2]>>
    OBVIOUS
  <2> QED
    BY <1>4, <2>1 DEF FlowKey
<1>6. FlowKey(g) \in Keys
  BY <1>2, <1>3, <1>5, KeyInKeys
<1>7. Covers(AllIpv4, g.match)
  BY <1>4 DEF Covers, AllIpv4
<1>8. ASSUME NEW ip, FlowKey(g) \in KeysOfIp(ip)
      PROVE  Covers(FromIp(ip), g.match) \/ Covers(ToIp(ip), g.match)
  <2>1. a[1] = ip \/ b[1] = ip
    BY <1>5, <1>8 DEF KeysOfIp, TrustKey
  <2>2. /\ a[1] = ip => Covers(FromIp(ip), g.match)
        /\ b[1] = ip => Covers(ToIp(ip), g.match)
    BY <1>4 DEF Covers, FromIp, ToIp
  <2> QED
    BY <2>1, <2>2
<1> QED
  BY <1>6, <1>7, <1>8

\* The rules of _install_trust_flow have the key of the flow.
LEMMA TrustFlowsKey ==
  ASSUME NEW f \in Flows5, NEW p, NEW i \in {1, 2}
  PROVE  FlowKey(TrustFlows(f, p)[i]) = KeyOf(f)
<1>1. /\ Sender(f) = <<f.ipv4_src, f.tp_src>> /\ Receiver(f) = <<f.ipv4_dst, f.tp_dst>>
      /\ Sender(f) \in Int \X Int /\ Receiver(f) \in Int \X Int
  BY FrameFields DEF Flows5, Sender, Receiver, Frame
<1>2. FlowKey(TrustFlows(f, p)[1]) = TrustKey(f.ip_proto, Sender(f), Receiver(f))
  BY <1>1 DEF FlowKey, TrustFlows, TrustFlow
<1>3. FlowKey(TrustFlows(f, p)[2]) = TrustKey(f.ip_proto, Receiver(f), Sender(f))
  BY <1>1 DEF FlowKey, TrustFlows, TrustFlow
<1> QED
  BY <1>1, <1>2, <1>3, TrustKeySymmetric DEF KeyOf

LEMMA SurvivesAppend ==
  ASSUME NEW m \in FlowMessage, NEW g, send_q \in Seq(FlowMessage),
         send_q' = Append(send_q, m), flows' = flows, Survives(g)'
  PROVE  m = Add(g) \/ (Survives(g) /\ ~Removes(m, g))
<1>1. /\ Len(send_q') = Len(send_q) + 1 /\ Len(send_q) \in Nat
      /\ \A i \in 1..Len(send_q) : send_q'[i] = send_q[i]
      /\ send_q'[Len(send_q) + 1] = m
  BY AppendType
<1>2. CASE g \in flows' /\ \A j \in 1..Len(send_q') : ~Removes(send_q'[j], g)
  <2>1. \A j \in 1..Len(send_q) : ~Removes(send_q[j], g)
    BY <1>1, <1>2
  <2>2. ~Removes(m, g)
    BY <1>1, <1>2
  <2> QED
    BY <1>2, <2>1, <2>2 DEF Survives
<1>3. ASSUME NEW i \in 1..Len(send_q'), send_q'[i] = Add(g),
             \A j \in (i + 1)..Len(send_q') : ~Removes(send_q'[j], g)
      PROVE  m = Add(g) \/ (Survives(g) /\ ~Removes(m, g))
  <2>1. CASE i = Len(send_q) + 1
    BY <1>1, <1>3, <2>1
  <2>2. CASE i \in 1..Len(send_q)
    <3>1. send_q[i] = Add(g) /\ \A j \in (i + 1)..Len(send_q) : ~Removes(send_q[j], g)
      BY <1>1, <1>3, <2>2
    <3>2. ~Removes(m, g)
      BY <1>1, <1>3, <2>2
    <3> QED
      BY <2>2, <3>1, <3>2 DEF Survives
  <2> QED
    BY <1>1, <2>1, <2>2
<1> QED
  BY <1>2, <1>3 DEF Survives, Removes

LEMMA SurvivesSendLoop ==
  ASSUME TypeInv, SendLoop, NEW g, Survives(g)'
  PROVE  Survives(g)
<1>0. send_q \in Seq(FlowMessage) /\ send_q # <<>>
      /\ flows' = Apply(flows, Head(send_q)) /\ send_q' = Tail(send_q)
  BY DEF TypeInv, TypeOK, SendLoop
<1>1. /\ Len(send_q') = Len(send_q) - 1 /\ Len(send_q) \in Nat /\ Len(send_q) > 0
      /\ send_q[1] = Head(send_q) /\ Head(send_q) \in FlowMessage
      /\ \A i \in 1..Len(send_q') : send_q'[i] = send_q[i + 1]
  BY <1>0, TailType
<1>2. CASE g \in flows' /\ \A j \in 1..Len(send_q') : ~Removes(send_q'[j], g)
  <2>1. \A j \in 2..Len(send_q) : ~Removes(send_q[j], g)
    <3>1. ASSUME NEW j \in 2..Len(send_q) PROVE send_q[j] = send_q'[j - 1] /\ j - 1 \in 1..Len(send_q')
      BY <1>1
    <3> QED
      BY <1>2, <3>1
  <2>2. \/ send_q[1] = Add(g)
        \/ g \in flows /\ ~Removes(send_q[1], g)
    BY <1>0, <1>1, <1>2, MessageKinds
       DEF Apply, AddFlow, DeleteFlows, Add, Delete, PacketOut, Removes
  <2>3. CASE send_q[1] = Add(g)
    <3>1. 1 \in 1..Len(send_q) /\ \A j \in (1 + 1)..Len(send_q) : ~Removes(send_q[j], g)
      BY <1>1, <2>1
    <3> QED
      BY <2>3, <3>1 DEF Survives
  <2>4. CASE g \in flows /\ ~Removes(send_q[1], g)
    <3>1. \A j \in 1..Len(send_q) : ~Removes(send_q[j], g)
      <4>1. ASSUME NEW j \in 1..Len(send_q) PROVE j = 1 \/ j \in 2..Len(send_q)
        BY <1>1
      <4> QED
        BY <2>1, <2>4, <4>1
    <3> QED
      BY <2>4, <3>1 DEF Survives
  <2> QED
    BY <2>2, <2>3, <2>4
<1>3. ASSUME NEW i \in 1..Len(send_q'), send_q'[i] = Add(g),
             \A j \in (i + 1)..Len(send_q') : ~Removes(send_q'[j], g)
      PROVE  Survives(g)
  <2>1. i + 1 \in 1..Len(send_q) /\ send_q[i + 1] = Add(g)
    BY <1>1, <1>3
  <2>2. \A j \in ((i + 1) + 1)..Len(send_q) : ~Removes(send_q[j], g)
    <3>1. ASSUME NEW j \in ((i + 1) + 1)..Len(send_q)
          PROVE  send_q[j] = send_q'[j - 1] /\ j - 1 \in (i + 1)..Len(send_q')
      BY <1>1
    <3> QED
      BY <1>3, <3>1
  <2> QED
    BY <2>1, <2>2 DEF Survives
<1> QED
  BY <1>2, <1>3 DEF Survives, Removes

LEMMA SurvivesLess ==
  ASSUME NEW g, flows' \subseteq flows, send_q' = send_q, Survives(g)'
  PROVE  Survives(g)
BY DEF Survives, Removes

\* Nothing survives where there is nothing.
LEMMA NothingSurvives ==
  ASSUME NEW g, flows = {}, send_q = <<>>
  PROVE  ~Survives(g)
BY DEF Survives

-----------------------------------------------------------------------------
(* One thread runs.                                                        *)

\* A list without trust rules, in which a log call comes last if at all.
Plain(todo) == \A i \in 1..Len(todo) : /\ \A g \in TrustRule : todo[i] # Add(g)
                                       /\ todo[i] = Log => i = Len(todo)

\* The rules of lower priority are not trust rules.
LEMMA NoTrustRule ==
  ASSUME NEW g \in TrustRule
  PROVE  /\ g # MissFlow /\ g # PuntFlow
         /\ \A f : g # RateLimitFlow(f) /\ g # ArpSpoofFlow(f)
         /\ \A f, p : g # LearnedFlow(f, p)
BY DEF TrustRule, MissFlow, PuntFlow, RateLimitFlow, ArpSpoofFlow, LearnedFlow

LEMMA PlainTodos ==
  /\ Plain(<<>>) /\ Plain(<<Log>>) /\ Plain(<<PacketOut>>)
  /\ Plain(<<Add(MissFlow), Add(PuntFlow)>>)
  /\ \A f : Plain(<<Add(RateLimitFlow(f))>>) /\ Plain(<<Add(ArpSpoofFlow(f))>>)
  /\ \A f, p : /\ Plain(<<Add(LearnedFlow(f, p))>>)
               /\ Plain(<<Add(LearnedFlow(f, p)), PacketOut>>)
<1>1. ASSUME NEW g
      PROVE  /\ Add(g) # Log /\ PacketOut # Log /\ Log # Add(g) /\ PacketOut # Add(g)
             /\ \A h : Add(g) = Add(h) => g = h
  BY DEF Add, PacketOut, Log
<1>2. ASSUME NEW m, \A g \in TrustRule : m # Add(g)
      PROVE  Plain(<<m>>)
  BY <1>2 DEF Plain
<1>3. ASSUME NEW m, NEW n, \A g \in TrustRule : m # Add(g) /\ n # Add(g), m # Log
      PROVE  Plain(<<m, n>>)
  <2> DEFINE todo == <<m, n>>
  <2>1. Len(todo) = 2 /\ todo[1] = m /\ todo[2] = n
    OBVIOUS
  <2> HIDE DEF todo
  <2>2. \A i \in 1..Len(todo) : i = 1 \/ i = 2
    BY <2>1
  <2>3. Plain(todo)
    BY <1>3, <2>1, <2>2 DEF Plain
  <2> QED
    BY <2>3 DEF todo
<1>4. Plain(<<>>)
  BY DEF Plain
<1>5. Plain(<<Log>>) /\ Plain(<<PacketOut>>)
  BY <1>1, <1>2
<1>6. ASSUME NEW g \in TrustRule
      PROVE  /\ Add(MissFlow) # Add(g) /\ Add(PuntFlow) # Add(g)
             /\ \A f : Add(RateLimitFlow(f)) # Add(g) /\ Add(ArpSpoofFlow(f)) # Add(g)
             /\ \A f, p : Add(LearnedFlow(f, p)) # Add(g)
  BY <1>1, NoTrustRule
<1>7. Plain(<<Add(MissFlow), Add(PuntFlow)>>)
  BY <1>1, <1>3, <1>6
<1>8. \A f : Plain(<<Add(RateLimitFlow(f))>>) /\ Plain(<<Add(ArpSpoofFlow(f))>>)
  BY <1>2, <1>6
<1>9. \A f, p : Plain(<<Add(LearnedFlow(f, p))>>)
  BY <1>2, <1>6
<1>10. \A f, p : Plain(<<Add(LearnedFlow(f, p)), PacketOut>>)
  BY <1>1, <1>3, <1>6
<1> QED
  BY <1>4, <1>5, <1>7, <1>8, <1>9, <1>10

\* A thread that does not run has nothing to send and is in no flush.
LEMMA OthersWait ==
  ASSUME OneRuns, NEW u \in Threads, cpu # u
  PROVE  thread[u].todo \in Sent /\ ~Flushes(u) /\ Plain(thread[u].todo)
<1>1. thread[u].todo \in Sent /\ ~Flushes(u)
  BY DEF OneRuns
<1> QED
  BY <1>1, PlainTodos DEF Sent

\* What it takes to preserve OneRuns and Earned when thread t may step.
LEMMA EarnedStep ==
  ASSUME OneRuns, NEW t \in Threads, cpu \in {t, NoThread},
         \A u \in Threads \ {t} : /\ thread'[u].at = thread[u].at
                                  /\ thread'[u].todo = thread[u].todo,
         thread'[t].todo \notin Sent \/ Flushes(t)' => cpu' = t,
         \A i \in 1..Len(thread'[t].todo) : thread'[t].todo[i] = Log =>
           i = Len(thread'[t].todo) /\ ~Flushes(t)',
         \A g \in TrustRule :
           /\ Survives(g)' => Counted(g)'
           /\ WillAdd(t, g)' => Counted(g)' /\ ~Flushes(t)'
           /\ Concerns(t, g)' /\ Survives(g)' => WillRemove(t, g)'
  PROVE  (OneRuns /\ Earned)'
<1>1. ASSUME NEW u \in Threads \ {t}
      PROVE  thread'[u].todo \in Sent /\ ~Flushes(u)' /\ Plain(thread'[u].todo)
  <2>1. cpu # u
    BY ThreadFacts
  <2>2. thread[u].todo \in Sent /\ ~Flushes(u) /\ Plain(thread[u].todo)
    BY <2>1, OthersWait
  <2> QED
    BY <2>2 DEF Flushes
<1>2. OneRuns'
  <2> SUFFICES ASSUME NEW u \in Threads
               PROVE  /\ thread'[u].todo \notin Sent \/ Flushes(u)' => cpu' = u
                      /\ \A i \in 1..Len(thread'[u].todo) : thread'[u].todo[i] = Log =>
                           i = Len(thread'[u].todo) /\ ~Flushes(u)'
    BY DEF OneRuns
  <2>1. CASE u = t
    BY <2>1
  <2>2. CASE u # t
    <3>1. thread'[u].todo \in Sent /\ ~Flushes(u)' /\ Plain(thread'[u].todo)
      BY <1>1, <2>2
    <3> QED
      BY <3>1 DEF Plain
  <2> QED
    BY <2>1, <2>2
<1>3. ASSUME NEW g \in TrustRule, NEW u \in Threads \ {t}
      PROVE  ~WillAdd(u, g)' /\ ~Concerns(u, g)'
  <2>1. Plain(thread'[u].todo) /\ ~Flushes(u)'
    BY <1>1
  <2> QED
    BY <2>1 DEF WillAdd, Concerns, Flushes, Plain
<1>4. Earned'
  <2> SUFFICES ASSUME NEW g \in TrustRule
               PROVE  /\ Survives(g)' => Counted(g)'
                      /\ \A u \in Threads :
                           /\ WillAdd(u, g)' => Counted(g)' /\ ~Flushes(u)'
                           /\ Concerns(u, g)' /\ Survives(g)' => WillRemove(u, g)'
    BY DEF Earned
  <2>1. ASSUME NEW u \in Threads
        PROVE  /\ WillAdd(u, g)' => Counted(g)' /\ ~Flushes(u)'
               /\ Concerns(u, g)' /\ Survives(g)' => WillRemove(u, g)'
    <3>1. CASE u = t
      BY <3>1
    <3>2. CASE u # t
      BY <1>3, <3>2
    <3> QED
      BY <3>1, <3>2
  <2> QED
    BY <2>1
<1> QED
  BY <1>2, <1>4

\* Thread t begins, goes on or waits outside of a flush, and sends no trust rule.
LEMMA EarnedPlain ==
  ASSUME OneRuns, NEW t \in Threads, cpu \in {t, NoThread},
         \A u \in Threads \ {t} : /\ thread'[u].at = thread[u].at
                                  /\ thread'[u].todo = thread[u].todo,
         Plain(thread'[t].todo), thread'[t].todo \notin Sent => cpu' = t,
         ~Flushes(t)',
         \A g \in TrustRule : Survives(g)' => Counted(g)'
  PROVE  (OneRuns /\ Earned)'
<1>1. \A g \in TrustRule : ~WillAdd(t, g)' /\ ~Concerns(t, g)'
  BY DEF WillAdd, Concerns, Flushes, Plain
<1>2. \A i \in 1..Len(thread'[t].todo) : thread'[t].todo[i] = Log =>
           i = Len(thread'[t].todo) /\ ~Flushes(t)'
  BY DEF Plain
<1> QED
  BY <1>1, <1>2, EarnedStep

\* Nobody runs, and the threads are left alone.
LEMMA EarnedNobody ==
  ASSUME OneRuns, cpu = NoThread,
         \A u \in Threads : /\ thread'[u].at = thread[u].at
                            /\ thread'[u].todo = thread[u].todo,
         \A g \in TrustRule : Survives(g)' => Counted(g)'
  PROVE  (OneRuns /\ Earned)'
<1>0. LOOP \in Threads /\ cpu # LOOP /\ cpu \in {LOOP, NoThread}
  BY ThreadFacts
<1>1. thread[LOOP].todo \in Sent /\ ~Flushes(LOOP) /\ Plain(thread[LOOP].todo)
  BY <1>0, OthersWait
<1>2. thread'[LOOP].todo \in Sent /\ ~Flushes(LOOP)' /\ Plain(thread'[LOOP].todo)
  BY <1>0, <1>1 DEF Flushes
<1> QED
  BY <1>0, <1>2, EarnedPlain

-----------------------------------------------------------------------------
(* The connection is alive.                                                *)

\* A step of a thread that leaves the connection and the events alone.
LEMMA AliveStep ==
  ASSUME Alive, events' = events, registered' = registered, flows' = flows,
         send_q' = send_q \/ registered = "live",
         \A u \in Threads :
           \/ thread'[u].live = thread[u].live /\ (Flushes(u)' => Flushes(u))
           \/ ~thread'[u].live /\ ~Flushes(u)'
           \/ thread'[u].live <=> registered = "live"
  PROVE  Alive'
<1>1. registered = "live" => \A u \in Threads : Flushes(u)' => thread'[u].live
  BY DEF Alive
<1>2. registered # "live" => \A u \in Threads : ~thread'[u].live
  BY DEF Alive
<1> QED
  BY <1>1, <1>2 DEF Alive

LEMMA AliveAppend ==
  ASSUME TypeInv, Alive, NEW e \in EventType, e.live,
         registered = "live" \/ e.kind = "features",
         events' = Append(events, e), registered' = registered, flows' = flows,
         send_q' = send_q, thread' = thread
  PROVE  Alive'
<1>0. events \in Seq(EventType)
  BY DEF TypeInv, TypeOK
<1>1. /\ Len(events') = Len(events) + 1 /\ Len(events) \in Nat
      /\ \A i \in 1..Len(events) : events'[i] = events[i]
      /\ events'[Len(events) + 1] = e
  BY <1>0, AppendType
<1>2. \A i \in 1..Len(events') : i \in 1..Len(events) \/ i = Len(events) + 1
  BY <1>1
<1>3. ASSUME NEW i \in 1..Len(events'), NEW j \in 1..Len(events'), i < j, events'[i].live
      PROVE  events'[j].live
  <2>1. CASE j = Len(events) + 1
    BY <1>1, <2>1
  <2>2. CASE j \in 1..Len(events)
    <3>1. i \in 1..Len(events)
      BY <1>1, <1>3, <2>2
    <3> QED
      BY <1>1, <1>3, <2>2, <3>1 DEF Alive
  <2> QED
    BY <1>2, <2>1, <2>2
<1>4. registered' = "live" => \A i \in 1..Len(events') : events'[i].live
  BY <1>1, <1>2 DEF Alive
<1>5. registered' # "live" =>
        \A i \in 1..Len(events') : events'[i].live => events'[i].kind = "features"
  BY <1>1, <1>2 DEF Alive
<1>6. /\ registered' = "live" => \A t \in Threads : Flushes(t)' => thread'[t].live
      /\ registered' # "live" => /\ flows' = {} /\ send_q' = <<>>
                                 /\ \A t \in Threads : ~thread'[t].live
  BY DEF Alive, Flushes
<1> QED
  BY <1>3, <1>4, <1>5, <1>6 DEF Alive

LEMMA AliveSwitch ==
  ASSUME TypeInv, Alive, Disconnects = FALSE, SendLoop \/ Environment
  PROVE  Alive'
<1>0. events \in Seq(EventType) /\ thread \in [Threads -> ThreadType]
  BY DEF TypeInv, TypeOK
<1>1. CASE SendLoop
  <2>1. send_q # <<>> /\ thread' = thread /\ events' = events /\ registered' = registered
    BY <1>1 DEF SendLoop, threadVars, linkVars
  <2>2. registered = "live"
    BY <2>1 DEF Alive
  <2> QED
    BY <2>1, <2>2 DEF Alive, Flushes
<1>2. ASSUME NEW f \in Traffic, PacketIn(f)
      PROVE  Alive'
  <2> DEFINE e == [kind |-> "packet", frame |-> f, live |-> TRUE]
  <2>1. /\ events' = Append(events, e) /\ registered' = registered /\ flows' = flows
        /\ send_q' = send_q /\ thread' = thread
        /\ BestHits(flows, f) # {}
    BY <1>2 DEF PacketIn, sendVars, linkVars, threadVars
  <2>2. flows # {}
    BY <2>1 DEF BestHits
  <2>3. registered = "live"
    BY <2>2 DEF Alive
  <2>4. e \in EventType /\ e.live
    BY DEF EventType
  <2> HIDE DEF e
  <2> QED
    BY <2>1, <2>3, <2>4, AliveAppend
<1>3. ASSUME NEW g \in flows, FlowExpires(g)
      PROVE  Alive'
  <2>1. thread' = thread /\ events' = events /\ registered' = registered
    BY <1>3 DEF FlowExpires, threadVars, linkVars
  <2>2. registered = "live"
    BY <1>3 DEF Alive
  <2> QED
    BY <2>1, <2>2 DEF Alive, Flushes
<1>4. CASE Connect
  <2> DEFINE e == [kind |-> "features", frame |-> NoArg, live |-> TRUE]
  <2>1. /\ events' = Append(events, e) /\ registered' = registered /\ flows' = flows
        /\ send_q' = send_q /\ thread' = thread
    BY <1>4 DEF Connect, sendVars, threadVars
  <2>2. e \in EventType /\ e.live /\ e.kind = "features"
    BY DEF EventType
  <2> HIDE DEF e
  <2> QED
    BY <2>1, <2>2, AliveAppend
<1>5. CASE SwitchCrash
  <2>1. /\ flows' = {} /\ send_q' = <<>> /\ registered' # "live"
        /\ thread' = [t \in Threads |-> [thread[t] EXCEPT !.live = FALSE]]
        /\ events' = [i \in 1..Len(events) |-> [events[i] EXCEPT !.live = FALSE]]
    BY <1>5 DEF SwitchCrash, LoseConnection
  <2>2. \A t \in Threads : thread[t] \in ThreadType
    BY <1>0
  <2>3. \A t \in Threads : ~thread'[t].live
    BY <2>1, <2>2 DEF ThreadType
  <2>4. Len(events') = Len(events) /\ Len(events) \in Nat
        /\ \A i \in 1..Len(events) : events[i] \in EventType
    BY <1>0, <2>1
  <2>5. \A i \in 1..Len(events') : ~events'[i].live
    BY <2>1, <2>4 DEF EventType
  <2> QED
    BY <2>1, <2>3, <2>5 DEF Alive
<1> QED
  BY <1>1, <1>2, <1>3, <1>4, <1>5 DEF Environment, Disconnect

\* An event leaves the queue; its handler runs on the connection it came from.
LEMMA AliveEvent ==
  ASSUME TypeInv, OneRuns, Alive, cpu = NoThread, events # <<>>, events' = Tail(events),
         flows' = flows, send_q' = send_q, thread' \in [Threads -> ThreadType],
         \A u \in RestThreads : thread'[u] = thread[u],
         thread'[LOOP].live => thread[LOOP].live \/ Head(events).live, ~Flushes(LOOP)',
         \/ registered' = registered /\ (Head(events).live => Head(events).kind = "packet")
         \/ registered' = IF Head(events).live THEN "live" ELSE "dead"
  PROVE  Alive'
<1>0. events \in Seq(EventType)
  BY DEF TypeInv, TypeOK
<1>1. /\ Len(events') = Len(events) - 1 /\ Len(events) \in Nat /\ Len(events) > 0
      /\ events[1] = Head(events) /\ Head(events).live \in BOOLEAN
      /\ \A i \in 1..Len(events') : events'[i] = events[i + 1]
  <2>1. Head(events) \in EventType
    BY <1>0, TailType
  <2> QED
    BY <1>0, <2>1, TailType DEF EventType
<1>2. \A i \in 1..Len(events') : i + 1 \in 1..Len(events) /\ 1 < i + 1 /\ 1 \in 1..Len(events)
  BY <1>1
<1>3. ASSUME NEW i \in 1..Len(events'), NEW j \in 1..Len(events'), i < j, events'[i].live
      PROVE  events'[j].live
  <2>1. i + 1 < j + 1
    BY <1>1, <1>3
  <2> QED
    BY <1>1, <1>2, <1>3, <2>1 DEF Alive
<1>4. \A u \in Threads : ~Flushes(u)'
  <2>1. \A u \in RestThreads : u \in Threads /\ cpu # u /\ ~Flushes(u)
    BY ThreadFacts, OthersWait
  <2> QED
    BY <2>1 DEF Threads, Flushes
<1>5. CASE registered = "live"
  <2>1. \A i \in 1..Len(events) : events[i].live
    BY <1>5 DEF Alive
  <2>2. Head(events).live
    BY <1>1, <1>2, <2>1
  <2>3. registered' = "live"
    BY <1>5, <2>2
  <2>4. \A i \in 1..Len(events') : events'[i].live
    BY <1>1, <1>2, <2>1
  <2> QED
    BY <1>3, <1>4, <2>3, <2>4 DEF Alive
<1>6. CASE registered # "live" /\ Head(events).live
  <2>1. Head(events).kind = "features"
    BY <1>1, <1>6 DEF Alive
  <2>2. registered' = "live"
    BY <1>6, <2>1
  <2>3. \A i \in 1..Len(events') : events'[i].live
    BY <1>1, <1>2, <1>6 DEF Alive
  <2> QED
    BY <1>3, <1>4, <2>2, <2>3 DEF Alive
<1>7. CASE registered # "live" /\ ~Head(events).live
  <2>1. registered' # "live"
    BY <1>7
  <2>2. flows' = {} /\ send_q' = <<>> /\ \A t \in Threads : ~thread[t].live
    BY <1>7 DEF Alive
  <2>3. \A t \in Threads : ~thread'[t].live
    BY <1>7, <2>2, ThreadFacts DEF Threads
  <2>4. \A i \in 1..Len(events') : events'[i].live => events'[i].kind = "features"
    BY <1>1, <1>2, <1>7 DEF Alive
  <2> QED
    BY <1>3, <2>1, <2>2, <2>3, <2>4 DEF Alive
<1> QED
  BY <1>5, <1>6, <1>7

-----------------------------------------------------------------------------
(* The event loop.                                                         *)

LEMMA EarnedHandleEvent ==
  ASSUME EarnedInv, HandleEvent
  PROVE  (OneRuns /\ Alive /\ Earned)'
<1> USE DEF EarnedInv
<1> DEFINE e == Head(events)
           Loop(kind) ==
             /\ TakeEvent(kind)
             /\ \A u \in RestThreads : thread'[u] = thread[u]
             /\ Plain(thread'[LOOP].todo)
             /\ thread'[LOOP].todo \notin Sent => cpu' = LOOP
             /\ ~Flushes(LOOP)'
             /\ thread'[LOOP].live => thread[LOOP].live \/ e.live
<1>0. /\ LOOP \in Threads /\ thread \in [Threads -> ThreadType]
      /\ \A u \in RestThreads : u \in Threads /\ u # LOOP
  BY ThreadFacts DEF TypeInv, TypeOK
<1>1. ASSUME NEW kind, NEW at, NEW todo, TakeEvent(kind), Plain(todo),
             at \in LoopLabels, NEW arg, Start(LOOP, at, todo, e.live, arg)
      PROVE  Loop(kind)
  <2>1. /\ thread'[LOOP].at = at /\ thread'[LOOP].todo = todo
        /\ thread'[LOOP].live = e.live /\ cpu' = LOOP
        /\ \A u \in RestThreads : thread'[u] = thread[u]
    BY <1>0, <1>1 DEF Start
  <2>2. ~Flushes(LOOP)'
    BY <1>1, <2>1 DEF Flushes, LoopLabels
  <2> QED
    BY <1>1, <2>1, <2>2
<1>2. ASSUME NEW kind, TakeEvent(kind), UNCHANGED threadVars
      PROVE  Loop(kind)
  <2>1. thread' = thread /\ thread[LOOP].at = "idle" /\ thread[LOOP].todo = <<>>
    BY <1>0, <1>2, HeadEvent DEF TypeInv, TypeOK, HandlerOK, threadVars
  <2>2. Plain(thread'[LOOP].todo) /\ thread'[LOOP].todo \in Sent
    BY <2>1, PlainTodos DEF Sent
  <2> QED
    BY <1>2, <2>1, <2>2 DEF Flushes
<1> HIDE DEF Loop
<1>3. \/ Loop("packet") /\ registered' = registered
      \/ Loop("features") /\ registered' = IF e.live THEN "live" ELSE "dead"
  <2>1. CASE IgnorePacket \/ DropPacket
    <3>1. TakeEvent("packet") /\ UNCHANGED threadVars /\ registered' = registered
      BY <2>1 DEF IgnorePacket, DropPacket, linkVars
    <3> QED
      BY <1>2, <3>1
  <2>2. CASE RateLimitPacket
    <3>1. /\ TakeEvent("packet") /\ registered' = registered /\ "drop" \in LoopLabels
          /\ Start(LOOP, "drop", <<Add(RateLimitFlow(e.frame))>>, e.live, e.frame)
      BY <2>2 DEF RateLimitPacket, linkVars, LoopLabels
    <3>2. Loop("packet")
      BY <1>1, <3>1, PlainTodos
    <3> QED
      BY <3>1, <3>2
  <2>3. CASE DpiBlockPacket
    <3>1. /\ TakeEvent("packet") /\ registered' = registered /\ "drop" \in LoopLabels
          /\ Start(LOOP, "drop", <<Log>>, e.live, e.frame)
      BY <2>3 DEF DpiBlockPacket, linkVars, LoopLabels
    <3>2. Loop("packet")
      BY <1>1, <3>1, PlainTodos
    <3> QED
      BY <3>1, <3>2
  <2>4. CASE AllowPacket
    <3>1. PICK at \in {"trust", "end"} : Start(LOOP, at, <<PacketOut>>, e.live, e.frame)
      BY <2>4 DEF AllowPacket
    <3>2. TakeEvent("packet") /\ registered' = registered /\ at \in LoopLabels
      BY <2>4 DEF AllowPacket, linkVars, LoopLabels
    <3>3. Loop("packet")
      BY <1>1, <3>1, <3>2, PlainTodos
    <3> QED
      BY <3>2, <3>3
  <2>5. CASE ArpSpoofPacket
    <3>1. /\ TakeEvent("packet") /\ registered' = registered /\ "drop" \in LoopLabels
          /\ Start(LOOP, "drop", <<Add(ArpSpoofFlow(e.frame))>>, e.live, e.frame)
      BY <2>5 DEF ArpSpoofPacket, linkVars, LoopLabels
    <3>2. Loop("packet")
      BY <1>1, <3>1, PlainTodos
    <3> QED
      BY <3>1, <3>2
  <2>6. CASE AllowArp
    <3> DEFINE port == Learn(e.frame)[e.frame.eth_dst]
    <3>1. PICK todo \in {<<PacketOut>>, <<Add(LearnedFlow(e.frame, port))>>,
                         <<Add(LearnedFlow(e.frame, port)), PacketOut>>} :
            Start(LOOP, "end", todo, e.live, e.frame)
      BY <2>6 DEF AllowArp
    <3>2. TakeEvent("packet") /\ registered' = registered /\ "end" \in LoopLabels
      BY <2>6 DEF AllowArp, linkVars, LoopLabels
    <3>3. Plain(todo)
      BY PlainTodos
    <3> QED
      BY <1>1, <3>1, <3>2, <3>3
  <2>7. CASE SwitchHandshake
    <3>1. "end" \in LoopLabels
      BY DEF LoopLabels
    <3> QED
      BY <1>1, <2>7, <3>1, PlainTodos DEF SwitchHandshake
  <2> QED
    BY <2>1, <2>2, <2>3, <2>4, <2>5, <2>6, <2>7 DEF HandleEvent
<1>4. PICK kind \in {"packet", "features"} :
        /\ Loop(kind)
        /\ \/ kind = "packet" /\ registered' = registered
           \/ registered' = IF e.live THEN "live" ELSE "dead"
  BY <1>3
<1>5. /\ cpu = NoThread /\ events # <<>> /\ events' = Tail(events)
      /\ send_q' = send_q /\ flows' = flows /\ e.kind = kind
  BY <1>4, HeadEvent DEF Loop, TakeEvent
<1>6. Alive'
  <2>1. thread' \in [Threads -> ThreadType]
    BY TypeHandleEvent DEF TypeInv, TypeOK
  <2> QED
    BY <1>4, <1>5, <2>1, AliveEvent DEF Loop
<1>7. ASSUME NEW g \in TrustRule, Survives(g)'
      PROVE  Counted(g)'
  <2>1. FlowKey(g) \in Keys
    BY TrustRuleFacts
  <2>2. trust_table'[FlowKey(g)].count = trust_table[FlowKey(g)].count
    BY <2>1, EventKeeps, InspectedKeeps
  <2>3. Survives(g)
    BY <1>5, <1>7, SurvivesLess
  <2> QED
    BY <2>2, <2>3 DEF Earned, Counted
<1>8. \A u \in Threads \ {LOOP} : u \in RestThreads
  BY DEF Threads
<1> QED
  BY <1>0, <1>4, <1>5, <1>6, <1>7, <1>8, EarnedPlain DEF Loop

\* Thread t is done or goes on with nothing to send.
LEMMA EarnedRest ==
  ASSUME EarnedInv, NEW t \in Threads, cpu \in {t, NoThread},
         \A u \in Threads \ {t} : thread'[u] = thread[u],
         thread'[t].todo = <<>>, ~Flushes(t)', ~thread'[t].live \/ thread[t].live,
         events' = events, registered' = registered, flows' = flows, send_q' = send_q,
         \A g \in TrustRule : Counted(g) => Counted(g)'
  PROVE  (OneRuns /\ Alive /\ Earned)'
<1> USE DEF EarnedInv
<1>1. Plain(thread'[t].todo) /\ thread'[t].todo \in Sent
  BY PlainTodos DEF Sent
<1>2. \A g \in TrustRule : Survives(g)' => Counted(g)'
  BY SurvivesLess DEF Earned
<1>3. OneRuns' /\ Earned'
  BY <1>1, <1>2, EarnedPlain
<1>4. ASSUME NEW u \in Threads
      PROVE  \/ thread'[u].live = thread[u].live /\ (Flushes(u)' => Flushes(u))
             \/ ~thread'[u].live /\ ~Flushes(u)'
             \/ thread'[u].live <=> registered = "live"
  <2>1. CASE u # t
    BY <2>1 DEF Flushes
  <2>2. CASE u = t
    BY <2>2 DEF Alive
  <2> QED
    BY <2>1, <2>2
<1> QED
  BY <1>3, <1>4, AliveStep

LEMMA EarnedReturn ==
  ASSUME EarnedInv, NEW t \in Threads, cpu \in {t, NoThread}, Return(t),
         events' = events, registered' = registered, flows' = flows, send_q' = send_q,
         \A g \in TrustRule : Counted(g) => Counted(g)'
  PROVE  (OneRuns /\ Alive /\ Earned)'
<1>0. thread \in [Threads -> ThreadType]
  BY DEF EarnedInv, TypeInv, TypeOK
<1>1. thread'[t] = Idle /\ \A u \in Threads \ {t} : thread'[u] = thread[u]
  BY <1>0 DEF Return
<1>2. thread'[t].todo = <<>> /\ ~Flushes(t)' /\ ~thread'[t].live
  BY <1>1 DEF Idle, Flushes
<1> QED
  BY <1>1, <1>2, EarnedRest

LEMMA EarnedLoopContinues ==
  ASSUME EarnedInv, LoopContinues
  PROVE  (OneRuns /\ Alive /\ Earned)'
<1> USE DEF EarnedInv
<1> DEFINE f == thread[LOOP].arg
           k == KeyOf(f)
<1>0. /\ LOOP \in Threads /\ thread \in [Threads -> ThreadType]
      /\ HandlerOK(LOOP, thread[LOOP]) /\ trust_table \in [Keys -> Entry]
      /\ TRUST_K \in Nat
  BY ThreadFacts, BoundsAssumption DEF TypeInv, TypeOK
<1>1. /\ cpu = LOOP /\ thread[LOOP].todo = <<>>
      /\ events' = events /\ registered' = registered /\ flows' = flows /\ send_q' = send_q
  BY DEF LoopContinues, LearnDropped, RecordTrust, MarkInstalled, Reached, sendVars, linkVars
<1>2. CASE LearnDropped
  <2>1. Return(LOOP) /\ trust_table' = trust_table
    BY <1>2 DEF LearnDropped
  <2> QED
    BY <1>0, <1>1, <2>1, EarnedReturn DEF Counted
<1>3. CASE MarkInstalled
  <2>1. /\ Return(LOOP)
        /\ \/ trust_table' = trust_table
           \/ trust_table' = [trust_table EXCEPT ![k].installed = TRUE]
    BY <1>3 DEF MarkInstalled
  <2>2. \A x \in Keys : trust_table'[x].count = trust_table[x].count
    <3>1. CASE trust_table' = [trust_table EXCEPT ![k].installed = TRUE]
      <4>1. k \in Keys
        BY <1>0, <1>3, KeyInKeys DEF MarkInstalled, Reached, HandlerOK, Flows5
      <4>2. /\ trust_table'[k].count = trust_table[k].count
            /\ \A x \in Keys \ {k} : trust_table'[x] = trust_table[x]
        BY <1>0, <3>1, <4>1 DEF Entry
      <4> QED
        BY <4>2
    <3> QED
      BY <2>1, <3>1
  <2>3. \A g \in TrustRule : Counted(g) => Counted(g)'
    BY <2>2, TrustRuleFacts DEF Counted
  <2> QED
    BY <1>0, <1>1, <2>1, <2>3, EarnedReturn
<1>4. CASE RecordTrust
  <2>1. thread[LOOP].at = "trust" /\ f \in Flows5
    BY <1>0, <1>4 DEF RecordTrust, Reached, HandlerOK
  <2>2. k \in Keys
    BY <2>1, KeyInKeys DEF Flows5
  <2>3. trust_table[k].count \in Nat
    BY <1>0, <2>2 DEF Entry
  <2>4. trust_table' = IF trust_table[k].installed THEN trust_table
                       ELSE [trust_table EXCEPT ![k].count = @ + 1]
    BY <1>4 DEF RecordTrust
  <2>5. /\ \A x \in Keys : trust_table[x].count >= TRUST_K => trust_table'[x].count >= TRUST_K
        /\ ~trust_table[k].installed => trust_table'[k].count = trust_table[k].count + 1
    <3>1. CASE trust_table[k].installed
      BY <2>4, <3>1
    <3>2. CASE ~trust_table[k].installed
      <4>1. /\ trust_table'[k].count = trust_table[k].count + 1
            /\ \A x \in Keys \ {k} : trust_table'[x] = trust_table[x]
        BY <1>0, <2>2, <2>4, <3>2 DEF Entry
      <4>2. trust_table[k].count >= TRUST_K => trust_table[k].count + 1 >= TRUST_K
        BY <1>0, <2>3
      <4> QED
        BY <4>1, <4>2
    <3> QED
      BY <3>1, <3>2
  <2>6. \A g \in TrustRule : Counted(g) => Counted(g)'
    BY <2>5, TrustRuleFacts DEF Counted
  <2>7. CASE trust_table[k].installed \/ trust_table[k].count + 1 < TRUST_K
    <3>1. Return(LOOP)
      BY <1>4, <2>7 DEF RecordTrust
    <3> QED
      BY <1>0, <1>1, <2>6, <3>1, EarnedReturn
  <2>8. CASE ~(trust_table[k].installed \/ trust_table[k].count + 1 < TRUST_K)
    <3> DEFINE p == mac_to_port[f.eth_dst]
               a == TrustFlows(f, p)[1]
               b == TrustFlows(f, p)[2]
               todo == <<Add(a), Add(b), Log>>
    <3>1. /\ thread' = [thread EXCEPT ![LOOP].at = "installed", ![LOOP].todo = todo,
                                      ![LOOP].attached = TRUE]
          /\ cpu' = cpu
      BY <1>4, <2>8 DEF RecordTrust
    <3>2. FlowKey(a) = k /\ FlowKey(b) = k
      BY <2>1, TrustFlowsKey
    <3>3. trust_table'[k].count >= TRUST_K
      BY <1>0, <2>3, <2>5, <2>8
    <3>4. /\ Len(todo) = 3 /\ todo[1] = Add(a) /\ todo[2] = Add(b) /\ todo[3] = Log
          /\ Add(a) # Log /\ Add(b) # Log
          /\ \A g : Add(a) = Add(g) => g = a
          /\ \A g : Add(b) = Add(g) => g = b
          /\ \A g : Add(g) # Log
      BY DEF Add, Log
    <3> HIDE DEF a, b, todo
    <3>5. /\ thread'[LOOP].at = "installed" /\ thread'[LOOP].todo = todo
          /\ thread'[LOOP].live = thread[LOOP].live
          /\ \A u \in Threads \ {LOOP} : thread'[u] = thread[u]
      BY <1>0, <3>1 DEF ThreadType
    <3>6. \A i \in 1..Len(todo) : i = 1 \/ i = 2 \/ i = 3
      BY <3>4
    <3>7. ASSUME NEW g \in TrustRule, WillAdd(LOOP, g)'
          PROVE  Counted(g)'
      <4>1. PICK i \in 1..Len(todo) : todo[i] = Add(g)
        BY <3>5, <3>7 DEF WillAdd
      <4>2. g = a \/ g = b
        BY <3>4, <3>6, <4>1
      <4>3. FlowKey(g) = k
        BY <3>2, <4>2
      <4> QED
        BY <3>3, <4>3 DEF Counted
    <3>8. \A g \in TrustRule : Survives(g)' => Counted(g)'
      BY <1>1, <2>6, SurvivesLess DEF Earned
    <3>9. ~Flushes(LOOP)' /\ \A g \in TrustRule : ~Concerns(LOOP, g)'
      BY <3>5 DEF Flushes, Concerns
    <3>10. \A i \in 1..Len(thread'[LOOP].todo) : thread'[LOOP].todo[i] = Log =>
             i = Len(thread'[LOOP].todo) /\ ~Flushes(LOOP)'
      BY <3>4, <3>5, <3>6, <3>9
    <3>11. OneRuns' /\ Earned'
      BY <1>0, <1>1, <3>1, <3>5, <3>7, <3>8, <3>9, <3>10, EarnedStep
    <3>12. \A u \in Threads : \/ thread'[u].live = thread[u].live /\ (Flushes(u)' => Flushes(u))
                              \/ ~thread'[u].live /\ ~Flushes(u)'
                              \/ thread'[u].live <=> registered = "live"
      BY <3>5, <3>9 DEF Flushes
    <3>13. Alive'
      BY <1>1, <3>12, AliveStep
    <3> QED
      BY <3>11, <3>13
  <2> QED
    BY <2>7, <2>8
<1> QED
  BY <1>2, <1>3, <1>4 DEF LoopContinues

-----------------------------------------------------------------------------
(* Sends.                                                                  *)

\* A thread drops the head of its list.
LEMMA EarnedPop ==
  ASSUME TypeInv, OneRuns, NEW t \in Threads, thread[t].todo # <<>>,
         thread' = [thread EXCEPT ![t].todo = Tail(@)]
  PROVE  /\ \A u \in Threads \ {t} : thread'[u] = thread[u]
         /\ thread'[t].at = thread[t].at /\ thread'[t].arg = thread[t].arg
         /\ thread'[t].live = thread[t].live
         /\ \A i \in 1..Len(thread'[t].todo) : thread'[t].todo[i] = Log =>
              i = Len(thread'[t].todo) /\ ~Flushes(t)'
         /\ Head(thread[t].todo) = Log => thread'[t].todo = <<>> /\ ~Flushes(t)
         /\ Head(thread[t].todo) # Log => Head(thread[t].todo) \in FlowMessage
         /\ \A g : /\ WillAdd(t, g)' => WillAdd(t, g)
                   /\ Head(thread[t].todo) = Add(g) => WillAdd(t, g)
                   /\ WillRemove(t, g) =>
                        WillRemove(t, g)' \/ Removes(Head(thread[t].todo), g)
<1> DEFINE todo == thread[t].todo
<1>0. thread \in [Threads -> ThreadType] /\ todo \in Seq(FlowMessage \cup {Log})
  BY DEF TypeInv, TypeOK, ThreadType
<1>1. /\ \A u \in Threads \ {t} : thread'[u] = thread[u]
      /\ thread'[t].at = thread[t].at /\ thread'[t].arg = thread[t].arg
      /\ thread'[t].live = thread[t].live
      /\ thread'[t].todo = Tail(todo)
  BY <1>0 DEF ThreadType
<1>2. /\ Len(Tail(todo)) = Len(todo) - 1 /\ Len(todo) \in Nat /\ Len(todo) > 0
      /\ todo[1] = Head(todo) /\ Head(todo) \in FlowMessage \cup {Log}
      /\ \A i \in 1..Len(Tail(todo)) : Tail(todo)[i] = todo[i + 1]
      /\ Tail(todo) \in Seq(FlowMessage \cup {Log})
  BY <1>0, TailType
<1>3. \A i \in 1..Len(Tail(todo)) : i + 1 \in 1..Len(todo)
  BY <1>2
<1>4. \A i \in 1..Len(todo) : todo[i] = Log => i = Len(todo) /\ ~Flushes(t)
  BY DEF OneRuns
<1>5. Flushes(t)' <=> Flushes(t)
  BY <1>1 DEF Flushes
<1>6. \A i \in 1..Len(Tail(todo)) : Tail(todo)[i] = Log =>
        i = Len(Tail(todo)) /\ ~Flushes(t)'
  <2> SUFFICES ASSUME NEW i \in 1..Len(Tail(todo)), Tail(todo)[i] = Log
               PROVE  i = Len(Tail(todo)) /\ ~Flushes(t)'
    OBVIOUS
  <2>1. i + 1 = Len(todo) /\ ~Flushes(t)
    BY <1>2, <1>3, <1>4
  <2> QED
    BY <1>2, <1>5, <2>1
<1>7. ASSUME Head(todo) = Log
      PROVE  Tail(todo) = <<>> /\ ~Flushes(t)
  <2>1. 1 \in 1..Len(todo) /\ todo[1] = Log
    BY <1>2, <1>7
  <2>2. 1 = Len(todo) /\ ~Flushes(t)
    BY <1>4, <2>1
  <2>3. Len(Tail(todo)) = 0
    BY <1>2, <2>2
  <2>4. PICK s \in Seq(FlowMessage \cup {Log}) : s = Tail(todo)
    BY <1>2
  <2>5. Len(s) = 0
    BY <2>3, <2>4
  <2>6. s = <<>>
    BY <2>5
  <2> QED
    BY <2>2, <2>4, <2>6
<1>8. ASSUME NEW g
      PROVE  /\ WillAdd(t, g)' => WillAdd(t, g)
             /\ Head(todo) = Add(g) => WillAdd(t, g)
             /\ WillRemove(t, g) => WillRemove(t, g)' \/ Removes(Head(todo), g)
  <2>1. WillAdd(t, g)' => WillAdd(t, g)
    BY <1>1, <1>2, <1>3 DEF WillAdd
  <2>2. Head(todo) = Add(g) => WillAdd(t, g)
    <3>1. 1 \in 1..Len(todo)
      BY <1>2
    <3> QED
      BY <1>2, <3>1 DEF WillAdd
  <2>3. ASSUME WillRemove(t, g), ~Removes(Head(todo), g)
        PROVE  WillRemove(t, g)'
    <3>1. PICK i \in 1..Len(todo) : Removes(todo[i], g)
      BY <2>3 DEF WillRemove
    <3>2. i # 1
      BY <1>2, <2>3, <3>1
    <3>3. i - 1 \in 1..Len(Tail(todo)) /\ (i - 1) + 1 = i
      BY <1>2, <3>2
    <3>4. Removes(Tail(todo)[i - 1], g)
      BY <1>2, <3>1, <3>3
    <3>5. \E j \in 1..Len(thread'[t].todo) : Removes(thread'[t].todo[j], g)
      BY <1>1, <3>3, <3>4
    <3> QED
      BY <3>5 DEF WillRemove, Removes
  <2> QED
    BY <2>1, <2>2, <2>3
<1> QED
  BY <1>1, <1>2, <1>6, <1>7, <1>8

\* A thread that logs has nothing else to do and is in no flush.
LEMMA LogIsLast ==
  ASSUME TypeInv, OneRuns, NEW t \in Threads, AtLog(t)
  PROVE  thread[t].todo \in Sent /\ ~Flushes(t)
<1>1. PICK todo \in Seq(FlowMessage \cup {Log}) : todo = thread[t].todo
  BY DEF TypeInv, TypeOK, ThreadType
<1>2. todo # <<>> /\ Head(todo) = Log /\ LogLast(todo)
  BY <1>1 DEF AtLog, OneRuns, LogLast
<1>3. todo = <<Log>>
  BY <1>2, LogLastTail
<1>4. 1 \in 1..Len(thread[t].todo) /\ thread[t].todo[1] = Log
  BY <1>1, <1>3
<1> QED
  BY <1>1, <1>3, <1>4 DEF Sent, OneRuns

\* A client reads or fails: the thread goes on, or ends, behind all it sends.
LEMMA EarnedClientActs ==
  ASSUME EarnedInv, NEW t \in Threads, ClientActs(t)
  PROVE  (OneRuns /\ Alive /\ Earned)'
<1> USE DEF EarnedInv
<1>0. /\ thread \in [Threads -> ThreadType] /\ trust_table \in [Keys -> Entry]
  BY DEF TypeInv, TypeOK
<1>1. /\ cpu \in {t, NoThread} /\ AtLog(t) /\ events' = events /\ flows' = flows
      /\ send_q' = send_q /\ registered' = registered
  BY DEF ClientActs, LogResumes, LogRaises, sendVars, linkVars
<1>2. \/ trust_table' = trust_table
      \/ trust_table' = [trust_table EXCEPT ![KeyOf(thread[t].arg)].aborted = @ + 1]
  BY DEF ClientActs, LogResumes, LogRaises, tableVars
<1>3. ASSUME NEW k \in Keys
      PROVE  trust_table'[k].count = trust_table[k].count
  <2>1. trust_table[k] \in Entry
    BY <1>0
  <2>2. \/ trust_table'[k] = trust_table[k]
        \/ trust_table'[k] = [trust_table[k] EXCEPT !.aborted = @ + 1]
    BY <1>0, <1>2
  <2> QED
    BY <2>1, <2>2 DEF Entry
<1>4. \A g \in TrustRule : Counted(g) => Counted(g)'
  BY <1>3, TrustRuleFacts DEF Counted
<1>5. CASE LogResumes(t)
  <2>1. /\ thread[t].todo # <<>> /\ Head(thread[t].todo) = Log
        /\ thread' = [thread EXCEPT ![t].todo = Tail(@)]
    BY <1>5 DEF LogResumes, AtLog
  <2>2. /\ \A u \in Threads \ {t} : thread'[u] = thread[u]
        /\ thread'[t].todo = <<>> /\ ~Flushes(t) /\ thread'[t].at = thread[t].at
        /\ thread'[t].live = thread[t].live
    BY <2>1, EarnedPop
  <2>3. ~Flushes(t)' /\ (~thread'[t].live \/ thread[t].live)
    BY <2>2 DEF Flushes
  <2> QED
    BY <1>1, <1>4, <2>2, <2>3, EarnedRest
<1>6. CASE LogRaises(t)
  <2>1. Return(t)
    BY <1>6 DEF LogRaises
  <2> QED
    BY <1>1, <1>4, <2>1, EarnedReturn
<1> QED
  BY <1>5, <1>6 DEF ClientActs

LEMMA EarnedProceed ==
  ASSUME EarnedInv, NEW t \in Threads, Proceed(t), waiters' = <<>>
  PROVE  (OneRuns /\ Alive /\ Earned)'
<1> USE DEF EarnedInv
<1>0. thread \in [Threads -> ThreadType] /\ send_q \in Seq(FlowMessage)
      /\ HandlerOK(t, thread[t])
  BY DEF TypeInv, TypeOK
<1>1. /\ trust_table' = trust_table /\ events' = events /\ registered' = registered
      /\ flows' = flows
  BY DEF Proceed, SendDiscard, SendNow, SendBlock, SendResume, LogEvent, LogWaits, WakeUp,
         HandlerEnds, tableVars, linkVars
<1>2. \A g \in TrustRule : Counted(g) <=> Counted(g)'
  BY <1>1 DEF Counted
<1>3. CASE SendDiscard(t)
  <2>1. /\ cpu = t /\ cpu' = cpu /\ thread[t].todo # <<>> /\ send_q' = send_q
        /\ ~thread[t].live /\ thread' = [thread EXCEPT ![t].todo = Tail(@)]
    BY <1>3 DEF SendDiscard, sendVars
  <2>2. ASSUME NEW g \in TrustRule
        PROVE  /\ Survives(g)' => Counted(g)'
               /\ WillAdd(t, g)' => Counted(g)' /\ ~Flushes(t)'
               /\ Concerns(t, g)' /\ Survives(g)' => WillRemove(t, g)'
    <3>1. Survives(g)' => Survives(g)
      BY <1>1, <2>1, SurvivesLess
    <3>2. WillAdd(t, g)' => WillAdd(t, g)
      BY <2>1, EarnedPop
    <3>3. thread'[t].at = thread[t].at
      BY <2>1, EarnedPop
    <3>4. ASSUME Concerns(t, g)' PROVE ~Survives(g)
      <4>1. Flushes(t)
        BY <3>3, <3>4 DEF Concerns, Flushes
      <4>2. registered # "live"
        BY <2>1, <4>1 DEF Alive
      <4> QED
        BY <4>2, NothingSurvives DEF Alive
    <3>5. Flushes(t)' <=> Flushes(t)
      BY <3>3 DEF Flushes
    <3> QED
      BY <1>2, <3>1, <3>2, <3>4, <3>5 DEF Earned
  <2>3. OneRuns' /\ Earned'
    BY <2>1, <2>2, EarnedPop, EarnedStep
  <2>4. \A u \in Threads : \/ thread'[u].live = thread[u].live /\ (Flushes(u)' => Flushes(u))
                           \/ ~thread'[u].live /\ ~Flushes(u)'
                           \/ thread'[u].live <=> registered = "live"
    BY <2>1, EarnedPop DEF Flushes
  <2> QED
    BY <1>1, <2>1, <2>3, <2>4, AliveStep
<1>4. CASE SendNow(t)
  <2> DEFINE m == Head(thread[t].todo)
  <2>1. /\ cpu = t /\ cpu' = cpu /\ thread[t].todo # <<>> /\ m # Log
        /\ send_q' = Append(send_q, m)
        /\ thread[t].live /\ thread' = [thread EXCEPT ![t].todo = Tail(@)]
    BY <1>4 DEF SendNow
  <2>2. m \in FlowMessage
    BY <2>1, EarnedPop
  <2> HIDE DEF m
  <2>3. ASSUME NEW g \in TrustRule
        PROVE  /\ Survives(g)' => Counted(g)'
               /\ WillAdd(t, g)' => Counted(g)' /\ ~Flushes(t)'
               /\ Concerns(t, g)' /\ Survives(g)' => WillRemove(t, g)'
    <3>1. Survives(g)' => m = Add(g) \/ (Survives(g) /\ ~Removes(m, g))
      BY <1>0, <1>1, <2>1, <2>2, SurvivesAppend
    <3>2. /\ WillAdd(t, g)' => WillAdd(t, g)
          /\ m = Add(g) => WillAdd(t, g)
          /\ WillRemove(t, g) => WillRemove(t, g)' \/ Removes(m, g)
      BY <2>1, EarnedPop DEF m
    <3>3. thread'[t].at = thread[t].at /\ thread'[t].arg = thread[t].arg
      BY <2>1, EarnedPop
    <3>4. /\ Flushes(t)' <=> Flushes(t)
          /\ Concerns(t, g)' <=> Concerns(t, g)
          /\ Concerns(t, g) => Flushes(t)
      BY <3>3 DEF Flushes, Concerns
    <3> QED
      BY <1>2, <3>1, <3>2, <3>4 DEF Earned
  <2>4. OneRuns' /\ Earned'
    BY <2>1, <2>3, EarnedPop, EarnedStep
  <2>5. \A u \in Threads : \/ thread'[u].live = thread[u].live /\ (Flushes(u)' => Flushes(u))
                           \/ ~thread'[u].live /\ ~Flushes(u)'
                           \/ thread'[u].live <=> registered = "live"
    BY <2>1, EarnedPop DEF Flushes
  <2>6. registered = "live"
    BY <2>1 DEF Alive
  <2> QED
    BY <1>1, <2>4, <2>5, <2>6, AliveStep
<1>5. CASE SendBlock(t) \/ SendResume(t)
  <2>1. SendBlock(t) /\ waiters' = Append(waiters, t)
    BY <1>5 DEF SendBlock, SendResume
  <2>2. Len(waiters') = 1
    BY <2>1
  <2> QED
    BY <2>2
<1>6. CASE LogEvent(t)
  <2>1. /\ cpu = t /\ thread[t].todo # <<>> /\ send_q' = send_q
        /\ Head(thread[t].todo) = Log /\ thread' = [thread EXCEPT ![t].todo = Tail(@)]
    BY <1>6 DEF LogEvent, AtLog, sendVars
  <2>2. /\ \A u \in Threads \ {t} : thread'[u] = thread[u]
        /\ thread'[t].todo = <<>> /\ ~Flushes(t) /\ thread'[t].at = thread[t].at
        /\ thread'[t].live = thread[t].live
    BY <2>1, EarnedPop
  <2>3. ~Flushes(t)' /\ (~thread'[t].live \/ thread[t].live)
    BY <2>2 DEF Flushes
  <2> QED
    BY <1>1, <1>2, <2>1, <2>2, <2>3, EarnedRest
<1>7. CASE WakeUp(t) \/ LogWaits(t)
  <2>1. cpu \in {t, NoThread} /\ thread' = thread /\ send_q' = send_q
    BY <1>7 DEF WakeUp, LogWaits, sendVars
  <2>2. thread[t].todo \in Sent /\ ~Flushes(t)
    <3>1. CASE WakeUp(t)
      <4>1. cpu # t
        BY <3>1, ThreadFacts DEF WakeUp
      <4> QED
        BY <4>1, OthersWait
    <3>2. CASE LogWaits(t)
      BY <3>2, LogIsLast DEF LogWaits
    <3> QED
      BY <1>7, <3>1, <3>2
  <2>3. Plain(thread[t].todo)
    BY <2>2, PlainTodos DEF Sent
  <2>4. thread'[t].todo \in Sent /\ ~Flushes(t)' /\ Plain(thread'[t].todo)
    BY <2>1, <2>2, <2>3 DEF Flushes
  <2>5. \A g \in TrustRule : Survives(g)' => Counted(g)'
    BY <1>1, <1>2, <2>1, SurvivesLess DEF Earned
  <2>6. OneRuns' /\ Earned'
    BY <2>1, <2>4, <2>5, EarnedPlain
  <2>7. \A u \in Threads : \/ thread'[u].live = thread[u].live /\ (Flushes(u)' => Flushes(u))
                           \/ ~thread'[u].live /\ ~Flushes(u)'
                           \/ thread'[u].live <=> registered = "live"
    BY <2>1 DEF Flushes
  <2> QED
    BY <1>1, <2>1, <2>6, <2>7, AliveStep
<1>8. CASE HandlerEnds(t)
  <2>1. cpu = t /\ Return(t) /\ send_q' = send_q
    BY <1>8 DEF HandlerEnds, Reached, sendVars
  <2> QED
    BY <1>1, <1>2, <2>1, EarnedReturn
<1> QED
  BY <1>3, <1>4, <1>5, <1>6, <1>7, <1>8 DEF Proceed

LEMMA EarnedSwitch ==
  ASSUME EarnedInv, Disconnects = FALSE, SendLoop \/ Environment
  PROVE  (OneRuns /\ Alive /\ Earned)'
<1> USE DEF EarnedInv
<1>0. thread \in [Threads -> ThreadType]
  BY DEF TypeInv, TypeOK
<1>1. cpu = NoThread /\ trust_table' = trust_table
  BY DEF SendLoop, Environment, PacketIn, FlowExpires, Connect, Disconnect, SwitchCrash,
         LoseConnection, tableVars
<1>2. \A u \in Threads : thread'[u].at = thread[u].at /\ thread'[u].todo = thread[u].todo
  <2>1. CASE SwitchCrash
    <3>1. thread' = [t \in Threads |-> [thread[t] EXCEPT !.live = FALSE]]
      BY <2>1 DEF SwitchCrash, LoseConnection
    <3>2. \A t \in Threads : thread[t] \in ThreadType
      BY <1>0
    <3> QED
      BY <3>1, <3>2 DEF ThreadType
  <2>2. CASE ~SwitchCrash
    BY <2>2 DEF SendLoop, Environment, PacketIn, FlowExpires, Connect, Disconnect, threadVars
  <2> QED
    BY <2>1, <2>2
<1>3. ASSUME NEW g \in TrustRule, Survives(g)'
      PROVE  Survives(g)
  <2>1. CASE SendLoop
    BY <1>3, <2>1, SurvivesSendLoop
  <2>2. CASE SwitchCrash
    <3>1. flows' = {} /\ send_q' = <<>>
      BY <2>2 DEF SwitchCrash, LoseConnection
    <3> QED
      BY <1>3, <3>1 DEF Survives
  <2>3. CASE Environment /\ ~SwitchCrash
    <3>1. flows' \subseteq flows /\ send_q' = send_q
      BY <2>3 DEF Environment, PacketIn, FlowExpires, Connect, Disconnect, sendVars
    <3> QED
      BY <1>3, <3>1, SurvivesLess
  <2> QED
    BY <2>1, <2>2, <2>3
<1>4. \A g \in TrustRule : Survives(g)' => Counted(g)'
  BY <1>1, <1>3 DEF Earned, Counted
<1> QED
  BY <1>1, <1>2, <1>4, EarnedNobody, AliveSwitch

-----------------------------------------------------------------------------
(* Requests.                                                               *)

LEMMA RemovesKinds ==
  ASSUME NEW g
  PROVE  /\ \A h : ~Removes(Add(h), g)
         /\ \A x : Removes(Delete(x), g) <=> Covers(x, g.match)
         /\ \A x, h : Delete(x) # Add(h) /\ Delete(x) # Log
BY DEF Removes, Add, Delete, Log

\* A flush begins: its deletes take every rule that it is about.
LEMMA EarnedFlush ==
  ASSUME EarnedInv, NEW t \in Threads, cpu \in {t, NoThread}, NEW m, NEW n,
         NEW at \in {"forget_ip", "forget_all"}, NEW arg,
         Start(t, at, ToSwitch(<<m, n>>), registered = "live", arg),
         events' = events, registered' = registered, flows' = flows, send_q' = send_q,
         trust_table' = trust_table, m # Log, n # Log,
         \A g \in TrustRule :
           /\ m # Add(g) /\ n # Add(g)
           /\ at = "forget_all" \/ FlowKey(g) \in KeysOfIp(arg.ip) =>
                Removes(m, g) \/ Removes(n, g)
  PROVE  (OneRuns /\ Alive /\ Earned)'
<1> USE DEF EarnedInv
<1> DEFINE todo == ToSwitch(<<m, n>>)
           pair == <<m, n>>
<1>0. thread \in [Threads -> ThreadType]
  BY DEF TypeInv, TypeOK
<1>1. /\ thread'[t].at = at /\ thread'[t].todo = todo /\ thread'[t].arg = arg
      /\ thread'[t].live = (registered = "live") /\ cpu' = t
      /\ \A u \in Threads \ {t} : thread'[u] = thread[u]
  BY <1>0 DEF Start
<1>2. Len(pair) = 2 /\ pair[1] = m /\ pair[2] = n
  OBVIOUS
<1>3. /\ registered = "none" => todo = <<>>
      /\ registered # "none" => todo = pair
  BY DEF ToSwitch
<1> HIDE DEF todo, pair
<1>4. \A i \in 1..Len(todo) : todo[i] = m \/ todo[i] = n
  <2>1. \A i \in 1..Len(pair) : i = 1 \/ i = 2
    BY <1>2
  <2>2. CASE registered = "none"
    BY <1>3, <2>2
  <2>3. CASE registered # "none"
    BY <1>2, <1>3, <2>1, <2>3
  <2> QED
    BY <2>2, <2>3
<1>5. \A i \in 1..Len(thread'[t].todo) : thread'[t].todo[i] # Log
  BY <1>1, <1>4
<1>6. ASSUME NEW g \in TrustRule
      PROVE  /\ Survives(g)' => Counted(g)'
             /\ ~WillAdd(t, g)'
             /\ Concerns(t, g)' /\ Survives(g)' => WillRemove(t, g)'
  <2>1. Survives(g)' => Survives(g)
    BY SurvivesLess
  <2>2. Counted(g)' <=> Counted(g)
    BY DEF Counted
  <2>3. ~WillAdd(t, g)'
    BY <1>1, <1>4 DEF WillAdd
  <2>4. ASSUME Concerns(t, g)', Survives(g)
        PROVE  WillRemove(t, g)'
    <3>1. Removes(m, g) \/ Removes(n, g)
      BY <1>1, <2>4 DEF Concerns
    <3>2. registered = "live"
      BY <2>4, NothingSurvives DEF Alive
    <3>3. todo = pair
      BY <1>3, <3>2
    <3>4. \E i \in 1..Len(pair) : Removes(pair[i], g)
      <4>1. 1 \in 1..Len(pair) /\ 2 \in 1..Len(pair)
        BY <1>2
      <4> QED
        BY <1>2, <3>1, <4>1
    <3>5. \E i \in 1..Len(thread'[t].todo) : Removes(thread'[t].todo[i], g)
      BY <1>1, <3>3, <3>4
    <3> QED
      BY <3>5 DEF WillRemove, Removes
  <2> QED
    BY <2>1, <2>2, <2>3, <2>4 DEF Earned
<1>7. OneRuns' /\ Earned'
  BY <1>1, <1>5, <1>6, EarnedStep
<1>8. \A u \in Threads : \/ thread'[u].live = thread[u].live /\ (Flushes(u)' => Flushes(u))
                         \/ ~thread'[u].live /\ ~Flushes(u)'
                         \/ thread'[u].live <=> registered = "live"
  BY <1>1 DEF Flushes
<1> QED
  BY <1>7, <1>8, AliveStep

LEMMA EarnedRequest ==
  ASSUME EarnedInv, NEW t \in RestThreads, Request(t),
         \A r \in Requests : r.op # "add_blocked_port"
  PROVE  (OneRuns /\ Alive /\ Earned)'
<1> USE DEF EarnedInv
<1>0. thread \in [Threads -> ThreadType] /\ t \in Threads /\ HandlerOK(t, thread[t])
  BY ThreadFacts DEF TypeInv, TypeOK
<1>1. PICK r \in Requests : \/ AddBlockedIp(t, r)   \/ DelBlockedIp(t, r)
                            \/ AddBlockedPort(t, r) \/ DelBlockedPort(t, r)
                            \/ AddDpiPattern(t, r)  \/ DelDpiPattern(t, r)
  BY DEF Request
<1>2. TakeRequest(t, r)
  BY <1>1 DEF AddBlockedIp, DelBlockedIp, AddBlockedPort, DelBlockedPort,
              AddDpiPattern, DelDpiPattern
<1>3. /\ cpu = NoThread /\ thread[t].at = "idle"
      /\ trust_table' = trust_table /\ events' = events /\ registered' = registered
      /\ flows' = flows /\ send_q' = send_q
  BY <1>2 DEF TakeRequest, Busy, tableVars, sendVars, linkVars
<1>4. thread[t].todo = <<>> /\ ~Flushes(t)
  BY <1>0, <1>3 DEF HandlerOK, Flushes
<1>5. \A g \in TrustRule : (Counted(g) <=> Counted(g)') /\ (Survives(g)' => Counted(g)')
  BY <1>3, SurvivesLess DEF Counted, Earned
<1>6. CASE AddBlockedIp(t, r)
  <2>1. /\ thread'[t].at = "flush_ip" /\ thread'[t].todo = <<Log>> /\ ~thread'[t].live
        /\ cpu' = t /\ \A u \in Threads \ {t} : thread'[u] = thread[u]
    BY <1>0, <1>6 DEF AddBlockedIp, Start
  <2>2. ~Flushes(t)' /\ Plain(thread'[t].todo)
    BY <2>1, PlainTodos DEF Flushes
  <2>3. OneRuns' /\ Earned'
    BY <1>0, <1>3, <1>5, <2>1, <2>2, EarnedPlain
  <2>4. \A u \in Threads : \/ thread'[u].live = thread[u].live /\ (Flushes(u)' => Flushes(u))
                           \/ ~thread'[u].live /\ ~Flushes(u)'
                           \/ thread'[u].live <=> registered = "live"
    BY <2>1, <2>2 DEF Flushes
  <2> QED
    BY <1>3, <2>3, <2>4, AliveStep
<1>7. CASE AddDpiPattern(t, r)
  <2>1. Start(t, "forget_all", ToSwitch(<<Delete(AllIpv4), Add(PuntFlow)>>),
              registered = "live", r)
    BY <1>7 DEF AddDpiPattern
  <2>2. ASSUME NEW g \in TrustRule
        PROVE  /\ Delete(AllIpv4) # Add(g) /\ Add(PuntFlow) # Add(g)
               /\ Removes(Delete(AllIpv4), g)
    <3>1. Add(PuntFlow) = Add(g) => PuntFlow = g
      BY DEF Add
    <3> QED
      BY <3>1, NoTrustRule, TrustRuleFacts, RemovesKinds
  <2>3. Delete(AllIpv4) # Log /\ Add(PuntFlow) # Log
    BY DEF Delete, Add, Log
  <2>4. cpu \in {t, NoThread} /\ "forget_all" \in {"forget_ip", "forget_all"}
    BY <1>3
  <2> QED
    BY <1>0, <1>3, <2>1, <2>2, <2>3, <2>4, EarnedFlush
<1>8. CASE ~AddBlockedIp(t, r) /\ ~AddDpiPattern(t, r)
  <2>1. ~AddBlockedPort(t, r)
    BY DEF AddBlockedPort
  <2>2. thread' = thread
    BY <1>1, <1>8, <2>1 DEF DelBlockedIp, DelBlockedPort, DelDpiPattern, threadVars
  <2>3. thread'[t].todo = <<>> /\ ~Flushes(t)' /\ (~thread'[t].live \/ thread[t].live)
    BY <1>4, <2>2 DEF Flushes
  <2> QED
    BY <1>0, <1>3, <1>5, <2>2, <2>3, EarnedRest
<1> QED
  BY <1>6, <1>7, <1>8

LEMMA EarnedRequestContinues ==
  ASSUME EarnedInv, NEW t \in RestThreads, RequestContinues(t),
         \A r \in Requests : r.op # "add_blocked_port"
  PROVE  (OneRuns /\ Alive /\ Earned)'
<1> USE DEF EarnedInv
<1>0. /\ thread \in [Threads -> ThreadType] /\ t \in Threads /\ t # LOOP
      /\ LOOP \in Threads /\ HandlerOK(t, thread[t])
  BY ThreadFacts DEF TypeInv, TypeOK
<1>1. CASE FlushIp(t)
  <2> DEFINE ip == thread[t].arg.ip
  <2>1. /\ cpu = t /\ trust_table' = trust_table /\ events' = events
        /\ registered' = registered /\ flows' = flows /\ send_q' = send_q
        /\ Start(t, "forget_ip", ToSwitch(<<Delete(FromIp(ip)), Delete(ToIp(ip))>>),
                 registered = "live", thread[t].arg)
    BY <1>1 DEF FlushIp, Reached, tableVars, sendVars, linkVars
  <2>2. PICK arg : arg = thread[t].arg
    OBVIOUS
  <2>3. ASSUME NEW g \in TrustRule
        PROVE  /\ Delete(FromIp(ip)) # Add(g) /\ Delete(ToIp(ip)) # Add(g)
               /\ FlowKey(g) \in KeysOfIp(arg.ip) =>
                    Removes(Delete(FromIp(ip)), g) \/ Removes(Delete(ToIp(ip)), g)
    BY <2>2, TrustRuleFacts, RemovesKinds
  <2>4. Delete(FromIp(ip)) # Log /\ Delete(ToIp(ip)) # Log
    BY DEF Delete, Log
  <2>5. PICK m, n : m = Delete(FromIp(ip)) /\ n = Delete(ToIp(ip))
    OBVIOUS
  <2> HIDE DEF ip
  <2>6. /\ Start(t, "forget_ip", ToSwitch(<<m, n>>), registered = "live", arg)
        /\ m # Log /\ n # Log
        /\ \A g \in TrustRule :
             /\ m # Add(g) /\ n # Add(g)
             /\ FlowKey(g) \in KeysOfIp(arg.ip) => Removes(m, g) \/ Removes(n, g)
    BY <2>1, <2>2, <2>3, <2>4, <2>5
  <2>7. cpu \in {t, NoThread} /\ "forget_ip" \in {"forget_ip", "forget_all"}
        /\ "forget_ip" # "forget_all"
    BY <2>1
  <2> QED
    BY <1>0, <2>1, <2>6, <2>7, EarnedFlush
<1>2. CASE FlushPort(t) \/ ForgetPort(t)
  <2>1. thread[t].at \in {"flush_port", "forget_port"}
    BY <1>2 DEF FlushPort, ForgetPort, Reached
  <2>2. thread[t].arg \in ReqOf("add_blocked_port")
    BY <1>0, <2>1 DEF HandlerOK
  <2> QED
    BY <2>2 DEF ReqOf
<1>3. ASSUME NEW S, Forget(t, S), cpu = t, thread[t].todo = <<>>,
             \A g \in TrustRule : FlowKey(g) \in S => Concerns(t, g)
      PROVE  (OneRuns /\ Alive /\ Earned)'
  <2>1. /\ events' = events /\ registered' = registered /\ flows' = flows
        /\ send_q' = send_q
        /\ trust_table' = [k \in Keys |-> IF k \in S THEN FreshEntry ELSE trust_table[k]]
        /\ thread' = [thread EXCEPT ![t] = Idle,
                        ![LOOP].attached = @ /\ KeyOf(thread[LOOP].arg) \notin S]
    BY <1>3 DEF Forget, sendVars, linkVars
  <2>2. /\ thread'[t] = Idle
        /\ \A u \in Threads \ {t} : /\ thread'[u].at = thread[u].at
                                    /\ thread'[u].todo = thread[u].todo
                                    /\ thread'[u].live = thread[u].live
    BY <1>0, <2>1 DEF ThreadType
  <2>3. /\ thread'[t].todo \in Sent /\ ~Flushes(t)' /\ ~thread'[t].live
        /\ Plain(thread'[t].todo)
    BY <2>2, PlainTodos DEF Idle, Flushes, Sent
  <2>4. ASSUME NEW g \in TrustRule, Survives(g)'
        PROVE  Counted(g)'
    <3>1. Survives(g)
      BY <2>1, <2>4, SurvivesLess
    <3>2. ~WillRemove(t, g)
      BY <1>3 DEF WillRemove
    <3>3. Counted(g) /\ ~Concerns(t, g)
      BY <1>0, <3>1, <3>2 DEF Earned
    <3>4. FlowKey(g) \in Keys /\ FlowKey(g) \notin S
      BY <1>3, <3>3, TrustRuleFacts
    <3> QED
      BY <2>1, <3>3, <3>4 DEF Counted
  <2>5. OneRuns' /\ Earned'
    BY <1>0, <1>3, <2>2, <2>3, <2>4, EarnedPlain
  <2>6. \A u \in Threads : \/ thread'[u].live = thread[u].live /\ (Flushes(u)' => Flushes(u))
                           \/ ~thread'[u].live /\ ~Flushes(u)'
                           \/ thread'[u].live <=> registered = "live"
    BY <2>2, <2>3 DEF Flushes
  <2> QED
    BY <2>1, <2>5, <2>6, AliveStep
<1>4. CASE ForgetIp(t)
  <2>1. PICK S : S = KeysOfIp(thread[t].arg.ip)
    OBVIOUS
  <2>2. /\ cpu = t /\ thread[t].todo = <<>> /\ thread[t].at = "forget_ip"
        /\ Forget(t, S)
    BY <1>4, <2>1 DEF ForgetIp, Reached
  <2>3. \A g \in TrustRule : FlowKey(g) \in S => Concerns(t, g)
    BY <2>1, <2>2 DEF Concerns
  <2> QED
    BY <1>3, <2>2, <2>3
<1>5. CASE ForgetAll(t)
  <2>1. /\ cpu = t /\ thread[t].todo = <<>> /\ thread[t].at = "forget_all"
        /\ Forget(t, Keys)
    BY <1>5 DEF ForgetAll, Reached
  <2>2. \A g \in TrustRule : Concerns(t, g)
    BY <2>1 DEF Concerns
  <2> QED
    BY <1>3, <2>1, <2>2
<1> QED
  BY <1>1, <1>2, <1>4, <1>5 DEF RequestContinues

-----------------------------------------------------------------------------

LEMMA EarnedNext ==
  ASSUME EarnedInv, [Next]_vars, [NoSendWaits]_vars, Disconnects = FALSE,
         \A r \in Requests : r.op # "add_blocked_port"
  PROVE  EarnedInv'
<1>1. (TypeInv /\ WayKnown)'
  BY TypeNext DEF EarnedInv
<1>2. waiters' = <<>>
  BY DEF EarnedInv, NoSendWaits, vars, sendVars
<1>3. CASE UNCHANGED vars
  <2>1. /\ thread' = thread /\ cpu' = cpu /\ events' = events /\ send_q' = send_q
        /\ registered' = registered /\ flows' = flows /\ trust_table' = trust_table
    BY <1>3 DEF vars, threadVars, sendVars, linkVars, tableVars
  <2>2. OneRuns' /\ Alive'
    BY <2>1 DEF EarnedInv, OneRuns, Alive, Flushes
  <2>3. Earned'
    BY <2>1 DEF EarnedInv, Earned, Survives, Removes, Counted, WillAdd, WillRemove,
                Concerns, Flushes
  <2> QED
    BY <1>1, <1>2, <2>2, <2>3 DEF EarnedInv
<1>4. CASE Next
  <2>1. (OneRuns /\ Alive /\ Earned)'
    BY <1>2, <1>4, EarnedHandleEvent, EarnedLoopContinues, EarnedProceed, EarnedSwitch,
       EarnedClientActs, EarnedRequest, EarnedRequestContinues DEF Next
  <2> QED
    BY <1>1, <1>2, <2>1 DEF EarnedInv
<1> QED
  BY <1>3, <1>4

LEMMA EarnedInit == Init => EarnedInv
<1> SUFFICES ASSUME Init PROVE EarnedInv
  OBVIOUS
<1>1. /\ TypeInv /\ WayKnown /\ waiters = <<>> /\ flows = {} /\ send_q = <<>>
      /\ events = <<>> /\ registered = "none"
      /\ \A t \in Threads : thread[t] = Idle
      /\ \A k \in Keys : trust_table[k] = FreshEntry
  BY TypeInit DEF Init
<1>2. \A t \in Threads : /\ thread[t].todo = <<>> /\ ~Flushes(t) /\ ~thread[t].live
                         /\ thread[t].at = "idle"
  BY <1>1 DEF Idle, Flushes
<1>3. OneRuns
  BY <1>2 DEF OneRuns, Sent
<1>4. Alive
  BY <1>1, <1>2 DEF Alive
<1>5. Earned
  BY <1>1, <1>2, NothingSurvives DEF Earned, WillAdd, Concerns
<1> QED
  BY <1>1, <1>3, <1>4, <1>5 DEF EarnedInv

(* A trust rule in the switch was earned by K clean packets that are still *)
(* on record: whatever flushes of addresses and patterns, packets, slow    *)
(* clients and restarts of the switch come together, a flush takes the     *)
(* rule along with the record.  The theorem names the three ways in which  *)
(* the code loses that: a connection that breaks while the switch keeps    *)
(* its rules, a send that waits for a slot in the middle of a flush, and   *)
(* the flush of a port, which deletes the rule of one direction only.      *)
THEOREM TrustIsEarned ==
  ASSUME Disconnects = FALSE, \A r \in Requests : r.op # "add_blocked_port"
  PROVE  Spec /\ [][NoSendWaits]_vars => []TrustEarned
<1>1. EarnedInv /\ [Next]_vars /\ [NoSendWaits]_vars => EarnedInv'
  BY EarnedNext
<1>2. EarnedInv => TrustEarned
  <2> SUFFICES ASSUME EarnedInv, Quiet, NEW g \in TrustRules
               PROVE  trust_table[FlowKey(g)].count >= TRUST_K
    BY DEF TrustEarned
  <2>1. g \in TrustRule /\ g \in flows /\ send_q = <<>>
    BY DEF EarnedInv, TypeInv, TypeOK, TrustRules, TrustRule, Quiet
  <2>2. Survives(g)
    BY <2>1 DEF Survives
  <2> QED
    BY <2>1, <2>2 DEF EarnedInv, Earned, Counted
<1> QED
  BY <1>1, <1>2, EarnedInit, PTL DEF Spec
=============================================================================
