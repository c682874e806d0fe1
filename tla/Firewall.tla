------------------------------ MODULE Firewall ------------------------------
(***************************************************************************)
(* FirewallApp (firewall_app.py), the REST requests that change it         *)
(* (firewall_wsgi.py) and the one switch it programs, as they run on       *)
(* Ryu's green threads.                                                    *)
(*                                                                         *)
(* Green threads are not preempted: a thread keeps the processor until it  *)
(* blocks.  The threads here are the application's event loop, which takes *)
(* one event at a time from its queue, and one thread per REST request.    *)
(* They block in two places only: in Datapath.send, when the send queue    *)
(* has no free slot, and in _log, when a WebSocket client is slow to read; *)
(* and _log raises, which ends the handler, when a client is broken.       *)
(* A handler is therefore a list of things to send (todo) followed by what *)
(* the code does after the last of them (at); everything between two       *)
(* sends is one atomic step.                                               *)
(***************************************************************************)
EXTENDS OpenFlow

CONSTANTS
  Traffic,           \* the frames the hosts may send
  Buffers,           \* whether a packet-in may refer to a buffer of the switch
  Bytes,             \* the byte values of payloads
  Builtins,          \* the built-in DPI patterns
  Search(_, _),      \* Search(p, b): the regular expression of p occurs in b
  TRUST_K,           \* clean packets before a trust flow is installed
  MAX_BUFFER_BYTES,  \* inspected bytes per direction of a flow
  RateLimitable,     \* the sources that may be found over their rate limit
  Requests,          \* the REST requests administrators may make
  RestThreads,       \* the requests that can be under way at the same time
  SendCap,           \* slots of Datapath.send_q
  EventCap,          \* slots of the application's event queue
  SlowClients,       \* a WebSocket client may block _log
  BrokenClients,     \* a WebSocket client may make _log raise
  MaxAborts,         \* bound: installations of a flow that _log cuts short
  Disconnects,       \* the connection to the switch may break
  Crashes            \* the switch may restart and forget its flow table

LOOP     == "loop"
Threads  == {LOOP} \cup RestThreads
NoThread == "none"

\* The six control bits of a TCP header that ryu's parser keeps.
TcpFlags == {"FIN", "SYN", "RST", "PSH", "ACK", "URG"}

Frame == [in_port : Nat \ {0}, eth_src : Int, eth_dst : Int, eth_type : Nat,
          ip_proto : Int, ipv4_src : Int, ipv4_dst : Int, tp_src : Int,
          tp_dst : Int, arp_sha : Int, arp_spa : Int,
          flags : SUBSET TcpFlags, payload : Seq(Bytes)]

ASSUME TrafficAssumption == Traffic \subseteq Frame
ASSUME BoundsAssumption ==
  /\ TRUST_K \in Nat \ {0}
  /\ MAX_BUFFER_BYTES \in Nat
  /\ SendCap \in Nat \ {0}
  /\ EventCap \in Nat \ {0}
  /\ MaxAborts \in Nat
ASSUME ThreadsAssumption == NoThread \notin Threads /\ LOOP \notin RestThreads
ASSUME SwitchesAssumption ==
  /\ Buffers \subseteq BOOLEAN
  /\ SlowClients \in BOOLEAN
  /\ BrokenClients \in BOOLEAN
  /\ Disconnects \in BOOLEAN
  /\ Crashes \in BOOLEAN

-----------------------------------------------------------------------------
(* Flow keys, rules and patterns: the pure parts of the application.       *)

IsTcp(f)    == f.eth_type = 2048 /\ f.ip_proto = 6
HasPorts(f) == f.eth_type = 2048 /\ f.ip_proto \in {6, 17}

Sender(f)   == <<f.ipv4_src, f.tp_src>>
Receiver(f) == <<f.ipv4_dst, f.tp_dst>>

\* Python's order on (ip, port) tuples.
AtMost(a, b) == a[1] < b[1] \/ (a[1] = b[1] /\ a[2] <= b[2])

TrustKey(proto, a, b) == IF AtMost(a, b) THEN <<proto, a, b>> ELSE <<proto, b, a>>

KeyOf(f) == TrustKey(f.ip_proto, Sender(f), Receiver(f))

Keys == {KeyOf(f) : f \in {g \in Traffic : HasPorts(g)}}

Macs == {f.eth_src : f \in Traffic} \cup {f.eth_dst : f \in Traffic}
Ips  == {f.arp_spa : f \in Traffic}

\* No MAC or port is known: a MAC address and a port are positive.
UNKNOWN == 0

\* A TrustEntry, and a history of it that the code does not keep: how many
\* installations of its trust flow a raising _log has cut short.
Entry == [count : Nat, installed : BOOLEAN, buf_a : Seq(Bytes),
          buf_b : Seq(Bytes), blocked : BOOLEAN, aborted : Nat]

\* The entry that _get_or_create_flow_entry makes.  A key that is not in the
\* code's trust_table has this entry here: the two behave alike.
FreshEntry == [count |-> 0, installed |-> FALSE, buf_a |-> <<>>,
               buf_b |-> <<>>, blocked |-> FALSE, aborted |-> 0]

\* The rule that sends what no other rule matches to the controller.
MissFlow == [priority |-> 0, match |-> [x \in {} |-> 0],
             out |-> CONTROLLER, timed |-> FALSE]

\* The matches of the rules and of the deletes the firewall sends.
AllIpv4            == [eth_type |-> 2048]
FromIp(ip)         == [eth_type |-> 2048, ipv4_src |-> ip]
ToIp(ip)           == [eth_type |-> 2048, ipv4_dst |-> ip]
ToPort(port, proto) == [eth_type |-> 2048, ip_proto |-> proto, tp_dst |-> port]

\* The rule that sends IPv4 to the controller unless a trust flow matches.
PuntFlow == [priority |-> 300, match |-> AllIpv4,
             out |-> CONTROLLER, timed |-> FALSE]

RateLimitFlow(f) == [priority |-> 200, match |-> FromIp(f.ipv4_src),
                     out |-> DROP, timed |-> TRUE]

ArpSpoofFlow(f) == [priority |-> 200,
                    match    |-> [eth_type |-> 2054, arp_spa |-> f.arp_spa],
                    out      |-> DROP, timed |-> TRUE]

LearnedFlow(f, port) ==
  [priority |-> 1,
   match    |-> [in_port |-> f.in_port, eth_dst |-> f.eth_dst, eth_src |-> f.eth_src],
   out      |-> port, timed |-> FALSE]

TrustFlow(proto, from, to, port) ==
  [priority |-> 400,
   match    |-> [eth_type |-> 2048, ip_proto |-> proto,
                 ipv4_src |-> from[1], ipv4_dst |-> to[1],
                 tp_src   |-> from[2], tp_dst   |-> to[2]],
   out      |-> port, timed |-> TRUE]

\* The rules _install_trust_flow sends: one per direction.
TrustFlows(f, out_port) ==
  << TrustFlow(f.ip_proto, Sender(f), Receiver(f), out_port),
     TrustFlow(f.ip_proto, Receiver(f), Sender(f), f.in_port) >>

\* The combinations of control bits that no honest sender produces.
CheckTcpFlags(flags) ==
  IF      {"FIN", "PSH", "URG"} \subseteq flags THEN "XMAS_SCAN"
  ELSE IF flags = {}                            THEN "NULL_SCAN"
  ELSE IF {"SYN", "FIN"} \subseteq flags        THEN "SYN_FIN"
  ELSE IF {"SYN", "RST"} \subseteq flags        THEN "SYN_RST"
  ELSE IF flags = {"FIN"}                       THEN "FIN_SCAN"
  ELSE "ALLOWED"

-----------------------------------------------------------------------------
VARIABLES
  blocked_ips,    \* source addresses the administrator blocks
  blocked_ports,  \* <<port, proto>> pairs the administrator blocks
  patterns,       \* the DPI patterns in force
  mac_to_port,    \* the port behind which a MAC address was last seen
  arp_table,      \* the MAC address an IP address was first announced with
  trust_table,    \* the per-flow record of packets, payload and verdict
  thread,         \* what each green thread is doing
  cpu,            \* the thread that runs, NoThread when all are blocked
  events,         \* the event queue of the application
  send_q,         \* the messages on their way to the switch
  waiters,        \* the threads blocked in Datapath.send, first come first served
  registered,     \* self.datapaths: no switch yet, a live or a dead connection
  connected,      \* the connection to the switch is up
  flows           \* the flow table of the switch

ruleVars   == <<blocked_ips, blocked_ports, patterns>>
tableVars  == <<mac_to_port, arp_table, trust_table>>
threadVars == <<thread, cpu>>
sendVars   == <<send_q, waiters>>
linkVars   == <<registered, connected>>
vars == <<ruleVars, tableVars, threadVars, events, sendVars, linkVars, flows>>

NoArg == [op |-> "none"]

Idle == [at |-> "idle", todo |-> <<>>, live |-> FALSE, arg |-> NoArg,
         attached |-> FALSE]

\* A call of _log that other code follows: a client may block it or make it
\* raise.
Log == [cmd |-> "log"]

Init ==
  /\ blocked_ips = {}
  /\ blocked_ports = {}
  /\ patterns = Builtins
  /\ mac_to_port = [m \in Macs |-> UNKNOWN]
  /\ arp_table = [i \in Ips |-> UNKNOWN]
  /\ trust_table = [k \in Keys |-> FreshEntry]
  /\ thread = [t \in Threads |-> Idle]
  /\ cpu = NoThread
  /\ events = <<>>
  /\ send_q = <<>>
  /\ waiters = <<>>
  /\ registered = "none"
  /\ connected = FALSE
  /\ flows = {}

-----------------------------------------------------------------------------
(* Green threads.                                                          *)

\* Thread t starts a handler: it will send todo to the connection it holds
\* (live or dead) and then go on at the given place.
Start(t, at, todo, live, arg) ==
  /\ thread' = [thread EXCEPT ![t] = [at |-> at, todo |-> todo, live |-> live,
                                      arg |-> arg, attached |-> FALSE]]
  /\ cpu' = t

\* The handler of t returns.
Return(t) ==
  /\ thread' = [thread EXCEPT ![t] = Idle]
  /\ cpu' = NoThread

\* Thread t has sent everything and continues at the given place.
Reached(t, at) == cpu = t /\ thread[t].at = at /\ thread[t].todo = <<>>

Busy(t) == thread[t].at # "idle"

\* A thread gets a slot of the send queue at once only if nobody waits for one.
SlotFree == Len(send_q) < SendCap /\ waiters = <<>>

\* Datapath.send on a connection that is gone discards the message.
SendDiscard(t) ==
  /\ cpu = t
  /\ thread[t].todo # <<>>
  /\ Head(thread[t].todo) # Log
  /\ ~thread[t].live
  /\ thread' = [thread EXCEPT ![t].todo = Tail(@)]
  /\ UNCHANGED <<ruleVars, tableVars, cpu, events, sendVars, linkVars, flows>>

SendNow(t) ==
  /\ cpu = t
  /\ thread[t].todo # <<>>
  /\ Head(thread[t].todo) # Log
  /\ thread[t].live
  /\ SlotFree
  /\ send_q' = Append(send_q, Head(thread[t].todo))
  /\ thread' = [thread EXCEPT ![t].todo = Tail(@)]
  /\ UNCHANGED <<ruleVars, tableVars, cpu, events, waiters, linkVars, flows>>

\* No slot: the thread blocks on the semaphore of the send queue.
SendBlock(t) ==
  /\ cpu = t
  /\ thread[t].todo # <<>>
  /\ Head(thread[t].todo) # Log
  /\ thread[t].live
  /\ ~SlotFree
  /\ waiters' = Append(waiters, t)
  /\ cpu' = NoThread
  /\ UNCHANGED <<ruleVars, tableVars, thread, events, send_q, linkVars, flows>>

\* Faulty variant: the slot goes to the thread that came last.
SendResumeLast(t) ==
  /\ cpu = NoThread
  /\ waiters # <<>>
  /\ t = waiters[Len(waiters)]
  /\ Len(send_q) < SendCap
  /\ waiters' = SubSeq(waiters, 1, Len(waiters) - 1)
  /\ send_q' = Append(send_q, Head(thread[t].todo))
  /\ thread' = [thread EXCEPT ![t].todo = Tail(@)]
  /\ cpu' = t
  /\ UNCHANGED <<ruleVars, tableVars, events, linkVars, flows>>

\* The first thread that waits gets the slot the send loop has released.
SendResume(t) ==
  /\ cpu = NoThread
  /\ waiters # <<>>
  /\ t = Head(waiters)
  /\ Len(send_q) < SendCap
  /\ waiters' = Tail(waiters)
  /\ send_q' = Append(send_q, Head(thread[t].todo))
  /\ thread' = [thread EXCEPT ![t].todo = Tail(@)]
  /\ cpu' = t
  /\ UNCHANGED <<ruleVars, tableVars, events, linkVars, flows>>

\* The next thing thread t does is to log.  It stays in this state while it
\* waits, without the processor, for a client that is slow to read.
AtLog(t) == thread[t].todo # <<>> /\ Head(thread[t].todo) = Log

WaitsForClient(t) == cpu # t /\ AtLog(t)

\* _log returns at once.
LogEvent(t) ==
  /\ cpu = t
  /\ AtLog(t)
  /\ thread' = [thread EXCEPT ![t].todo = Tail(@)]
  /\ UNCHANGED <<ruleVars, tableVars, cpu, events, sendVars, linkVars, flows>>

\* A client does not read: ws.send blocks, without a timeout.
LogWaits(t) ==
  /\ SlowClients
  /\ cpu = t
  /\ AtLog(t)
  /\ cpu' = NoThread
  /\ UNCHANGED <<ruleVars, tableVars, thread, events, sendVars, linkVars, flows>>

\* The client has read: _log returns.
LogResumes(t) ==
  /\ cpu = NoThread
  /\ AtLog(t)
  /\ thread' = [thread EXCEPT ![t].todo = Tail(@)]
  /\ cpu' = t
  /\ UNCHANGED <<ruleVars, tableVars, events, sendVars, linkVars, flows>>

\* A client is gone: ws.send raises, at once or after a wait, and so does _log.
\* The handler ends here; what should have followed is not done.
LogRaises(t) ==
  LET k == KeyOf(thread[t].arg) IN
  /\ BrokenClients
  /\ cpu \in {t, NoThread}
  /\ AtLog(t)
  /\ IF thread[t].at = "installed" /\ thread[t].attached
     THEN /\ trust_table[k].aborted < MaxAborts
          /\ trust_table' = [trust_table EXCEPT ![k].aborted = @ + 1]
     ELSE UNCHANGED trust_table
  /\ Return(t)
  /\ UNCHANGED <<ruleVars, mac_to_port, arp_table, events, sendVars, linkVars, flows>>

\* A thread that waited for a slot on a connection that is gone by now gets
\* the processor.
WakeUp(t) ==
  /\ cpu = NoThread
  /\ Busy(t)
  /\ ~AtLog(t)
  /\ \A i \in 1..Len(waiters) : waiters[i] # t
  /\ cpu' = t
  /\ UNCHANGED <<ruleVars, tableVars, thread, events, sendVars, linkVars, flows>>

\* A handler whose last step was a send.
HandlerEnds(t) ==
  /\ Reached(t, "end")
  /\ Return(t)
  /\ UNCHANGED <<ruleVars, tableVars, events, sendVars, linkVars, flows>>

-----------------------------------------------------------------------------
(* The switch and the connection to it.                                    *)

\* Datapath._send_loop takes a message and the switch carries it out.
SendLoop ==
  /\ cpu = NoThread
  /\ connected
  /\ send_q # <<>>
  /\ flows' = Apply(flows, Head(send_q))
  /\ send_q' = Tail(send_q)
  /\ UNCHANGED <<ruleVars, tableVars, threadVars, events, waiters, linkVars>>

\* A host sends a frame and the rule it hits sends it to the controller.
PacketIn(f) ==
  /\ cpu = NoThread
  /\ connected
  /\ Len(events) < EventCap
  /\ \E g \in BestHits(flows, f) : g.out = CONTROLLER
  /\ events' = Append(events, [kind |-> "packet", frame |-> f, live |-> TRUE])
  /\ UNCHANGED <<ruleVars, tableVars, threadVars, sendVars, linkVars, flows>>

\* A rule with a timeout expires.
FlowExpires(g) ==
  /\ cpu = NoThread
  /\ g \in flows
  /\ g.timed
  /\ flows' = flows \ {g}
  /\ UNCHANGED <<ruleVars, tableVars, threadVars, events, sendVars, linkVars>>

\* The switch connects; the features reply is the first event of a connection.
Connect ==
  /\ cpu = NoThread
  /\ ~connected
  /\ Len(events) < EventCap
  /\ connected' = TRUE
  /\ events' = Append(events, [kind |-> "features", frame |-> NoArg, live |-> TRUE])
  /\ UNCHANGED <<ruleVars, tableVars, threadVars, sendVars, registered, flows>>

\* The connection breaks: what is queued is lost, the threads that wait for a
\* slot are released, and every reference to the connection is now dead.
LoseConnection ==
  /\ cpu = NoThread
  /\ connected
  /\ connected' = FALSE
  /\ send_q' = <<>>
  /\ waiters' = <<>>
  /\ registered' = IF registered = "live" THEN "dead" ELSE registered
  /\ thread' = [t \in Threads |-> [thread[t] EXCEPT !.live = FALSE]]
  /\ events' = [i \in 1..Len(events) |-> [events[i] EXCEPT !.live = FALSE]]
  /\ UNCHANGED <<ruleVars, tableVars, cpu>>

\* fail-mode secure: the switch keeps its rules when it loses the controller.
Disconnect == Disconnects /\ LoseConnection /\ UNCHANGED flows

SwitchCrash == Crashes /\ LoseConnection /\ flows' = {}

-----------------------------------------------------------------------------
(* The checks of a packet.                                                 *)

\* DPIEngine.inspect: some pattern in force occurs in the bytes.
Inspect(bytes) == bytes # <<>> /\ \E p \in patterns : Search(p, bytes)

FromA(f) == Sender(f) = KeyOf(f)[2]

Buffer(f) == IF FromA(f) THEN trust_table[KeyOf(f)].buf_a
                         ELSE trust_table[KeyOf(f)].buf_b

\* Faulty variant: the limit of the buffer is not enforced.
ExtendUnbounded(buf, b) == buf \o b

\* What fits of b is appended; a full buffer is left as it is.
Extend(buf, b) ==
  LET room == MAX_BUFFER_BYTES - Len(buf)
  IN  IF room <= 0 THEN buf
      ELSE buf \o (IF Len(b) <= room THEN b ELSE SubSeq(b, 1, room))

\* Faulty variant: the verdict of an earlier packet is not looked at.
CheckDpiForgetful(f) ==
  IF f.payload # <<>> /\ Inspect(Extend(Buffer(f), f.payload)) THEN "DPI_MATCH"
  ELSE "ALLOWED"

CheckDpi(f) ==
  IF      trust_table[KeyOf(f)].blocked                THEN "DPI_BLOCKED"
  ELSE IF f.payload = <<>>                             THEN "ALLOWED"
  ELSE IF Inspect(Extend(Buffer(f), f.payload))        THEN "DPI_MATCH"
  ELSE "ALLOWED"

\* The buffer of the sender's direction takes the payload; a match blocks
\* the flow.  Without payload nothing is inspected.
Inspected(f) ==
  LET buf == Extend(Buffer(f), f.payload)
      e   == trust_table[KeyOf(f)]
  IN  IF ~IsTcp(f) \/ f.payload = <<>> THEN trust_table
      ELSE [trust_table EXCEPT ![KeyOf(f)] =
             IF FromA(f) THEN [e EXCEPT !.buf_a = buf, !.blocked = @ \/ Inspect(buf)]
                         ELSE [e EXCEPT !.buf_b = buf, !.blocked = @ \/ Inspect(buf)]]

PortBlocked(f) == HasPorts(f) /\ <<f.tp_dst, f.ip_proto>> \in blocked_ports

\* ipv4_packet_handler: the first check that objects decides.  The verdict of
\* _check_ip_rate_limit is given.
CheckIp(f, rate) ==
  IF      f.ipv4_src \in blocked_ips            THEN "IP_BLOCKED"
  ELSE IF rate # "ALLOWED"                      THEN rate
  ELSE IF PortBlocked(f)                        THEN "PORT_BLOCKED"
  ELSE IF f.ip_proto # 6                        THEN "ALLOWED"
  ELSE IF CheckTcpFlags(f.flags) # "ALLOWED"    THEN CheckTcpFlags(f.flags)
  ELSE CheckDpi(f)

\* The verdicts that drop a packet without sending or logging anything that
\* another step follows.
Silent == {"IP_BLOCKED", "PORT_BLOCKED", "XMAS_SCAN", "NULL_SCAN", "SYN_FIN",
           "SYN_RST", "FIN_SCAN", "DPI_BLOCKED"}

\* Faulty variant: the claim is compared with the Ethernet header instead of
\* the table.
CheckArpSpoofByHeader(f) ==
  IF f.arp_sha = f.eth_src THEN "ALLOWED" ELSE "ARP_SPOOF"

CheckArpSpoof(f) ==
  IF arp_table[f.arp_spa] \in {UNKNOWN, f.arp_sha} THEN "ALLOWED" ELSE "ARP_SPOOF"

\* The MAC address of the sender is learned whatever the verdict.
Learn(f) == [mac_to_port EXCEPT ![f.eth_src] = f.in_port]

-----------------------------------------------------------------------------
(* _packet_in_handler and switch_handshake_handler, up to their first send *)
(* or, when they send nothing, to their end.                               *)

TakeEvent(kind) ==
  /\ cpu = NoThread
  /\ ~Busy(LOOP)
  /\ events # <<>>
  /\ Head(events).kind = kind
  /\ events' = Tail(events)
  /\ UNCHANGED <<ruleVars, sendVars, flows>>

\* IPv6, LLDP and all other ethertypes are ignored.
IgnorePacket ==
  /\ TakeEvent("packet")
  /\ Head(events).frame.eth_type \notin {2048, 2054}
  /\ UNCHANGED <<tableVars, threadVars, linkVars>>

\* _check_ip_rate_limit: the source may be found over its limit at any time.
CheckIpRateLimit(f) ==
  {"ALLOWED"} \cup (IF f.ipv4_src \in RateLimitable THEN {"RATE_LIMITED"} ELSE {})

\* A static rule, the TCP flags or an earlier DPI verdict drops the packet.
DropPacket ==
  LET f == Head(events).frame IN
  /\ TakeEvent("packet")
  /\ f.eth_type = 2048
  /\ \E rate \in CheckIpRateLimit(f) : CheckIp(f, rate) \in Silent
  /\ mac_to_port' = Learn(f)
  /\ UNCHANGED <<arp_table, trust_table, threadVars, linkVars>>

\* The source is over its limit: a drop rule is sent before the MAC is learned.
RateLimitPacket ==
  LET f == Head(events).frame IN
  /\ TakeEvent("packet")
  /\ f.eth_type = 2048
  /\ \E rate \in CheckIpRateLimit(f) : CheckIp(f, rate) = "RATE_LIMITED"
  /\ Start(LOOP, "drop", <<Add(RateLimitFlow(f))>>, Head(events).live, f)
  /\ UNCHANGED <<tableVars, linkVars>>

\* A pattern matches: the flow is blocked, then logged.
DpiBlockPacket ==
  LET f == Head(events).frame IN
  /\ TakeEvent("packet")
  /\ f.eth_type = 2048
  /\ CheckIp(f, "ALLOWED") = "DPI_MATCH"
  /\ trust_table' = Inspected(f)
  /\ Start(LOOP, "drop", <<Log>>, Head(events).live, f)
  /\ UNCHANGED <<mac_to_port, arp_table, linkVars>>

\* The packet is sent on.  If its way is known and it is TCP or UDP, it counts
\* for the trust of its flow.
AllowPacket ==
  LET f == Head(events).frame IN
  /\ TakeEvent("packet")
  /\ f.eth_type = 2048
  /\ CheckIp(f, "ALLOWED") = "ALLOWED"
  /\ trust_table' = Inspected(f)
  /\ mac_to_port' = Learn(f)
  /\ Start(LOOP,
           IF Learn(f)[f.eth_dst] # UNKNOWN /\ HasPorts(f) THEN "trust" ELSE "end",
           <<PacketOut>>, Head(events).live, f)
  /\ UNCHANGED <<arp_table, linkVars>>

\* The sender of an ARP packet claims an address that is bound to another MAC.
ArpSpoofPacket ==
  LET f == Head(events).frame IN
  /\ TakeEvent("packet")
  /\ f.eth_type = 2054
  /\ CheckArpSpoof(f) = "ARP_SPOOF"
  /\ Start(LOOP, "drop", <<Add(ArpSpoofFlow(f))>>, Head(events).live, f)
  /\ UNCHANGED <<tableVars, linkVars>>

\* An ARP packet binds its sender's address.  If its way is known, a rule is
\* installed for the two MAC addresses; that rule also sends a buffered packet.
AllowArp ==
  LET f    == Head(events).frame
      port == Learn(f)[f.eth_dst]
  IN
  /\ TakeEvent("packet")
  /\ f.eth_type = 2054
  /\ CheckArpSpoof(f) = "ALLOWED"
  /\ arp_table' = [arp_table EXCEPT ![f.arp_spa] = f.arp_sha]
  /\ mac_to_port' = Learn(f)
  /\ \E buffered \in Buffers :
       Start(LOOP, "end",
             IF port = UNKNOWN THEN <<PacketOut>>
             ELSE IF buffered  THEN <<Add(LearnedFlow(f, port))>>
             ELSE <<Add(LearnedFlow(f, port)), PacketOut>>,
             Head(events).live, f)
  /\ UNCHANGED <<trust_table, linkVars>>

\* Faulty variant: only the table-miss rule is installed.
SwitchHandshakeMissOnly ==
  /\ TakeEvent("features")
  /\ registered' = IF Head(events).live THEN "live" ELSE "dead"
  /\ arp_table' = [i \in Ips |-> UNKNOWN]
  /\ Start(LOOP, "end", <<Add(MissFlow)>>, Head(events).live, NoArg)
  /\ UNCHANGED <<mac_to_port, trust_table, connected>>

\* switch_handshake_handler.
SwitchHandshake ==
  /\ TakeEvent("features")
  /\ registered' = IF Head(events).live THEN "live" ELSE "dead"
  /\ arp_table' = [i \in Ips |-> UNKNOWN]
  /\ Start(LOOP, "end", <<Add(MissFlow), Add(PuntFlow)>>, Head(events).live, NoArg)
  /\ UNCHANGED <<mac_to_port, trust_table, connected>>

-----------------------------------------------------------------------------
(* The event loop after its sends.                                         *)

\* The rest of _packet_in_handler for a packet that is dropped.
LearnDropped ==
  /\ Reached(LOOP, "drop")
  /\ mac_to_port' = Learn(thread[LOOP].arg)
  /\ Return(LOOP)
  /\ UNCHANGED <<ruleVars, arp_table, trust_table, events, sendVars, linkVars, flows>>

\* Faulty variant: the flow is installed one packet too late.
RecordTrustLate ==
  LET f == thread[LOOP].arg
      k == KeyOf(f)
      e == trust_table[k]
      flow == TrustFlows(f, mac_to_port[f.eth_dst])
  IN
  /\ Reached(LOOP, "trust")
  /\ trust_table' = IF e.installed THEN trust_table
                    ELSE [trust_table EXCEPT ![k].count = @ + 1]
  /\ IF e.installed \/ e.count < TRUST_K
     THEN Return(LOOP)
     ELSE /\ thread' = [thread EXCEPT ![LOOP].at = "installed",
                                      ![LOOP].todo = <<Add(flow[1]), Add(flow[2]), Log>>,
                                      ![LOOP].attached = TRUE]
          /\ UNCHANGED cpu
  /\ UNCHANGED <<ruleVars, mac_to_port, arp_table, events, sendVars, linkVars, flows>>

\* _record_trust once the packet is sent: count it; with the K-th one the two
\* trust flows are sent.  The handler keeps its reference to the entry.
RecordTrust ==
  LET f == thread[LOOP].arg
      k == KeyOf(f)
      e == trust_table[k]
      flow == TrustFlows(f, mac_to_port[f.eth_dst])
  IN
  /\ Reached(LOOP, "trust")
  /\ trust_table' = IF e.installed THEN trust_table
                    ELSE [trust_table EXCEPT ![k].count = @ + 1]
  /\ IF e.installed \/ e.count + 1 < TRUST_K
     THEN Return(LOOP)
     ELSE /\ thread' = [thread EXCEPT ![LOOP].at = "installed",
                                      ![LOOP].todo = <<Add(flow[1]), Add(flow[2]), Log>>,
                                      ![LOOP].attached = TRUE]
          /\ UNCHANGED cpu
  /\ UNCHANGED <<ruleVars, mac_to_port, arp_table, events, sendVars, linkVars, flows>>

\* Faulty variant: the entry is looked up again by its key.
MarkInstalledByKey ==
  /\ Reached(LOOP, "installed")
  /\ trust_table' = [trust_table EXCEPT ![KeyOf(thread[LOOP].arg)].installed = TRUE]
  /\ Return(LOOP)
  /\ UNCHANGED <<ruleVars, mac_to_port, arp_table, events, sendVars, linkVars, flows>>

\* _install_trust_flow has returned: the entry is marked.  An entry that was
\* deleted from the table meanwhile is marked to no effect.
MarkInstalled ==
  LET k == KeyOf(thread[LOOP].arg) IN
  /\ Reached(LOOP, "installed")
  /\ trust_table' = IF thread[LOOP].attached
                    THEN [trust_table EXCEPT ![k].installed = TRUE]
                    ELSE trust_table
  /\ Return(LOOP)
  /\ UNCHANGED <<ruleVars, mac_to_port, arp_table, events, sendVars, linkVars, flows>>

-----------------------------------------------------------------------------
(* REST requests.  Requests that are refused (an address that is not       *)
(* blocked, a pattern that exists) change nothing and are left out.        *)

TakeRequest(t, r) ==
  /\ cpu = NoThread
  /\ ~Busy(t)
  /\ r \in Requests
  /\ UNCHANGED <<tableVars, events, sendVars, linkVars, flows>>

AddBlockedIp(t, r) ==
  /\ TakeRequest(t, r)
  /\ r.op = "add_blocked_ip"
  /\ blocked_ips' = blocked_ips \cup {r.ip}
  /\ Start(t, "flush_ip", <<Log>>, FALSE, r)
  /\ UNCHANGED <<blocked_ports, patterns>>

DelBlockedIp(t, r) ==
  /\ TakeRequest(t, r)
  /\ r.op = "del_blocked_ip"
  /\ r.ip \in blocked_ips
  /\ blocked_ips' = blocked_ips \ {r.ip}
  /\ UNCHANGED <<blocked_ports, patterns, threadVars>>

AddBlockedPort(t, r) ==
  /\ TakeRequest(t, r)
  /\ r.op = "add_blocked_port"
  /\ blocked_ports' = blocked_ports \cup {<<r.port, r.proto>>}
  /\ Start(t, "flush_port", <<Log>>, FALSE, r)
  /\ UNCHANGED <<blocked_ips, patterns>>

DelBlockedPort(t, r) ==
  /\ TakeRequest(t, r)
  /\ r.op = "del_blocked_port"
  /\ blocked_ports' = blocked_ports \ {<<r.port, r.proto>>}
  /\ UNCHANGED <<blocked_ips, patterns, threadVars>>

\* What the loop over self.datapaths sends: nothing before the first handshake.
ToSwitch(messages) == IF registered = "none" THEN <<>> ELSE messages

\* Faulty variant: the punt rule is reinstalled before the delete.
AddDpiPatternSwapped(t, r) ==
  /\ TakeRequest(t, r)
  /\ r.op = "add_dpi_pattern"
  /\ r.pattern \notin patterns
  /\ patterns' = patterns \cup {r.pattern}
  /\ Start(t, "forget_all",
           ToSwitch(<<Add(PuntFlow), Delete(AllIpv4)>>),
           registered = "live", r)
  /\ UNCHANGED <<blocked_ips, blocked_ports>>

\* add_dpi_pattern with the first half of _flush_all_trust_flows.
AddDpiPattern(t, r) ==
  /\ TakeRequest(t, r)
  /\ r.op = "add_dpi_pattern"
  /\ r.pattern \notin patterns
  /\ patterns' = patterns \cup {r.pattern}
  /\ Start(t, "forget_all",
           ToSwitch(<<Delete(AllIpv4), Add(PuntFlow)>>),
           registered = "live", r)
  /\ UNCHANGED <<blocked_ips, blocked_ports>>

DelDpiPattern(t, r) ==
  /\ TakeRequest(t, r)
  /\ r.op = "del_dpi_pattern"
  /\ r.pattern \in patterns \ Builtins
  /\ patterns' = patterns \ {r.pattern}
  /\ UNCHANGED <<blocked_ips, blocked_ports, threadVars>>

\* Faulty variant: only the rules with the address as source are deleted.
FlushIpSrcOnly(t) ==
  LET ip == thread[t].arg.ip IN
  /\ Reached(t, "flush_ip")
  /\ Start(t, "forget_ip",
           ToSwitch(<<Delete(FromIp(ip))>>),
           registered = "live", thread[t].arg)
  /\ UNCHANGED <<ruleVars, tableVars, events, sendVars, linkVars, flows>>

\* _flush_flows_for_ip after its first line: delete the rules of the address.
FlushIp(t) ==
  LET ip == thread[t].arg.ip IN
  /\ Reached(t, "flush_ip")
  /\ Start(t, "forget_ip",
           ToSwitch(<<Delete(FromIp(ip)), Delete(ToIp(ip))>>),
           registered = "live", thread[t].arg)
  /\ UNCHANGED <<ruleVars, tableVars, events, sendVars, linkVars, flows>>

\* _flush_flows_for_port after its first line.
FlushPort(t) ==
  LET r == thread[t].arg IN
  /\ Reached(t, "flush_port")
  /\ Start(t, "forget_port",
           ToSwitch(<<Delete(ToPort(r.port, r.proto))>>),
           registered = "live", r)
  /\ UNCHANGED <<ruleVars, tableVars, events, sendVars, linkVars, flows>>

\* The entries of S leave the trust table and t returns; a handler of the event
\* loop that holds one of them now holds an entry that is in no table.
Forget(t, S) ==
  /\ trust_table' = [k \in Keys |-> IF k \in S THEN FreshEntry ELSE trust_table[k]]
  /\ thread' = [thread EXCEPT
                  ![t] = Idle,
                  ![LOOP].attached = @ /\ KeyOf(thread[LOOP].arg) \notin S]
  /\ cpu' = NoThread
  /\ UNCHANGED <<ruleVars, mac_to_port, arp_table, events, sendVars, linkVars, flows>>

KeysOfIp(ip) == {k \in Keys : k[2][1] = ip \/ k[3][1] = ip}

KeysOfPort(port, proto) ==
  {k \in Keys : k[1] = proto /\ (k[2][2] = port \/ k[3][2] = port)}

ForgetIp(t) ==
  /\ Reached(t, "forget_ip")
  /\ Forget(t, KeysOfIp(thread[t].arg.ip))

ForgetPort(t) ==
  /\ Reached(t, "forget_port")
  /\ Forget(t, KeysOfPort(thread[t].arg.port, thread[t].arg.proto))

\* Faulty variant: the trust table survives the flush.
ForgetNone(t) ==
  /\ Reached(t, "forget_all")
  /\ Forget(t, {})

\* The second half of _flush_all_trust_flows.
ForgetAll(t) ==
  /\ Reached(t, "forget_all")
  /\ Forget(t, Keys)

-----------------------------------------------------------------------------

HandleEvent ==
  \/ IgnorePacket   \/ DropPacket     \/ RateLimitPacket \/ DpiBlockPacket
  \/ AllowPacket    \/ ArpSpoofPacket \/ AllowArp        \/ SwitchHandshake

Request(t) ==
  \E r \in Requests : \/ AddBlockedIp(t, r)   \/ DelBlockedIp(t, r)
                      \/ AddBlockedPort(t, r) \/ DelBlockedPort(t, r)
                      \/ AddDpiPattern(t, r)  \/ DelDpiPattern(t, r)

\* The steps with which a handler that has begun goes on.
LoopContinues == LearnDropped \/ RecordTrust \/ MarkInstalled

RequestContinues(t) == FlushIp(t) \/ ForgetIp(t) \/ FlushPort(t) \/ ForgetPort(t)
                         \/ ForgetAll(t)

Proceed(t) ==
  \/ SendDiscard(t) \/ SendNow(t) \/ SendBlock(t) \/ SendResume(t)
  \/ LogEvent(t)    \/ LogWaits(t) \/ WakeUp(t)  \/ HandlerEnds(t)

\* What a WebSocket client does to a thread that logs.
ClientActs(t) == LogResumes(t) \/ LogRaises(t)

Environment ==
  \/ \E f \in Traffic : PacketIn(f)
  \/ \E g \in flows : FlowExpires(g)
  \/ Connect \/ Disconnect \/ SwitchCrash

Next ==
  \/ HandleEvent
  \/ LoopContinues
  \/ \E t \in RestThreads : Request(t) \/ RequestContinues(t)
  \/ \E t \in Threads : Proceed(t) \/ ClientActs(t)
  \/ SendLoop
  \/ Environment

Spec == Init /\ [][Next]_vars

(* Eventlet's hub gives every green thread that is ready a turn in each of *)
(* its rounds, so a thread that is ready again and again runs; the send    *)
(* loop either sends or runs into the socket timeout, which ends the       *)
(* connection.  Nothing is assumed of hosts, administrators and links, nor *)
(* of WebSocket clients: one that has stopped reading may never read or    *)
(* fail, and the thread that sends to it then stays where it is.  Nor is   *)
(* it assumed that the event loop takes its next event, since the log call *)
(* at the end of a handler, which is no step here, may block it too.       *)
Fairness ==
  /\ SF_vars(SendLoop)
  /\ SF_vars(LoopContinues \/ Proceed(LOOP))
  /\ \A t \in RestThreads : SF_vars(RequestContinues(t) \/ Proceed(t))

FairSpec == Spec /\ Fairness
=============================================================================
