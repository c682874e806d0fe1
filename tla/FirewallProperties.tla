------------------------- MODULE FirewallProperties -------------------------
(***************************************************************************)
(* What the firewall must guarantee, stated over the state of Firewall.    *)
(***************************************************************************)
EXTENDS Firewall

Flows5   == {f \in Traffic : HasPorts(f)}
InPorts  == {f.in_port : f \in Traffic}
ReqOf(op) == {r \in Requests : r.op = op}

UserPatterns == {r.pattern : r \in ReqOf("add_dpi_pattern")}

\* Every rule the firewall can ask for.
Rules ==
  {MissFlow, PuntFlow}
    \cup {RateLimitFlow(f) : f \in Traffic}
    \cup {ArpSpoofFlow(f) : f \in Traffic}
    \cup {LearnedFlow(f, p) : f \in Traffic, p \in InPorts}
    \cup {TrustFlow(f.ip_proto, Sender(f), Receiver(f), p) : f \in Flows5, p \in InPorts}
    \cup {TrustFlow(f.ip_proto, Receiver(f), Sender(f), p) : f \in Flows5, p \in InPorts}

\* Every message it can send.
FlowMessage ==
  {Add(g) : g \in Rules}
    \cup {Delete(AllIpv4), PacketOut}
    \cup {Delete(FromIp(r.ip)) : r \in ReqOf("add_blocked_ip")}
    \cup {Delete(ToIp(r.ip)) : r \in ReqOf("add_blocked_ip")}
    \cup {Delete(ToPort(r.port, r.proto)) : r \in ReqOf("add_blocked_port")}

LoopLabels == {"idle", "drop", "trust", "installed", "end"}
RestLabels == {"idle", "flush_ip", "forget_ip", "flush_port", "forget_port",
               "forget_all"}

ThreadType == [at : LoopLabels \cup RestLabels, todo : Seq(FlowMessage \cup {Log}),
               live : BOOLEAN, arg : Traffic \cup Requests \cup {NoArg},
               attached : BOOLEAN]

EventType == [kind : {"packet"}, frame : Traffic, live : BOOLEAN]
               \cup [kind : {"features"}, frame : {NoArg}, live : BOOLEAN]

\* A thread that runs no handler has nothing to send; one that does has the
\* argument of that handler.
HandlerOK(t, th) ==
  /\ th.at \in (IF t = LOOP THEN LoopLabels ELSE RestLabels)
  /\ th.at = "idle"                          => th.todo = <<>>
  /\ th.at = "drop"                          => th.arg \in Traffic
  /\ th.at \in {"trust", "installed"}        => th.arg \in Flows5
  /\ th.at \in {"flush_ip", "forget_ip"}     => th.arg \in ReqOf("add_blocked_ip")
  /\ th.at \in {"flush_port", "forget_port"} => th.arg \in ReqOf("add_blocked_port")
  /\ th.at = "forget_all"                    => th.arg \in ReqOf("add_dpi_pattern")

(* The state of FirewallApp, of its threads and of the switch is of the    *)
(* shape the code relies on: no DPI buffer exceeds MAX_BUFFER_BYTES, no    *)
(* queue exceeds its slots, the trust rules in the switch are 5-tuples of  *)
(* TCP or UDP, and only rules the code can build are in the switch.        *)
TypeOK ==
  /\ patterns \subseteq Builtins \cup UserPatterns
  /\ Builtins \subseteq patterns
  /\ mac_to_port \in [Macs -> InPorts \cup {UNKNOWN}]
  /\ arp_table \in [Ips -> Int]
  /\ trust_table \in [Keys -> Entry]
  /\ \A k \in Keys : /\ Len(trust_table[k].buf_a) <= MAX_BUFFER_BYTES
                     /\ Len(trust_table[k].buf_b) <= MAX_BUFFER_BYTES
  /\ thread \in [Threads -> ThreadType]
  /\ \A t \in Threads : HandlerOK(t, thread[t])
  /\ cpu \in Threads \cup {NoThread}
  /\ events \in Seq(EventType)
  /\ Len(events) <= EventCap
  /\ send_q \in Seq(FlowMessage)
  /\ Len(send_q) <= SendCap
  /\ waiters \in Seq(Threads)
  /\ registered \in {"none", "live", "dead"}
  /\ connected \in BOOLEAN
  /\ flows \subseteq Rules

-----------------------------------------------------------------------------
(* Inspection and trust.                                                   *)

\* The patterns whose add_dpi_pattern has not yet cleared the trust table.
Flushing == {thread[t].arg.pattern : t \in {u \in RestThreads : thread[u].at = "forget_all"}}

Hit(p, b) == b # <<>> /\ Search(p, b)

(* No flow that _check_dpi lets pass has buffered bytes, in either         *)
(* direction, that a pattern in force matches, in whatever order packets,  *)
(* pattern requests and flushes interleave.  The exception is a pattern    *)
(* whose request is still flushing.                                        *)
CleanBuffers ==
  \A k \in Keys : ~trust_table[k].blocked =>
    \A p \in patterns \ Flushing : /\ ~Hit(p, trust_table[k].buf_a)
                                   /\ ~Hit(p, trust_table[k].buf_b)

\* The event loop is sending the trust flows of k and still holds its entry.
Installing(k) == /\ thread[LOOP].at = "installed"
                 /\ thread[LOOP].attached
                 /\ KeyOf(thread[LOOP].arg) = k

(* _record_trust counts to K and, for each time that a raising _log has    *)
(* kept it from marking the entry, one packet further; exactly the flows   *)
(* that have got there are marked installed or about to be.  A flush or an *)
(* exception between the sends of _install_trust_flow cannot leave a flow  *)
(* that is trusted on paper and will never be installed, nor one that is   *)
(* marked without having earned it, and after an exception it takes one    *)
(* more packet, not K, to try again.                                       *)
TrustAccounting ==
  \A k \in Keys :
    LET e    == trust_table[k]
        goal == TRUST_K + e.aborted
    IN  /\ e.count <= goal
        /\ e.count = goal <=> e.installed \/ Installing(k)
        /\ ~(e.installed /\ Installing(k))
        /\ e.aborted > 0 => e.count >= goal - 1

(* A flow that DPI has blocked earns nothing: while its entry stands, no   *)
(* packet of either direction - queued before or after the verdict, with   *)
(* or without payload, with the pattern that matched still in force or     *)
(* removed - adds bytes or a count to it or marks it installed; only a     *)
(* flush replaces it.                                                      *)
BlockedEarnsNothing ==
  [][\A k \in Keys : trust_table[k].blocked =>
       trust_table'[k] \in {trust_table[k], FreshEntry}]_vars

Forwards(f) == {g \in BestHits(flows, f) : g.out \notin {CONTROLLER, DROP}}

\* Nothing is under way: no handler runs, no event waits, and the switch has
\* a live connection (if it ever had one) and every message.
Quiet == /\ \A t \in Threads : ~Busy(t)
         /\ events = <<>>
         /\ send_q = <<>>
         /\ registered # "dead"

FlowKey(g) == TrustKey(g.match.ip_proto, <<g.match.ipv4_src, g.match.tp_src>>,
                       <<g.match.ipv4_dst, g.match.tp_dst>>)

TrustRules == {g \in flows : g.priority = 400}

(* A priority-400 rule is in the switch only for a 5-tuple with K clean    *)
(* packets on record: what was flushed, and must be inspected again, is    *)
(* gone from the switch.                                                   *)
TrustEarned ==
  Quiet => \A g \in TrustRules : trust_table[FlowKey(g)].count >= TRUST_K

\* The send queue has room for whatever is sent: no thread waits for a slot.
NoSendWaits == waiters' = <<>>

-----------------------------------------------------------------------------
(* The rules that keep traffic under inspection.                           *)

RemovesPunt(m) == m.cmd = "delete" /\ Covers(m.match, PuntFlow.match)

\* The switch will have the punt rule once it has carried out the queue.
PuntAfterQueue ==
  \/ /\ PuntFlow \in flows
     /\ \A j \in 1..Len(send_q) : ~RemovesPunt(send_q[j])
  \/ \E i \in 1..Len(send_q) :
       /\ send_q[i] = Add(PuntFlow)
       /\ \A j \in (i + 1)..Len(send_q) : ~RemovesPunt(send_q[j])

\* Thread t is going to send it on a connection that is alive.
WillSendPunt(t) ==
  /\ thread[t].live
  /\ \E i \in 1..Len(thread[t].todo) : thread[t].todo[i] = Add(PuntFlow)

(* Once a switch is registered, the rule that brings IPv4 to the           *)
(* controller is in its table, on its way, or about to be sent: no order   *)
(* of handshakes, flushes, full queues and reconnections loses it.         *)
PuntRuleKept ==
  registered = "live" => PuntAfterQueue \/ \E t \in Threads : WillSendPunt(t)

-----------------------------------------------------------------------------
(* Progress.                                                               *)

(* Every handler and every request returns, up to the log call at its     *)
(* end, or it is stuck in a log call of its own because a client has       *)
(* stopped reading.  A full send queue and a connection that breaks while  *)
(* threads wait for a slot hold it up but never for good, even if other    *)
(* threads are stuck in their log calls.                                   *)
EveryHandlerReturns == \A t \in Threads : Busy(t) ~> (~Busy(t) \/ WaitsForClient(t))

(* A switch that is registered gets the punt rule, unless its connection   *)
(* breaks first.                                                           *)
PuntEventually ==
  (registered = "live") ~> (PuntFlow \in flows \/ registered # "live")

-----------------------------------------------------------------------------
(* ARP.                                                                    *)

(* A binding in arp_table is never replaced by another MAC address: an     *)
(* address is rebound only after a handshake has cleared the table.        *)
BindingKept ==
  [][\A i \in Ips : arp_table[i] # UNKNOWN => arp_table'[i] \in {arp_table[i], UNKNOWN}]_vars

-----------------------------------------------------------------------------
(* What a comment says and the code does not do: a run expects the         *)
(* violation.                                                              *)

(* "blacklist only on src ip (still enough to kill all the channels        *)
(* to/from it)": the switch forwards nothing that a blocked source sends.  *)
BlockedSourceNotForwarded ==
  Quiet => \A f \in Traffic :
             f.eth_type = 2048 /\ f.ipv4_src \in blocked_ips => Forwards(f) = {}
=============================================================================
