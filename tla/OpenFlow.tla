------------------------------ MODULE OpenFlow ------------------------------
(***************************************************************************)
(* The switch's side of the system: the one OpenFlow 1.3 flow table the    *)
(* firewall programs, as far as the firewall uses it.  Open vSwitch is not *)
(* part of the repository; what a flow-mod does to the table and which     *)
(* rule a frame hits is taken from the uses in firewall_app.py and from    *)
(* the comment on non-strict deletes in _flush_all_trust_flows.            *)
(*                                                                         *)
(* A match is a partial function from header fields to integers, written   *)
(* as a record exactly like the keyword arguments of parser.OFPMatch; a    *)
(* field that is absent is a wildcard.  A frame is a record that gives     *)
(* every field a value.  tp_src and tp_dst stand for tcp_src/udp_src and   *)
(* tcp_dst/udp_dst: a rule that names one of them also fixes ip_proto.     *)
(***************************************************************************)
EXTENDS Integers, Sequences

\* Where a rule sends a frame; a positive number is a switch port.
CONTROLLER == 0
DROP       == -1

(* A rule is a record with a priority, a match, the output and whether it  *)
(* carries an idle or a hard timeout (timed), so that it may expire.       *)

-----------------------------------------------------------------------------

\* Every field that m fixes is fixed to the same value by r.  With r a frame:
\* the frame matches m.  With r a match: r is a subset of m.
Covers(m, r) == \A x \in DOMAIN m : x \in DOMAIN r /\ r[x] = m[x]

\* OFPFC_ADD replaces a rule with the same priority and match.
AddFlow(table, flow) ==
  {g \in table : g.priority # flow.priority \/ g.match # flow.match} \cup {flow}

\* OFPFC_DELETE is not strict: it removes every rule whose match is a subset.
DeleteFlows(table, match) == {g \in table : ~Covers(match, g.match)}

\* The rules a frame may be handled by: those of the highest priority that
\* match it.  The empty set means that the switch drops the frame.
BestHits(table, frame) ==
  LET hits == {g \in table : Covers(g.match, frame)}
  IN  {g \in hits : \A h \in hits : h.priority <= g.priority}

-----------------------------------------------------------------------------

(* The messages the controller sends.  The content of a packet-out is of   *)
(* no interest to the flow table.                                          *)
Add(flow)     == [cmd |-> "add", flow |-> flow]
Delete(match) == [cmd |-> "delete", match |-> match]
PacketOut     == [cmd |-> "out"]

Apply(table, m) == CASE m.cmd = "add"    -> AddFlow(table, m.flow)
                     [] m.cmd = "delete" -> DeleteFlows(table, m.match)
                     [] OTHER            -> table
=============================================================================
