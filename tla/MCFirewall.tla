----------------------------- MODULE MCFirewall -----------------------------
(***************************************************************************)
(* Small instances of Firewall.  Host i has the address, the MAC and the   *)
(* switch port i.  A pattern is a byte string that must occur in the       *)
(* payload.                                                                *)
(***************************************************************************)
EXTENDS FirewallProperties, TLC

NA        == -2
BROADCAST == 99

\* The search of a signature: p occurs in b at some offset.
Occurs(p, b) ==
  \E i \in 0..(Len(b) - Len(p)) : SubSeq(b, i + 1, i + Len(p)) = p

Ip(src, dst, proto, sport, dport, flags, payload) ==
  [in_port |-> src, eth_src |-> src, eth_dst |-> dst, eth_type |-> 2048,
   ip_proto |-> proto, ipv4_src |-> src, ipv4_dst |-> dst, tp_src |-> sport,
   tp_dst |-> dport, arp_sha |-> NA, arp_spa |-> NA, flags |-> flags,
   payload |-> payload]

Tcp(src, dst, sport, dport, payload) ==
  Ip(src, dst, 6, sport, dport, {"ACK"}, payload)

Udp(src, dst, sport, dport) == Ip(src, dst, 17, sport, dport, {}, <<>>)

\* Host port announces that address spa is at MAC sha, in a frame to dst.
Arp(port, dst, sha, spa) ==
  [in_port |-> port, eth_src |-> sha, eth_dst |-> dst, eth_type |-> 2054,
   ip_proto |-> NA, ipv4_src |-> NA, ipv4_dst |-> NA, tp_src |-> NA,
   tp_dst |-> NA, arp_sha |-> sha, arp_spa |-> spa, flags |-> {},
   payload |-> <<>>]

Ip6(src, dst) == [Arp(src, dst, src, NA) EXCEPT !.eth_type = 34525]

BlockIp(ip)            == [op |-> "add_blocked_ip", ip |-> ip]
UnblockIp(ip)          == [op |-> "del_blocked_ip", ip |-> ip]
BlockPort(port, proto) == [op |-> "add_blocked_port", port |-> port, proto |-> proto]
UnblockPort(port, proto) == [op |-> "del_blocked_port", port |-> port, proto |-> proto]
AddPattern(p)          == [op |-> "add_dpi_pattern", pattern |-> p]
DelPattern(p)          == [op |-> "del_dpi_pattern", pattern |-> p]

\* One TCP connection between hosts 1 and 2, with the bytes 1 and 2 as payload
\* in one direction.
TcpTraffic == {Tcp(1, 2, 5, 6, <<1>>), Tcp(1, 2, 5, 6, <<2>>), Tcp(2, 1, 6, 5, <<>>)}
TcpBuiltins == {<<1, 2>>}
TcpRequests == {AddPattern(<<2>>), DelPattern(<<2>>), BlockIp(1), UnblockIp(1)}

\* A UDP exchange whose ports may be blocked, next to an ICMP echo.
MixedTraffic == {Udp(1, 2, 5, 6), Udp(2, 1, 6, 5), Ip(2, 1, 1, NA, NA, {}, <<>>)}
PortRequests == {BlockPort(6, 17), UnblockPort(6, 17), AddPattern(<<1>>), DelPattern(<<1>>)}

\* Host 3 announces its own address and, forged, that of host 2; an IPv6 frame
\* and a TCP packet with a bad combination of flags.
ArpTraffic == {Arp(1, BROADCAST, 1, 1), Arp(2, 1, 2, 2), Arp(3, 1, 3, 3), Arp(3, 1, 3, 2),
               Ip6(1, 2), Ip(1, 2, 6, 7, 7, {"SYN", "FIN"}, <<>>)}

PairTraffic == {Tcp(1, 2, 5, 6, <<1>>), Tcp(2, 1, 6, 5, <<>>)}
UdpTraffic == {Udp(1, 2, 5, 6), Udp(2, 1, 6, 5)}

NoRequests      == {}
BlockRequests   == {BlockIp(1)}
FlushRequests   == {BlockIp(1), UnblockIp(1), AddPattern(<<2>>), DelPattern(<<2>>)}
ProgressRequests == {BlockIp(1), AddPattern(<<2>>)}
PatternRequest  == {AddPattern(<<2>>)}

\* Requests are alike whichever thread serves them.
RequestSymmetry == Permutations(RestThreads)
=============================================================================
