----------------------------- MODULE MCDataPlane -----------------------------
(* Files and packets of DataPlane for TLC: hosts 1 to 3, virtual address 9 *)
(* with ports 80 and 53.                                                   *)
EXTENDS DataPlane

R(s, sport, dport, proto) ==
  [saddr |-> s, daddr |-> 9, sport |-> sport, dport |-> dport, protocol |-> proto]
Do(r, action) ==
  [f \in DOMAIN r \cup {"action"} |-> IF f = "action" THEN action ELSE r[f]]

(* Nothing; a rule for any port that hides one for a port, and one that    *)
(* accepts; two rules for a tuple, a misspelt protocol and action; a rule  *)
(* of defaults, one with a bad address and one for any datagram; more      *)
(* rules than the table takes.                                             *)
MCAclFiles ==
  {<<>>,
   <<Do(R(1, 0, 80, "TCP"), "ACCEPT"), R(1, 7, 80, "TCP"), Do(R(2, 0, 80, "TCP"), "ACCEPT")>>,
   <<Do(R(1, 7, 80, "TCP"), "ACCEPT"), R(1, 7, 80, "TCP"),
     R(2, 0, 80, "tcp"), Do(R(2, 0, 53, "UDP"), "deny")>>,
   <<[action |-> "DROP"], R(-1, 0, 80, "TCP"), R(2, 5, 53, "UDP"), R(2, 0, 0, "UDP")>>,
   <<R(1, 0, 80, "TCP"), R(2, 0, 80, "TCP"), R(3, 0, 80, "TCP"), R(2, 0, 53, "UDP")>>}

B(mac) == [mac |-> mac]
V(port, macs) == [vip |-> 9, vport |-> port, backends |-> [i \in 1..Len(macs) |-> B(macs[i])]]
Lb(rules) == [local_mac |-> "me", rules |-> rules]

(* Two groups; one of them twice, of several lengths; no local address, a  *)
(* rule without a virtual address, one with a bad one, one without         *)
(* backends and one with too many; a bad MAC address and a backend without *)
(* one; a pool that is too small.                                          *)
MCLbFiles ==
  {Lb(<<V(80, <<"a", "b">>), V(53, <<"c">>)>>),
   Lb(<<V(53, <<"a">>), V(80, <<"c", "d">>), V(53, <<"b">>)>>),
   [rules |-> <<[vport |-> 80, backends |-> <<B("a")>>], [V(80, <<"a">>) EXCEPT !.vip = BadVip],
                [vip |-> 9, vport |-> 53], V(80, <<"b", "a", "c">>)>>],
   Lb(<<V(53, <<BadMac>>), [vip |-> 9, vport |-> 80, backends |-> <<<<>>, B("b")>>]>>),
   Lb(<<V(80, <<"a", "b">>), V(53, <<"c", "d">>), V(443, <<"a">>)>>)}

Packet(s, sport, dport, proto, room) ==
  [saddr |-> s, daddr |-> 9, sport |-> sport, dport |-> dport, protocol |-> proto,
   room |-> room]
LongDatagram == Packet(2, 5, 53, "UDP", "tcp")    \* 12 bytes of payload or more
MCPackets ==
  {Packet(1, 7, 80, "TCP", "tcp"), Packet(2, 5, 80, "TCP", "tcp"),
   Packet(2, 5, 53, "UDP", "udp"), Packet(3, 7, 80, "TCP", "udp"),
   Packet(3, 5, 53, "UDP", "udp"), Packet(1, 0, 0, "ICMP", "udp"),
   Packet(1, 0, 0, "none", "none"), LongDatagram}

AclThenLb == <<"ACL", "LB">>
LbThenAcl == <<"LB", "ACL">>
=============================================================================
