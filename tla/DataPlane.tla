------------------------------ MODULE DataPlane ------------------------------
(***************************************************************************)
(* A packet on its way through the programs of a chain, while the thread   *)
(* that applies configuration files rewrites the tables of the ACL and of  *)
(* the load balancer.  The programs write no table, so one packet at a     *)
(* time shows what many would meet.                                        *)
(*                                                                         *)
(* A step of the packet is one lookup.  The group of a virtual address and *)
(* the slot read from it are one lookup.                                   *)
(***************************************************************************)
EXTENDS AclService, LbService

CONSTANTS
  Chain,    \* the programs of the interface, in order: "ACL", "LB"
  Packets   \* packets that may arrive

ASSUME ChainAssumption ==
  /\ Chain \in Seq({"ACL", "LB"}) /\ Chain # <<>>
  /\ \A p \in Packets : p.saddr \in Nat

VARIABLE pkt    \* the packet, where it is, what has become of it

planeVars == <<aclVars, lbVars, pkt>>

NoPacket == [pc |-> "none"]

Updating == aclJob # AclIdle \/ lbJob # LbIdle

-----------------------------------------------------------------------------
(* src, dest: the MAC addresses the packet was given; slot: the backend    *)
(* that was chosen for it; overlap: an update was under way since it came. *)
Arrive(p) ==
  /\ pkt.pc \in {"none", "done"}
  /\ pkt' = [pc |-> "start", p |-> p, pos |-> 1, src |-> "", dest |-> "", slot |-> 0,
             verdict |-> "", overlap |-> Updating]
  /\ UNCHANGED <<aclVars, lbVars>>

(* The program returns, without CHAIN_NEXT.                                *)
Return(verdict) == pkt' = [pkt EXCEPT !.pc = "done", !.verdict = verdict]

(* CHAIN_NEXT: the next program takes over, and decides; only the last one *)
(* comes back from it and returns the verdict.                             *)
ChainNext(packet, verdict) ==
  pkt' = IF packet.pos < Len(Chain)
         THEN [packet EXCEPT !.pc = "start", !.pos = @ + 1]
         ELSE [packet EXCEPT !.pc = "done", !.verdict = verdict]

At(program, pc) == pkt.pc = pc /\ Chain[pkt.pos] = program

(* hebpf_acl_xdp_generic *)
AclPassUnparsed ==
  /\ At("ACL", "start") /\ ~AclParsed(pkt.p)
  /\ Return("PASS")
  /\ UNCHANGED <<aclVars, lbVars>>

AclDecide(k) ==
  \/ AclDenies(k) /\ Return("DROP")
  \/ ~AclDenies(k) /\ ChainNext(pkt, "PASS")

(* The first lookup is for a rule with any source port, the second, if     *)
(* there is none, for one with the packet's.                               *)
AclLookupAnyOnly ==    \* mutant: there is no second lookup
  /\ At("ACL", "start") /\ AclParsed(pkt.p)
  /\ AclDecide(AclKey(pkt.p, ANY_PORT))
  /\ UNCHANGED <<aclVars, lbVars>>

AclLookupAny ==
  /\ At("ACL", "start") /\ AclParsed(pkt.p)
  /\ LET k == AclKey(pkt.p, ANY_PORT)
     IN  \/ AclFinds(k) /\ AclDecide(k)
         \/ ~AclFinds(k) /\ pkt' = [pkt EXCEPT !.pc = "exact"]
  /\ UNCHANGED <<aclVars, lbVars>>

AclLookupExact ==
  /\ At("ACL", "exact")
  /\ AclDecide(AclKey(pkt.p, AclSourcePort(pkt.p)))
  /\ UNCHANGED <<aclVars, lbVars>>

(* hebpf_lb_xdp_gen *)
LbPassUnparsed ==
  /\ At("LB", "start") /\ LbUnparsed(pkt.p)
  /\ Return("PASS")
  /\ UNCHANGED <<aclVars, lbVars>>

LbLookup ==
  /\ At("LB", "start") /\ ~LbUnparsed(pkt.p)
  /\ \/ ~LbHasGroup(pkt.p) /\ ChainNext(pkt, "PASS")
     \/ /\ LbHasGroup(pkt.p)
        /\ pkt' = [pkt EXCEPT !.pc = "forward", !.slot = LbSlot(pkt.p)]
  /\ UNCHANGED <<aclVars, lbVars>>

(* The addresses are those of the load balancer and of the backend.        *)
Rewritten == [pkt EXCEPT !.src = lomac, !.dest = pool[pkt.slot], !.slot = 0]

LbForward ==
  /\ At("LB", "forward")
  /\ ChainNext(Rewritten, "TX")
  /\ UNCHANGED <<aclVars, lbVars>>

PacketStep ==
  \/ AclPassUnparsed \/ AclLookupAny \/ AclLookupExact
  \/ LbPassUnparsed \/ LbLookup \/ LbForward

-----------------------------------------------------------------------------
(* One thread runs the callbacks of all configuration files.               *)
Notice == pkt' = IF pkt.pc = "none" THEN pkt ELSE [pkt EXCEPT !.overlap = TRUE]

UpdateAcl == ~Updating /\ (\E file \in AclFiles : AclUpdate(file)) /\ UNCHANGED lbVars /\ Notice
UpdateLb == ~Updating /\ (\E file \in LbFiles : LbUpdate(file)) /\ UNCHANGED aclVars /\ Notice

UpdateStep ==
  \/ AclUpdateStep /\ UNCHANGED <<lbVars, pkt>>
  \/ LbUpdateStep /\ UNCHANGED <<aclVars, pkt>>

PlaneInit == AclInit /\ LbInit /\ pkt = NoPacket

PlaneNext ==
  \/ \E p \in Packets : Arrive(p)
  \/ PacketStep
  \/ UpdateAcl \/ UpdateLb
  \/ UpdateStep

PlaneSpec == PlaneInit /\ [][PlaneNext]_planeVars

-----------------------------------------------------------------------------
Elements(s) == {s[k] : k \in 1..Len(s)}

(* The action of the last rule for a tuple: what a table filled with the   *)
(* rules in order holds.                                                   *)
LastAction(rules, k) ==
  LET last == CHOOSE n \in 1..Len(rules) :
                /\ Tuple(rules[n]) = k
                /\ \A m \in (n + 1)..Len(rules) : Tuple(rules[m]) # k
  IN  rules[last].action
TableOf(rules) ==
  [k \in {Tuple(r) : r \in Elements(rules)} |-> LastAction(rules, k)]

(* The types of the kernel's tables and of the packet.                     *)
PlaneTypeOK ==
  /\ \A k \in DOMAIN aclTable : aclTable[k] \in {"DROP", "ACCEPT"}
  /\ Cardinality(DOMAIN aclTable) <= AclMaxEntries
  /\ Cardinality(DOMAIN vips) <= MAXSIZE_LB_HASH
  /\ \A k \in DOMAIN vips : \A i \in DOMAIN vips[k].backends : vips[k].backends[i] \in Slots
  /\ DOMAIN pool = Slots
  /\ lbJob.pc = "rule" => lbJob.next \in 0..TOTAL_BACKENDS
  /\ pkt.pc \in {"none", "start", "exact", "forward", "done"}

(* Between updates the kernel's table holds the rules the debug server     *)
(* shows, of two for a tuple the later one, and every rule of the          *)
(* configuration that is valid unless a limit kept it out (acl_base.tpp    *)
(* 100-157 and 180-199).                                                   *)
RulesInForce ==
  aclJob = AclIdle =>
    /\ aclTable = TableOf(aclRules)
    /\ Elements(aclRules) \subseteq Elements(aclConf)
    /\ \A r \in Elements(aclConf) :
         AclValid(r) => \/ Tuple(r) \in DOMAIN aclTable
                        \/ Cardinality(DOMAIN aclTable) = AclMaxEntries
                        \/ Len(aclRules) = AclMaxRules

Matches(r, p) ==
  /\ r.saddr = p.saddr /\ r.daddr = p.daddr /\ r.protocol = p.protocol
  /\ r.sport \in {ANY_PORT, p.sport} /\ r.dport \in {ANY_PORT, p.dport}

(* Also while the table is emptied and filled again, no packet is dropped  *)
(* that no rule says to drop: neither one that was in force nor one of the *)
(* configuration that replaces it (acl_xdp.bpf.c 70-81).                   *)
DropHasRule ==
  [][pkt.pc \in {"start", "exact"} /\ pkt'.pc = "done" /\ pkt'.verdict = "DROP" =>
       \E r \in Elements(aclBefore) \cup Elements(aclConf) :
         Matches(r, pkt.p) /\ r.action = "DROP"]_planeVars

(* What the rules are to know of a packet: the ports of a segment with its *)
(* whole header, and of a datagram in which no header of TCP would fit;    *)
(* any other segment or datagram is for them without ports.                *)
PortsSeen(p) == (p.protocol = "TCP" /\ p.room = "tcp") \/ (p.protocol = "UDP" /\ p.room # "tcp")
Seen(p) ==
  [saddr |-> p.saddr, daddr |-> p.daddr, protocol |-> p.protocol,
   sport |-> IF PortsSeen(p) THEN p.sport ELSE ANY_PORT,
   dport |-> IF PortsSeen(p) THEN p.dport ELSE ANY_PORT]

RealKey(p, sport) ==
  [saddr |-> p.saddr, daddr |-> p.daddr, protocol |-> p.protocol, sport |-> sport,
   dport |-> p.dport]
DeniedByRules(p) ==
  LET table == TableOf(aclRules)
      any == RealKey(p, ANY_PORT)
      k == IF any \in DOMAIN table THEN any ELSE RealKey(p, p.sport)
  IN  k \in DOMAIN table /\ table[k] = "DROP"

(* A packet that meets no update and the ACL first is dropped exactly if   *)
(* the rule for any source port, or where there is none the one for its    *)
(* own, says so ("先用任意源端口查找一次", "再用原始源端口查找",           *)
(* acl_xdp.bpf.c 69 and 72), of what is seen of it; what is cut short is   *)
(* never dropped by a rule.                                                *)
VerdictAsRules ==
  pkt.pc = "done" /\ ~pkt.overlap /\ Chain[1] = "ACL" =>
    (pkt.verdict = "DROP" <=> AclParsed(pkt.p) /\ DeniedByRules(Seen(pkt.p)))

(* The slots of the rules, one rule after another from the given one on,   *)
(* end within the pool.                                                    *)
FitsPool(rules, from) ==
  \E upTo \in [0..Len(rules) -> 0..TOTAL_BACKENDS] :
    /\ from <= upTo[0]
    /\ \A n \in 1..Len(rules) : upTo[n - 1] + BackendCount(rules[n]) <= upTo[n]

(* A configuration in which every backend has a MAC address and a slot.    *)
WellFormed(conf) ==
  /\ \A r \in Elements(conf.rules) : \A i \in 1..BackendCount(r) : r.backends[i] # BadMac
  /\ FitsPool(conf.rules, 0)
WellFormedConfs == {conf \in {LbParse(file) : file \in LbFiles} : WellFormed(conf)}

(* At every step of an update each group a packet can find leads to the    *)
(* backends of its own rule: groups go before the pool is rewritten, come  *)
(* after their slots are filled, and no two of them share a slot           *)
(* (lb_base.tpp 99, 115-161 and 239-241).                                  *)
GroupsResolve ==
  lbConf \in WellFormedConfs =>
    \A k \in DOMAIN vips : \E r \in Elements(lbConf.rules) :
      /\ VipKey(r) = k
      /\ vips[k].count = BackendCount(r)
      /\ \A i \in 1..vips[k].count : pool[vips[k].backends[i - 1]] = r.backends[i]

(* A packet that meets no update and is sent goes, from the local address, *)
(* to the backend that its source selects among those of the last rule for *)
(* its virtual address (lb_xdp.bpf.c 45-72).                               *)
SentToOwnBackend ==
  pkt.pc = "done" /\ pkt.verdict = "TX" /\ ~pkt.overlap /\ lbConf \in WellFormedConfs =>
    \E n \in 1..Len(lbRules) :
      /\ VipKey(lbRules[n]) = <<pkt.p.daddr, pkt.p.dport>>
      /\ \A m \in (n + 1)..Len(lbRules) : VipKey(lbRules[m]) # VipKey(lbRules[n])
      /\ pkt.dest = lbRules[n].backends[(pkt.p.saddr % BackendCount(lbRules[n])) + 1]
      /\ lbConf.localMac # BadMac => pkt.src = lbConf.localMac

(* "此时目的地址已修改, 相当于单臂 LB" (lb_xdp.bpf.c 84): a packet that    *)
(* was given the address of a backend is sent, unless it is dropped.       *)
RewrittenIsSent ==
  pkt.pc = "done" /\ pkt.dest # "" => pkt.verdict \in {"TX", "DROP"}

(* The tables within their limits, the pool's indices within the pool      *)
(* (lb_base.tpp 135-161), and a packet that was rewritten sent or dropped  *)
(* (lb_xdp.bpf.c 84).                                                      *)
PlaneInv == PlaneTypeOK /\ RewrittenIsSent

-----------------------------------------------------------------------------
(* Properties the code does not have.                                      *)

(* "再用原始源端口查找" (acl_xdp.bpf.c 72): the rules are asked about the  *)
(* ports a packet really has, also those of a longer datagram.             *)
PortsDecide ==
  pkt.pc = "done" /\ ~pkt.overlap /\ Chain[1] = "ACL" /\ pkt.p.protocol = "UDP" /\ AclParsed(pkt.p) =>
    (pkt.verdict = "DROP" <=> DeniedByRules(pkt.p))

(* "有效后端数量" (lb_common.h 18): a group counts its valid backends, so  *)
(* that every place up to the count is one the group was given.            *)
CountIsOfValidBackends ==
  \A k \in DOMAIN vips : \E r \in Elements(lbConf.rules) :
    VipKey(r) = k /\ vips[k].count =
      Cardinality({i \in 1..BackendCount(r) : r.backends[i] # BadMac})
=============================================================================
