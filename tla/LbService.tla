------------------------------ MODULE LbService ------------------------------
(***************************************************************************)
(* The load balancer: the hash table from virtual addresses to groups, the *)
(* pool of backends the groups point into, and LbBase::onConfigUpdate,     *)
(* which rewrites both while packets are forwarded by them.  The packet's  *)
(* side is LbSlot, used by DataPlane.                                      *)
(***************************************************************************)
EXTENDS Integers, Sequences, FiniteSets

CONSTANTS
  LbFiles,               \* contents of the configuration file: records of the keys it has
  MAX_BACKENDS_PER_VIP,
  TOTAL_BACKENDS,
  MAXSIZE_LB_HASH,
  LbMaxRules             \* MAX_RULES_SIZE

ASSUME LbAssumption ==
  /\ MAX_BACKENDS_PER_VIP \in Nat \ {0} /\ TOTAL_BACKENDS \in Nat \ {0}
  /\ MAXSIZE_LB_HASH \in Nat \ {0} /\ LbMaxRules \in Nat \ {0}
  /\ \A file \in LbFiles : "rules" \in DOMAIN file =>
       /\ Len(file.rules) \in Nat
       /\ \A k \in 1..Len(file.rules) :
            "backends" \in DOMAIN file.rules[k] => Len(file.rules[k].backends) \in Nat

BadVip == -1          \* a string that is not an IPv4 address, the empty one too
BadMac == "bad"       \* a string that is not a MAC address, the empty one too
ZeroMac == "zero"     \* what an array of the kernel begins with
Garbage == "garbage"  \* what was on the stack

VARIABLES
  vips,     \* vip_backends: <<vip, vport>> -> group
  pool,     \* backend_pool: index -> MAC address
  lomac,    \* lb_lomac: MAC address of the load balancer
  lbRules,  \* rules_, shown by the debug server
  lbConf,   \* the configuration the groups of the table come from
  lbJob     \* where onConfigUpdate is

lbVars == <<vips, pool, lomac, lbRules, lbConf, lbJob>>

LbIdle == [pc |-> "idle"]

-----------------------------------------------------------------------------
(* What a file, a rule or a backend does not have keeps its default.       *)
LbDefaults == [vip |-> BadVip, vport |-> 0, backends |-> <<>>]

Mac(json) == IF "mac" \in DOMAIN json THEN json.mac ELSE BadMac

LbRule(json) ==
  LET r == [f \in DOMAIN LbDefaults |-> IF f \in DOMAIN json THEN json[f] ELSE LbDefaults[f]]
  IN  [r EXCEPT !.backends = [i \in 1..Len(@) |-> Mac(@[i])]]

LbParse(json) ==
  [localMac |-> IF "local_mac" \in DOMAIN json THEN json.local_mac ELSE BadMac,
   rules |-> IF "rules" \in DOMAIN json
             THEN [k \in 1..Len(json.rules) |-> LbRule(json.rules[k])] ELSE <<>>]

Slots == 0..(TOTAL_BACKENDS - 1)
VipKey(r) == <<r.vip, r.vport>>
NewGroup(count) == [backends |-> [i \in 0..(MAX_BACKENDS_PER_VIP - 1) |-> 0], count |-> count]
BackendCount(r) ==
  IF Len(r.backends) < MAX_BACKENDS_PER_VIP THEN Len(r.backends) ELSE MAX_BACKENDS_PER_VIP

-----------------------------------------------------------------------------
(* A file with a value of the wrong type throws before anything has        *)
(* changed.  The keys of the hash table are collected, then deleted one by *)
(* one.  An element of an array cannot be deleted: the pool keeps its      *)
(* contents.                                                               *)
LbUpdate(file) ==
  /\ lbJob = LbIdle
  /\ lbJob' = [pc |-> "clear", keys |-> DOMAIN vips, conf |-> LbParse(file)]
  /\ UNCHANGED <<vips, pool, lomac, lbRules, lbConf>>

LbDeleteVip ==
  /\ lbJob.pc = "clear"
  /\ \E k \in lbJob.keys :
       /\ vips' = [x \in DOMAIN vips \ {k} |-> vips[x]]
       /\ lbJob' = [lbJob EXCEPT !.keys = @ \ {k}]
  /\ UNCHANGED <<pool, lomac, lbRules, lbConf>>

StartRule(rules, next, success) ==
  [pc |-> "rule", rules |-> rules, next |-> next, success |-> success, be |-> 0,
   group |-> NewGroup(IF rules = <<>> THEN 0 ELSE BackendCount(Head(rules)))]

(* rules_ is cleared and the local MAC address written; of one that cannot *)
(* be scanned, whatever bytes the buffer holds.                            *)
LbSetLocalMac ==
  /\ lbJob.pc = "clear" /\ lbJob.keys = {}
  /\ lbRules' = <<>>
  /\ lbConf' = lbJob.conf
  /\ lomac' = IF lbJob.conf.localMac = BadMac THEN Garbage ELSE lbJob.conf.localMac
  /\ lbJob' = StartRule(lbJob.conf.rules, 0, 0)
  /\ UNCHANGED <<vips, pool>>

InRule == lbJob.pc = "rule" /\ lbJob.rules # <<>>

LbSkipRule ==
  /\ InRule /\ Head(lbJob.rules).vip = BadVip
  /\ lbJob' = StartRule(Tail(lbJob.rules), lbJob.next, lbJob.success)
  /\ UNCHANGED <<vips, pool, lomac, lbRules, lbConf>>

LbAddBackendUnchecked ==    \* mutant: the end of the pool is not noticed
  /\ InRule /\ Head(lbJob.rules).vip # BadVip
  /\ lbJob.be < lbJob.group.count
  /\ pool' = [pool EXCEPT ![lbJob.next] = Head(lbJob.rules).backends[lbJob.be + 1]]
  /\ lbJob' = [lbJob EXCEPT !.next = @ + 1, !.be = @ + 1,
                            !.group.backends[lbJob.be] = lbJob.next]
  /\ UNCHANGED <<vips, lomac, lbRules, lbConf>>

(* One backend of the rule takes the next slot of the pool; one without a  *)
(* MAC address takes it too, and leaves the pool and the group alone.      *)
LbAddBackend ==
  /\ InRule /\ Head(lbJob.rules).vip # BadVip
  /\ lbJob.be < lbJob.group.count /\ lbJob.next < TOTAL_BACKENDS
  /\ LET mac == Head(lbJob.rules).backends[lbJob.be + 1]
         next == [lbJob EXCEPT !.next = @ + 1, !.be = @ + 1]
     IN  \/ /\ mac = BadMac
            /\ lbJob' = next
            /\ UNCHANGED pool
         \/ /\ mac # BadMac
            /\ pool' = [pool EXCEPT ![lbJob.next] = mac]
            /\ lbJob' = [next EXCEPT !.group.backends[lbJob.be] = lbJob.next]
  /\ UNCHANGED <<vips, lomac, lbRules, lbConf>>

VipFits(k) == k \in DOMAIN vips \/ Cardinality(DOMAIN vips) < MAXSIZE_LB_HASH

NextSlotReset == 0    \* mutant: pool_next begins at 0 for every rule
NextSlot == lbJob.next

(* The group is published once its backends are in the pool, or the pool   *)
(* has no room for more of them.                                           *)
LbPublish ==
  /\ InRule /\ Head(lbJob.rules).vip # BadVip
  /\ lbJob.be = lbJob.group.count \/ lbJob.next >= TOTAL_BACKENDS
  /\ LET rule == Head(lbJob.rules)
         k == VipKey(rule)
     IN  \/ /\ VipFits(k)
            /\ vips' = [x \in DOMAIN vips \cup {k} |->
                          IF x = k THEN lbJob.group ELSE vips[x]]
            /\ lbRules' = Append(lbRules, rule)
            /\ lbJob' = StartRule(IF lbJob.success + 1 >= LbMaxRules THEN <<>>
                                  ELSE Tail(lbJob.rules), NextSlot, lbJob.success + 1)
         \/ /\ ~VipFits(k)
            /\ lbJob' = StartRule(Tail(lbJob.rules), NextSlot, lbJob.success)
            /\ UNCHANGED <<vips, lbRules>>
  /\ UNCHANGED <<pool, lomac, lbConf>>

LbUpdated ==
  /\ lbJob.pc = "rule" /\ lbJob.rules = <<>>
  /\ lbJob' = LbIdle
  /\ UNCHANGED <<vips, pool, lomac, lbRules, lbConf>>

LbUpdateStep ==
  LbDeleteVip \/ LbSetLocalMac \/ LbSkipRule \/ LbAddBackend \/ LbPublish \/ LbUpdated

LbInit ==
  /\ vips = <<>>
  /\ pool = [i \in Slots |-> ZeroMac]
  /\ lomac = ZeroMac
  /\ lbRules = <<>>
  /\ lbConf = [localMac |-> "", rules |-> <<>>]
  /\ lbJob = LbIdle

-----------------------------------------------------------------------------
(* The packet's side: what is no IPv4 or too short ends the chain, what is *)
(* no TCP or UDP or has no group goes on in it, and the source address     *)
(* picks one of the group's backends.                                      *)
LbUnparsed(p) ==
  \/ p.protocol = "none"
  \/ p.protocol = "TCP" /\ p.room # "tcp"
  \/ p.protocol = "UDP" /\ p.room = "none"

LbHasGroup(p) ==
  /\ p.protocol \in {"TCP", "UDP"}
  /\ <<p.daddr, p.dport>> \in DOMAIN vips
  /\ vips[<<p.daddr, p.dport>>].count # 0

LbSlotOfAll(p) ==    \* mutant: the hash is over the places of a group, not its backends
  vips[<<p.daddr, p.dport>>].backends[p.saddr % MAX_BACKENDS_PER_VIP]
LbSlot(p) ==
  LET group == vips[<<p.daddr, p.dport>>] IN group.backends[p.saddr % group.count]
=============================================================================
