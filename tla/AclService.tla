----------------------------- MODULE AclService -----------------------------
(***************************************************************************)
(* The ACL service: its rules in user space, the kernel's hash table of    *)
(* rules, and AclBase::onConfigUpdate, which empties the table and fills   *)
(* it again one system call at a time while packets are looked up in it.   *)
(* The packet's side is AclKey and AclDenies, used by DataPlane.           *)
(*                                                                         *)
(* Both sides keep addresses and ports in network byte order, so here they *)
(* are just numbers.                                                       *)
(***************************************************************************)
EXTENDS Integers, Sequences, FiniteSets

CONSTANTS
  AclFiles,       \* contents of the configuration file: sequences of rules
  AclMaxEntries,  \* max_entries of hebpf_krules_acl
  AclMaxRules     \* MAX_RULES_SIZE

ASSUME AclAssumption ==
  /\ AclMaxEntries \in Nat \ {0} /\ AclMaxRules \in Nat \ {0}
  /\ \A file \in AclFiles : file \in Seq({file[k] : k \in 1..Len(file)})

BadAddr == -1    \* a string that is not an IPv4 address
AnyAddr == 0     \* "0.0.0.0"
ANY_PORT == 0

VARIABLES
  aclTable,   \* hebpf_krules_acl: tuple -> action
  aclRules,   \* rules_, shown by the debug server
  aclConf,    \* the rules of the last configuration
  aclBefore,  \* the rules that were in force when it arrived
  aclJob      \* where onConfigUpdate is

aclVars == <<aclTable, aclRules, aclConf, aclBefore, aclJob>>

AclIdle == [pc |-> "idle"]

-----------------------------------------------------------------------------
(* A rule of the file is a record of the fields it has; the others keep    *)
(* their defaults, and a name that is no enumerator is UNKNOWN.            *)
AclDefaults ==
  [saddr |-> AnyAddr, daddr |-> AnyAddr, sport |-> ANY_PORT, dport |-> ANY_PORT,
   protocol |-> "TCP", action |-> "DROP"]

AclRule(json) ==
  LET r == [f \in DOMAIN AclDefaults |-> IF f \in DOMAIN json THEN json[f] ELSE AclDefaults[f]]
  IN  [r EXCEPT !.protocol = IF @ \in {"TCP", "UDP"} THEN @ ELSE "UNKNOWN",
                !.action = IF @ \in {"DROP", "ACCEPT"} THEN @ ELSE "UNKNOWN"]

AclParse(file) == [k \in 1..Len(file) |-> AclRule(file[k])]

Tuple(r) == [f \in {"saddr", "daddr", "sport", "dport", "protocol"} |-> r[f]]

AclValid(r) ==
  r.saddr # BadAddr /\ r.daddr # BadAddr /\ r.protocol # "UNKNOWN" /\ r.action # "UNKNOWN"

-----------------------------------------------------------------------------
(* onConfigUpdate.  A file with a value of the wrong type throws before    *)
(* anything has changed; one that is not JSON at all comes in as the rules *)
(* that were read of it.  The keys of the table are collected first.       *)
AclUpdate(file) ==
  /\ aclJob = AclIdle
  /\ aclConf' = AclParse(file)
  /\ aclBefore' = aclRules
  /\ aclJob' = [pc |-> "clear", keys |-> DOMAIN aclTable, rules |-> AclParse(file), success |-> 0]
  /\ UNCHANGED <<aclTable, aclRules>>

AclDeleteKey ==
  /\ aclJob.pc = "clear"
  /\ \E k \in aclJob.keys :
       /\ aclTable' = [x \in DOMAIN aclTable \ {k} |-> aclTable[x]]
       /\ aclJob' = [aclJob EXCEPT !.keys = @ \ {k}]
  /\ UNCHANGED <<aclRules, aclConf, aclBefore>>

AclClearRulesKeeping ==    \* mutant: rules_ is not cleared with the table
  /\ aclJob.pc = "clear" /\ aclJob.keys = {}
  /\ aclJob' = [aclJob EXCEPT !.pc = "insert"]
  /\ UNCHANGED <<aclTable, aclRules, aclConf, aclBefore>>

AclClearRules ==
  /\ aclJob.pc = "clear" /\ aclJob.keys = {}
  /\ aclRules' = <<>>
  /\ aclJob' = [aclJob EXCEPT !.pc = "insert"]
  /\ UNCHANGED <<aclTable, aclConf, aclBefore>>

(* bpf_map_update_elem fails for a new key of a full table.                *)
AclFits(k) == k \in DOMAIN aclTable \/ Cardinality(DOMAIN aclTable) < AclMaxEntries

AclInsertRule ==
  /\ aclJob.pc = "insert" /\ aclJob.rules # <<>>
  /\ LET rule == Head(aclJob.rules)
         k == Tuple(rule)
     IN  \/ /\ AclValid(rule) /\ AclFits(k)
            /\ aclTable' = [x \in DOMAIN aclTable \cup {k} |->
                              IF x = k THEN rule.action ELSE aclTable[x]]
            /\ aclRules' = Append(aclRules, rule)
            /\ aclJob' = [aclJob EXCEPT !.success = @ + 1,
                 !.rules = IF aclJob.success + 1 >= AclMaxRules THEN <<>> ELSE Tail(@)]
         \/ /\ ~AclValid(rule) \/ ~AclFits(k)
            /\ aclJob' = [aclJob EXCEPT !.rules = Tail(@)]
            /\ UNCHANGED <<aclTable, aclRules>>
  /\ UNCHANGED <<aclConf, aclBefore>>

AclUpdated ==
  /\ aclJob.pc = "insert" /\ aclJob.rules = <<>>
  /\ aclJob' = AclIdle
  /\ UNCHANGED <<aclTable, aclRules, aclConf, aclBefore>>

AclUpdateStep == AclDeleteKey \/ AclClearRules \/ AclInsertRule \/ AclUpdated

AclInit ==
  /\ aclTable = <<>>
  /\ aclRules = <<>> /\ aclConf = <<>> /\ aclBefore = <<>>
  /\ aclJob = AclIdle

-----------------------------------------------------------------------------
(* The packet's side.  p.protocol is "none" for what is no IPv4; p.room    *)
(* says which header fits behind the IP header: none, that of UDP, or that *)
(* of TCP, which is the longer one.                                        *)
AclParsed(p) == p.protocol \in {"TCP", "UDP"} /\ p.room # "none"

(* The ports are read only from a packet that has room for the header of   *)
(* its protocol and for no longer one.                                     *)
AclHasPorts(p) == (p.protocol = "TCP") = (p.room = "tcp")

AclKey(p, sport) ==
  [saddr |-> p.saddr, daddr |-> p.daddr, protocol |-> p.protocol, sport |-> sport,
   dport |-> IF AclHasPorts(p) THEN p.dport ELSE ANY_PORT]
AclSourcePort(p) == IF AclHasPorts(p) THEN p.sport ELSE ANY_PORT

AclFinds(k) == k \in DOMAIN aclTable
AclDeniesFound(k) == k \in DOMAIN aclTable    \* mutant: the action is not looked at
AclDenies(k) == k \in DOMAIN aclTable /\ aclTable[k] = "DROP"
=============================================================================
