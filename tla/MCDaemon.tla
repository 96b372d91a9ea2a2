------------------------------ MODULE MCDaemon ------------------------------
(* Configurations of Daemon for TLC: hook XDP_GENERIC (with maps) and      *)
(* KProbe (without), the libraries of the ACL, the load balancer and a     *)
(* kprobe example.                                                         *)
EXTENDS Daemon

MCNames == {"SCHEDULER", "ACL", "LB", "HELLO"}
MCRegistered == [h \in Hooks |-> IF h = "KProbe" THEN {"HELLO"}
                                 ELSE {"SCHEDULER", "ACL", "LB"}]
MCScheduler == [h \in Hooks |-> "SCHEDULER"]
MCLibName == [l \in Libs |-> CASE l = "libacl" -> "ACL"
                               [] l = "liblb" -> "LB"
                               [] l = "libhello" -> "HELLO"]
MCIdOrder == <<"a", "b", "scheduler", "z">>

Ids(S) == {Id(s) : s \in S}
Acl(order) == Entry("libacl", "acl.json", "XDP_GENERIC", 1, order)
AclOther(order) == Entry("libacl", "other.json", "XDP_GENERIC", 1, order)
Acl2(order) == Entry("libacl", "acl.json", "XDP_GENERIC", 2, order)
Lb(order) == Entry("liblb", "lb.json", "XDP_GENERIC", 1, order)
LbOther(order) == Entry("liblb", "other.json", "XDP_GENERIC", 1, order)
Hello == Entry("libhello", "", "KProbe", 1, 1)

(* A configuration with entry e under id x, and one with two entries.      *)
One(x, e) == [id \in Ids({x}) |-> e]
Two(x, e, y, f) == [id \in Ids({x, y}) |-> IF id = Id(x) THEN e ELSE f]

(* Each id keeps its library; entries come, go, are moved to the other     *)
(* interface and given another file.                                       *)
EditConfigs ==
  {NoConfig, One("a", Acl(1)), Two("a", Acl(1), "b", Lb(2)),
   Two("a", AclOther(1), "b", LbOther(2)), One("a", Acl2(1)),
   Two("b", Lb(2), "z", Hello)}
AnyEdit == EditConfigs \X EditConfigs

(* Programs are only appended to the chain of the one interface.           *)
AppendConfigs ==
  {One("a", Acl(1)), One("b", Lb(1)), Two("a", Acl(1), "b", Lb(2)),
   Two("a", Acl(2), "b", Lb(1)), Two("a", AclOther(1), "b", Lb(2)),
   Two("a", Acl(1), "b", Lb(1))}
AppendEdits ==
  {<<NoConfig, cfg>> : cfg \in AppendConfigs} \cup
  {<<cfg, cfg>> : cfg \in AppendConfigs} \cup
  {<<One("a", Acl(1)), Two("a", Acl(1), "b", Lb(2))>>,
   <<One("b", Lb(1)), Two("a", Acl(2), "b", Lb(1))>>,
   <<Two("a", Acl(1), "b", Lb(2)), Two("a", AclOther(1), "b", Lb(2))>>,
   <<Two("a", AclOther(1), "b", Lb(2)), Two("a", Acl(1), "b", Lb(2))>>}

(* The two programs of the interface change places.                        *)
ReorderConfigs == {Two("a", Acl(2), "b", Lb(1)), Two("a", Acl(1), "b", Lb(2))}
ReorderEdits ==
  {<<NoConfig, Two("a", Acl(2), "b", Lb(1))>>,
   <<Two("a", Acl(2), "b", Lb(1)), Two("a", Acl(1), "b", Lb(2))>>}

(* The last program of the interface is removed from the configuration.    *)
ShrinkConfigs == {Two("a", Acl(1), "b", Lb(2)), One("a", Acl(1))}
ShrinkEdits ==
  {<<NoConfig, Two("a", Acl(1), "b", Lb(2))>>,
   <<Two("a", Acl(1), "b", Lb(2)), One("a", Acl(1))>>}

(* A library moves from id b to id a, and b gets another one.              *)
MoveConfigs == {One("b", Acl(1)), Two("a", Acl(1), "b", Lb(2))}
MoveEdits ==
  {<<NoConfig, One("b", Acl(1))>>, <<One("b", Acl(1)), Two("a", Acl(1), "b", Lb(2))>>}

(* The edits after which the program is not as configured, together.       *)
FaultConfigs == ReorderConfigs \cup ShrinkConfigs \cup MoveConfigs
FaultEdits == ReorderEdits \cup ShrinkEdits \cup MoveEdits
=============================================================================
