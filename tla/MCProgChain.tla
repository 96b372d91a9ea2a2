---------------------------- MODULE MCProgChain ----------------------------
(* Instances of ProgChain for TLC: a hook with maps and one without, the   *)
(* scheduler, two registered programs and a library that is not in         *)
(* ebpf_id.map.                                                            *)
EXTENDS ProgChain

MCRegistered == [h \in Hooks |-> {"SCHEDULER", "ACL", "LB"} \cap Names]
MCScheduler == [h \in Hooks |-> "SCHEDULER"]
=============================================================================
