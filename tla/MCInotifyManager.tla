-------------------------- MODULE MCInotifyManager --------------------------
(* Instances of InotifyManager for TLC: the main configuration and service *)
(* files next to it, and service files in a directory of their own, or in  *)
(* one that does not exist.                                                *)
EXTENDS InotifyManager

MCParentDir ==
  [p \in Paths |-> CASE p \in {"etc/acl.json", "etc/lb.json"} -> "etc"
                     [] p = "tmp/lb.json" -> "tmp"
                     [] OTHER -> "."]
MCFileName ==
  [p \in Paths |-> CASE p = "etc/acl.json" -> "acl.json"
                     [] p \in {"etc/lb.json", "tmp/lb.json"} -> "lb.json"
                     [] OTHER -> p]
MCBarePaths == {p \in Paths : MCParentDir[p] = "."}
=============================================================================
