------------------------------- MODULE Configs -------------------------------
(***************************************************************************)
(* Configs and ConfigEbpf (src/src/daemon/configs.hpp, configs.cc): the    *)
(* members of a configuration, their defaults, the keys of the YAML file   *)
(* they are read from and written to, and the file --get-conf writes       *)
(* (src/main.cc).  A YAML file is the function from the paths of its keys  *)
(* to their values; strings and addresses are opaque values.               *)
(***************************************************************************)
EXTENDS Integers

(* HookType; a name that is none of them is read as UNKNOWN.               *)
HookNames == {"TC", "XDP_GENERIC", "XDP_NATIVE", "XDP_OFFLOAD", "KProbe", "UNKNOWN"}

(* ConfigEbpf, an entry of the map of programs.                            *)
EbpfMembers == {"lib", "config", "hook", "ifindex", "order"}

DefaultEbpf ==
  [lib |-> "/path/to/libhebpf_xx.so", config |-> "/path/to/config.json", hook |-> "UNKNOWN",
   ifindex |-> -1, order |-> 0]

(* convert<ConfigEbpf>: encode writes a key per member, the hook by its    *)
(* name; decode takes the keys the entry has.                              *)
EncodeEbpf(e) == [key \in EbpfMembers |-> e[key]]

DecodeEbpf(node) ==
  LET read == [f \in EbpfMembers |-> IF f \in DOMAIN node THEN node[f] ELSE DefaultEbpf[f]]
  IN  [read EXCEPT !.hook = IF @ \in HookNames THEN @ ELSE "UNKNOWN"]

(* Configs: the members, what they are without a file, and the key of each *)
(* in the file.                                                            *)
Members == {"promEnabled", "promListen", "dbgEnabled", "dbgAddr", "dbgPort", "ebpfs"}

DefaultConfig ==
  [promEnabled |-> FALSE, promListen |-> "0.0.0.0:8080", dbgEnabled |-> FALSE,
   dbgAddr |-> "127.0.0.1", dbgPort |-> 9999, ebpfs |-> [example |-> DefaultEbpf]]

KeyOf ==
  [promEnabled |-> <<"prometheus", "enabled">>, promListen |-> <<"prometheus", "listen">>,
   dbgEnabled |-> <<"debug_server", "enabled">>, dbgAddr |-> <<"debug_server", "address">>,
   dbgPort |-> <<"debug_server", "port">>, ebpfs |-> <<"ebpf">>]

Value(f, v) == IF f = "ebpfs" THEN [name \in DOMAIN v |-> DecodeEbpf(v[name])] ELSE v

(* convert<Configs>: decode takes the keys the file has.                   *)
Decode(node) ==
  [f \in Members |->
     IF KeyOf[f] \in DOMAIN node THEN Value(f, node[KeyOf[f]]) ELSE DefaultConfig[f]]

(* encode writes all of them, but no empty map of programs.                *)
Written(c) == {f \in Members : f = "ebpfs" => DOMAIN c.ebpfs # {}}

EncodeMember(c, f) ==
  IF f = "ebpfs" THEN [name \in DOMAIN c.ebpfs |-> EncodeEbpf(c.ebpfs[name])] ELSE c[f]

EncodePortless(c) ==    \* mutant: the port is forgotten
  [key \in {KeyOf[f] : f \in Written(c) \ {"dbgPort"}} |->
     EncodeMember(c, CHOOSE f \in Written(c) : KeyOf[f] = key)]

Encode(c) ==
  [key \in {KeyOf[f] : f \in Written(c)} |->
     EncodeMember(c, CHOOSE f \in Written(c) : KeyOf[f] = key)]

(* loadFromConfig: a file that is missing or empty leaves the defaults.    *)
LoadFromConfig(file) == IF file = <<>> THEN DefaultConfig ELSE Decode(file)

(* generateEmptyConfigFile writes the address and the port of the debug    *)
(* server under the key "listen", which nothing reads.                     *)
EmptyConfigFile ==
  [key \in (DOMAIN Encode(DefaultConfig) \ {KeyOf.dbgAddr, KeyOf.dbgPort})
             \cup {<<"debug_server", "listen">>} |->
     IF key = <<"debug_server", "listen">> THEN DefaultConfig.dbgAddr ELSE Encode(DefaultConfig)[key]]
=============================================================================
