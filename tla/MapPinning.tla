----------------------------- MODULE MapPinning -----------------------------
(***************************************************************************)
(* The pinned maps of the program: PinnedProgMap::ensureMaps and cleanup   *)
(* (src/src/ebpf/pinned_prog_map.cc), RingBufferMap::init and cleanup      *)
(* (pinned_ringbuffer_map.cc), and what libbpf does with the maps every    *)
(* eBPF program declares as pinned by name (ebpf_chain.h,                  *)
(* klog_helpers.bpf.h).  A pin outlives the process that made it; module   *)
(* Process says when the operations are called and where the process may   *)
(* die between them.                                                       *)
(***************************************************************************)
EXTENDS Integers, Sequences, FiniteSets

CONSTANTS
  HookOrder,  \* the hooks whose maps init ensures, in order
  NoMap       \* nothing is pinned; no descriptor

Hooks == {HookOrder[k] : k \in 1..Len(HookOrder)}
ArrayOf(h) == <<h, "parray">>
IdsOf(h) == <<h, "idhash">>
Ring == <<"hebpf", "klog">>
Paths == {ArrayOf(h) : h \in Hooks} \cup {IdsOf(h) : h \in Hooks} \cup {Ring}

ASSUME MapAssumption ==
  /\ HookOrder \in Seq(Hooks) /\ HookOrder # <<>>
  /\ NoMap \notin Nat

(* new[p] is the map the kernel creates when one for path p is created.    *)
VARIABLES
  bpffs,     \* the BPF file system is mounted
  pins,      \* [Paths -> the map pinned there]
  hookMaps,  \* hook_maps_: [Hooks -> maps of the descriptors held]
  ringFd,    \* map_fd_ of the ring buffer
  made       \* ensureMaps: the maps it has created and not stored yet

mapVars == <<bpffs, pins, hookMaps, ringFd, made>>

NoMaps == [array |-> NoMap, ids |-> NoMap]
Pinned(p) == pins[p] # NoMap
HalfPinned(h) == Pinned(ArrayOf(h)) # Pinned(IdsOf(h))

-----------------------------------------------------------------------------
(* ensureBpffsMounted, once per process; nothing calls releaseBpffs.       *)
EnsureBpffsMounted(ok) ==
  /\ bpffs' = (bpffs \/ ok)
  /\ UNCHANGED <<pins, hookMaps, ringFd, made>>

(* ensureMaps opens the two pins ...                                       *)
EnsureOpens(h) == Pinned(ArrayOf(h)) /\ Pinned(IdsOf(h))

EnsureOpen(h) ==
  /\ EnsureOpens(h)
  /\ hookMaps' = [hookMaps EXCEPT ![h] = [array |-> pins[ArrayOf(h)], ids |-> pins[IdsOf(h)]]]
  /\ UNCHANGED <<bpffs, pins, ringFd, made>>

(* ... and when one is missing creates both maps anew ...                  *)
EnsureCreate(h, new) ==
  /\ ~EnsureOpens(h)
  /\ made' = [array |-> new[ArrayOf(h)], ids |-> new[IdsOf(h)]]
  /\ UNCHANGED <<bpffs, pins, hookMaps, ringFd>>

(* ... unless the kernel refuses: bpf_map_create fails, or bpf_obj_get of  *)
(* maps that are there, which are created anew and then are in the way.    *)
EnsureRefused == UNCHANGED mapVars

(* ... to pin the first ...                                                *)
PinArray(h) ==
  /\ ~Pinned(ArrayOf(h))
  /\ pins' = [pins EXCEPT ![ArrayOf(h)] = made.array]
  /\ UNCHANGED <<bpffs, hookMaps, ringFd, made>>

PinArrayFails ==    \* the name is taken, or the kernel refuses
  /\ made' = NoMaps
  /\ UNCHANGED <<bpffs, pins, hookMaps, ringFd>>

(* ... and the second, undoing the first when that fails.                  *)
PinIds(h) ==
  /\ ~Pinned(IdsOf(h))
  /\ pins' = [pins EXCEPT ![IdsOf(h)] = made.ids]
  /\ hookMaps' = [hookMaps EXCEPT ![h] = made]
  /\ made' = NoMaps
  /\ UNCHANGED <<bpffs, ringFd>>

PinIdsFailsKeeping(h) ==    \* mutant: the first pin stays
  /\ made' = NoMaps
  /\ UNCHANGED <<bpffs, pins, hookMaps, ringFd>>

PinIdsFails(h) ==    \* for the same reasons
  /\ pins' = [pins EXCEPT ![ArrayOf(h)] = NoMap]
  /\ made' = NoMaps
  /\ UNCHANGED <<bpffs, hookMaps, ringFd>>

(* cleanup: the two pins of a hook go one after the other.                 *)
UnlinkArray(h) ==
  /\ hookMaps[h].array # NoMap
  /\ hookMaps' = [hookMaps EXCEPT ![h].array = NoMap]
  /\ pins' = [pins EXCEPT ![ArrayOf(h)] = NoMap]
  /\ UNCHANGED <<bpffs, ringFd, made>>

UnlinkIds(h) ==
  /\ hookMaps[h].array = NoMap /\ hookMaps[h].ids # NoMap
  /\ hookMaps' = [hookMaps EXCEPT ![h].ids = NoMap]
  /\ pins' = [pins EXCEPT ![IdsOf(h)] = NoMap]
  /\ UNCHANGED <<bpffs, ringFd, made>>

-----------------------------------------------------------------------------
(* RingBufferMap::init: the pinned ring is opened, or created and pinned.  *)
RingInitPrivate(new) ==    \* mutant: a ring of its own, pinned by nobody
  /\ ringFd' = new[Ring]
  /\ UNCHANGED <<bpffs, pins, hookMaps, made>>

RingInit(new) ==
  /\ IF Pinned(Ring)
     THEN ringFd' = pins[Ring] /\ UNCHANGED pins
     ELSE /\ ringFd' = new[Ring]
          /\ pins' = [pins EXCEPT ![Ring] = new[Ring]]
  /\ UNCHANGED <<bpffs, hookMaps, made>>

(* init returns false: bpf_obj_get fails with anything but ENOENT, or the  *)
(* ring cannot be created or pinned.                                       *)
RingRefused ==
  /\ ringFd' = NoMap
  /\ UNCHANGED <<bpffs, pins, hookMaps, made>>

(* RingBufferMap::cleanup closes the descriptor and removes the pin.       *)
RingCleanupKeeping ==    \* mutant: the pin is forgotten
  /\ ringFd' = NoMap
  /\ UNCHANGED <<bpffs, pins, hookMaps, made>>

RingCleanup ==
  /\ ringFd' = NoMap
  /\ pins' = [pins EXCEPT ![Ring] = NoMap]
  /\ UNCHANGED <<bpffs, hookMaps, made>>

-----------------------------------------------------------------------------
(* libbpf binds a program to the maps that are pinned under the names it   *)
(* declares, and creates and pins the ones that are missing.               *)
BoundMaps(new) == [p \in Paths |-> IF Pinned(p) THEN pins[p] ELSE new[p]]

BindMaps(new) ==
  /\ pins' = BoundMaps(new)
  /\ UNCHANGED <<bpffs, hookMaps, ringFd, made>>

(* The process is gone: its descriptors are closed.                        *)
DropMaps ==
  /\ hookMaps' = [h \in Hooks |-> NoMaps]
  /\ ringFd' = NoMap /\ made' = NoMaps
  /\ UNCHANGED <<bpffs, pins>>

MapInit ==
  /\ bpffs \in BOOLEAN
  /\ pins = [p \in Paths |-> NoMap]
  /\ hookMaps = [h \in Hooks |-> NoMaps]
  /\ ringFd = NoMap /\ made = NoMaps
=============================================================================
