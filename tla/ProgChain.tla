----------------------------- MODULE ProgChain -----------------------------
(***************************************************************************)
(* The tail-call chain that PinnedProgMap (src/src/ebpf/pinned_prog_map)   *)
(* keeps for every hook: a region of prog_array slots per network          *)
(* interface (process memory), the kernel hash that maps (interface,       *)
(* program id) to a slot, and the kernel prog_array that maps a slot to a  *)
(* program.  The two kernel maps are pinned: they outlive a crash of the   *)
(* process, the regions do not.                                            *)
(*                                                                         *)
(* Rebuilding a chain is several steps of the calling thread, because no   *)
(* lock is held from one kernel map operation to the next: allocate a      *)
(* region for every pair of the vector, empty the hash, then write one     *)
(* hash entry at a time, interface by interface.                           *)
(***************************************************************************)
EXTENDS Integers, Sequences, FiniteSets

CONSTANTS
  Hooks,              \* hook types that occur in a configuration
  MappedHooks,        \* the ones init() creates maps for: TC and XDP_GENERIC
  Ifindexes,          \* network interfaces
  Names,              \* canonical program names (ebpf_id.map gives each an id)
  Registered,         \* [Hooks -> SUBSET Names]: prog_registry_, by hook
  Scheduler,          \* [Hooks -> Names]: canonical name of the scheduler
  Threads,            \* threads that may run Daemon::update
  MAX_PER_NIC_PROGS,  \* slots of a region (8 in ebpf_common.h)
  MAX_CHAIN_PROGS,    \* slots of prog_array and entries of the hash (32)
  U32,                \* the modulus of a hash value: 2^32, or a scaled-down one
  NDEBUG,             \* TRUE in the Release build: ASSERT only prints
  MaxVec              \* bound: longest vector given to updateChain

ASSUME ConstantsAssumption ==
  /\ MappedHooks \subseteq Hooks
  /\ IsFiniteSet(Ifindexes)
  /\ Registered \in [Hooks -> SUBSET Names]
  /\ Scheduler \in [Hooks -> Names]
  /\ MAX_PER_NIC_PROGS \in Nat \ {0}
  /\ MAX_CHAIN_PROGS \in Nat \ {0}
  /\ U32 \in Nat
  /\ U32 > MAX_CHAIN_PROGS + MaxVec + 1
  /\ NDEBUG \in BOOLEAN
  /\ MaxVec \in Nat

VARIABLES
  alive,      \* the process runs
  regions,    \* [Hooks -> [Ifindexes -> start_index]], -1: no region
  idHash,     \* [MappedHooks -> [Keys -> slot]], -1: no entry
  progArray,  \* [MappedHooks -> [Slots -> program]], "none": empty slot
  upd         \* [Threads -> the chain rebuild the thread is in]

vars == <<alive, regions, idHash, progArray, upd>>

-----------------------------------------------------------------------------
Slots == 0..(MAX_CHAIN_PROGS - 1)
Absent == -1                 \* no region, or no entry in the hash
NoProg == "none"

(* CHAIN_KEY(ifindex, id): the interface in the high word, the id in the   *)
(* low one, so that two keys are equal only if both parts are.             *)
Keys == Ifindexes \X Names

(* NamesIfindexVec: pairs (canonical name, ifindex) in configured order.   *)
Pairs == Names \X Ifindexes
Vecs == UNION {[1..n -> Pairs] : n \in 0..MaxVec}

Idle == [pc |-> "idle"]

(* A thread inside a rebuild: the hook, the vector, the position in it of  *)
(* the loop that runs, the interfaces not processed yet, and for the       *)
(* interface being written the next slot.                                  *)
Calls ==
  [pc : {"allocate", "clear", "nics", "write"}, hook : Hooks, vec : Seq(Pairs),
   pos : Nat, todo : SUBSET Ifindexes, nic : Ifindexes, index : Int]

-----------------------------------------------------------------------------
(* Regions *)

Starts(regs) == {regs[i] : i \in Ifindexes} \ {Absent}

(* Mutant: the next region begins on the last slot of the one before.      *)
NextStartOverlapping(regs) ==
  IF Starts(regs) = {} THEN 0
  ELSE (CHOOSE s \in Starts(regs) : \A r \in Starts(regs) : r <= s)
         + MAX_PER_NIC_PROGS - 1

(* The loop of allocateRegion over the hook's regions: a slot past every   *)
(* region.                                                                 *)
NextStart(regs) ==
  IF Starts(regs) = {} THEN 0
  ELSE (CHOOSE s \in Starts(regs) : \A r \in Starts(regs) : r <= s)
         + MAX_PER_NIC_PROGS

(* Mutant: the capacity check is missing.                                  *)
AllocateRegionUnchecked(regs, i) ==
  IF regs[i] # Absent THEN regs ELSE [regs EXCEPT ![i] = NextStart(regs)]

(* allocateRegion: nothing to do when the interface has a region, nothing  *)
(* done (the call returns -1) when prog_array has no room for another.     *)
AllocateRegion(regs, i) ==
  IF \/ regs[i] # Absent
     \/ NextStart(regs) + MAX_PER_NIC_PROGS > MAX_CHAIN_PROGS
  THEN regs
  ELSE [regs EXCEPT ![i] = NextStart(regs)]

(* getStartIndex answers -1 for an interface without a region.             *)
GetStartIndex(h, i) == regions[h][i]

-----------------------------------------------------------------------------
(* Rebuilding the chain of a hook *)

(* The names of an interface are its names in the order of the vector,    *)
(* behind the scheduler at position 0.                                     *)
NameAt(h, vec, pos) == IF pos = 0 THEN Scheduler[h] ELSE vec[pos][1]
OfNic(vec, pos, i) == pos > 0 => vec[pos][2] = i

Nics(vec) == {vec[k][2] : k \in 1..Len(vec)}

HashFull(h) ==
  Cardinality({k \in Keys : idHash[h][k] # Absent}) >= MAX_CHAIN_PROGS

Return(t) == upd' = [upd EXCEPT ![t] = Idle]

(* Daemon::update has sorted the entries of hook h into vec.               *)
RebuildChain(t, h, vec) ==
  /\ alive /\ upd[t] = Idle
  /\ vec # <<>>
  /\ upd' = [upd EXCEPT ![t] =
               [pc |-> "allocate", hook |-> h, vec |-> vec, pos |-> 1,
                todo |-> {}, nic |-> vec[1][2], index |-> 0]]
  /\ UNCHANGED <<alive, regions, idHash, progArray>>

(* Loader::allocateChain for the next pair; its result is not looked at.   *)
AllocateChain(t) ==
  /\ alive /\ upd[t].pc = "allocate"
  /\ upd[t].pos <= Len(upd[t].vec)
  /\ regions' = [regions EXCEPT ![upd[t].hook] =
                   AllocateRegion(@, upd[t].vec[upd[t].pos][2])]
  /\ upd' = [upd EXCEPT ![t].pos = @ + 1]
  /\ UNCHANGED <<alive, idHash, progArray>>

(* updateChain is entered; a hook without maps ends the call.              *)
EnterUpdateChain(t) ==
  /\ alive /\ upd[t].pc = "allocate"
  /\ upd[t].pos > Len(upd[t].vec)
  /\ IF upd[t].hook \in MappedHooks
     THEN upd' = [upd EXCEPT ![t].pc = "clear"]
     ELSE Return(t)
  /\ UNCHANGED <<alive, regions, idHash, progArray>>

(* The delete loop ends when the hash has no first key.                    *)
ClearIds(t) ==
  /\ alive /\ upd[t].pc = "clear"
  /\ idHash' = [idHash EXCEPT ![upd[t].hook] = [k \in Keys |-> Absent]]
  /\ upd' = [upd EXCEPT ![t].pc = "nics", ![t].todo = Nics(upd[t].vec)]
  /\ UNCHANGED <<alive, regions, progArray>>

(* The process dies: the pinned maps keep what they hold.                  *)
Die ==
  /\ alive' = FALSE
  /\ regions' = [h \in Hooks |-> [i \in Ifindexes |-> Absent]]
  /\ upd' = [t \in Threads |-> Idle]
  /\ UNCHANGED <<idHash, progArray>>

(* The next interface i of the unordered map has no region: ASSERT(index   *)
(* >= 0) aborts a Debug build.                                             *)
AssertStartIndex(t, i) ==
  /\ alive /\ upd[t].pc = "nics" /\ i \in upd[t].todo
  /\ GetStartIndex(upd[t].hook, i) = Absent /\ ~NDEBUG
  /\ Die

(* The next interface i is skipped when its region does not start below    *)
(* MAX_PER_NIC_PROGS.                                                      *)
SkipNic(t, i) ==
  /\ alive /\ upd[t].pc = "nics" /\ i \in upd[t].todo
  /\ GetStartIndex(upd[t].hook, i) >= MAX_PER_NIC_PROGS
  /\ upd' = [upd EXCEPT ![t].todo = @ \ {i}]
  /\ UNCHANGED <<alive, regions, idHash, progArray>>

EnterNic(t, i) ==
  /\ alive /\ upd[t].pc = "nics" /\ i \in upd[t].todo
  /\ GetStartIndex(upd[t].hook, i) < MAX_PER_NIC_PROGS
  /\ GetStartIndex(upd[t].hook, i) # Absent \/ NDEBUG
  /\ upd' = [upd EXCEPT ![t].pc = "write", ![t].pos = 0, ![t].nic = i,
                        ![t].todo = @ \ {i},
                        ![t].index = GetStartIndex(upd[t].hook, i)]
  /\ UNCHANGED <<alive, regions, idHash, progArray>>

(* Mutant: the slot is not advanced.                                       *)
WriteIdSameSlot(t) ==
  /\ alive /\ upd[t].pc = "write"
  /\ upd[t].pos <= Len(upd[t].vec)
  /\ LET h == upd[t].hook
         n == NameAt(h, upd[t].vec, upd[t].pos)
     IN  IF OfNic(upd[t].vec, upd[t].pos, upd[t].nic) /\ n \in Registered[h]
         THEN idHash' = [idHash EXCEPT ![h][<<upd[t].nic, n>>] = upd[t].index % U32]
         ELSE UNCHANGED idHash
  /\ upd' = [upd EXCEPT ![t].pos = @ + 1]
  /\ UNCHANGED <<alive, regions, progArray>>

(* The next name of the interface: a name that is not registered is        *)
(* skipped, a hash with no room for a new key ends the call, else the slot *)
(* is recorded.                                                            *)
WriteId(t) ==
  /\ alive /\ upd[t].pc = "write"
  /\ upd[t].pos <= Len(upd[t].vec)
  /\ LET h == upd[t].hook
         n == NameAt(h, upd[t].vec, upd[t].pos)
         key == <<upd[t].nic, n>>
         inChain == OfNic(upd[t].vec, upd[t].pos, upd[t].nic) /\ n \in Registered[h]
         noRoom == idHash[h][key] = Absent /\ HashFull(h)
     IN  \/ /\ ~inChain
            /\ upd' = [upd EXCEPT ![t].pos = @ + 1]
            /\ UNCHANGED idHash
         \/ /\ inChain /\ noRoom
            /\ Return(t)
            /\ UNCHANGED idHash
         \/ /\ inChain /\ ~noRoom
            /\ idHash' = [idHash EXCEPT ![h][key] = upd[t].index % U32]
            /\ upd' = [upd EXCEPT ![t].pos = @ + 1, ![t].index = @ + 1]
  /\ UNCHANGED <<alive, regions, progArray>>

LeaveNic(t) ==
  /\ alive /\ upd[t].pc = "write"
  /\ upd[t].pos > Len(upd[t].vec)
  /\ upd' = [upd EXCEPT ![t].pc = "nics"]
  /\ UNCHANGED <<alive, regions, idHash, progArray>>

ReturnUpdateChain(t) ==
  /\ alive /\ upd[t].pc = "nics" /\ upd[t].todo = {}
  /\ Return(t)
  /\ UNCHANGED <<alive, regions, idHash, progArray>>

-----------------------------------------------------------------------------
(* insertProg: a program that has an entry in the hash is written to the   *)
(* slot of the entry, if prog_array has that slot.                         *)
InsertProgEffect(h, n, i) ==
  IF /\ h \in MappedHooks
     /\ n \in Registered[h]
     /\ idHash[h][<<i, n>>] \in Slots
  THEN progArray' = [progArray EXCEPT ![h][idHash[h][<<i, n>>]] = n]
  ELSE UNCHANGED progArray

InsertProg(t, h, n, i) ==
  /\ alive /\ upd[t] = Idle
  /\ InsertProgEffect(h, n, i)
  /\ UNCHANGED <<alive, regions, idHash, upd>>

Crash == alive /\ Die

(* cleanup: the pins are removed, and with the last reference the maps.    *)
Cleanup ==
  /\ alive /\ \A t \in Threads : upd[t] = Idle
  /\ alive' = FALSE
  /\ regions' = [h \in Hooks |-> [i \in Ifindexes |-> Absent]]
  /\ idHash' = [h \in MappedHooks |-> [k \in Keys |-> Absent]]
  /\ progArray' = [h \in MappedHooks |-> [s \in Slots |-> NoProg]]
  /\ UNCHANGED upd

(* init of the next process opens the pinned maps, or creates empty ones.  *)
Restart ==
  /\ ~alive
  /\ alive' = TRUE
  /\ UNCHANGED <<regions, idHash, progArray, upd>>

-----------------------------------------------------------------------------
Init ==
  /\ alive = TRUE
  /\ regions = [h \in Hooks |-> [i \in Ifindexes |-> Absent]]
  /\ idHash = [h \in MappedHooks |-> [k \in Keys |-> Absent]]
  /\ progArray = [h \in MappedHooks |-> [s \in Slots |-> NoProg]]
  /\ upd = [t \in Threads |-> Idle]

UpdateChainStep(t) ==
  \/ AllocateChain(t)
  \/ EnterUpdateChain(t)
  \/ ClearIds(t)
  \/ \E i \in Ifindexes :
       AssertStartIndex(t, i) \/ SkipNic(t, i) \/ EnterNic(t, i)
  \/ WriteId(t)
  \/ LeaveNic(t)
  \/ ReturnUpdateChain(t)

Next ==
  \/ \E t \in Threads :
       \/ \E h \in Hooks, vec \in Vecs : RebuildChain(t, h, vec)
       \/ UpdateChainStep(t)
       \/ \E h \in Hooks, n \in Names, i \in Ifindexes : InsertProg(t, h, n, i)
  \/ Crash
  \/ Cleanup
  \/ Restart

Spec == Init /\ [][Next]_vars

-----------------------------------------------------------------------------
(* The kernel's side: CHAIN_NEXT of the program that runs for interface i. *)
TailCall(h, n, i) ==
  LET next == (idHash[h][<<i, n>>] + 1) % U32
  IN  IF idHash[h][<<i, n>>] = Absent \/ next \notin Slots
      THEN NoProg ELSE progArray[h][next]

(* The programs a packet of interface i meets, from the attached scheduler *)
(* on; a chain that revisits a program ends at the kernel's limit.         *)
MaxTailCalls == 33
Walk(h, i) ==
  LET w[k \in 0..MaxTailCalls] ==
        IF k = 0 THEN Scheduler[h]
        ELSE IF w[k-1] = NoProg THEN NoProg ELSE TailCall(h, w[k-1], i)
      last == CHOOSE k \in 0..MaxTailCalls :
                /\ w[k] # NoProg
                /\ k = MaxTailCalls \/ w[k+1] = NoProg
  IN  [k \in 1..(last + 1) |-> w[k-1]]

-----------------------------------------------------------------------------
(* The types of the state: every region starts at a slot of prog_array,    *)
(* every hash value is an unsigned 32-bit number, every slot holds a       *)
(* program or nothing.                                                     *)
TypeOK ==
  /\ alive \in BOOLEAN
  /\ regions \in [Hooks -> [Ifindexes -> Slots \cup {Absent}]]
  /\ idHash \in [MappedHooks -> [Keys -> (0..(U32-1)) \cup {Absent}]]
  /\ progArray \in [MappedHooks -> [Slots -> Names \cup {NoProg}]]
  /\ upd \in [Threads -> Calls \cup {Idle}]

(* Two interfaces of a hook never share a prog_array slot, and no region   *)
(* leaves the array: what allocateRegion hands out (pinned_prog_map.cc     *)
(* 144-168), whatever the order of the requests and however many fail.     *)
RegionsDisjoint ==
  \A h \in Hooks : \A i, j \in Ifindexes :
    regions[h][i] # Absent /\ regions[h][j] # Absent =>
      /\ regions[h][i] + MAX_PER_NIC_PROGS <= MAX_CHAIN_PROGS
      /\ i # j => \/ regions[h][i] + MAX_PER_NIC_PROGS <= regions[h][j]
                  \/ regions[h][j] + MAX_PER_NIC_PROGS <= regions[h][i]

(* Two entries of a hook's hash never name the same slot: else loading one *)
(* program replaces another one in prog_array (updateChain 241-285 with    *)
(* insertProg 332-342).  Holds at every step of a rebuild and after a      *)
(* crash in the middle of one.                                             *)
HashInjective ==
  \A h \in MappedHooks : \A k, l \in Keys :
    /\ idHash[h][k] # Absent
    /\ idHash[h][k] = idHash[h][l]
    => k = l

(* ASSERT(index >= 0) of updateChain: the interface being processed has a  *)
(* region.                                                                 *)
StartIndexAssertion ==
  \A t \in Threads :
    upd[t].pc = "nics" =>
      \A i \in upd[t].todo : GetStartIndex(upd[t].hook, i) # Absent

(* Every interface of the vector gets its own order in the hash, so that   *)
(* each of its registered names has an entry when updateChain has returned *)
(* TRUE ("按照同一个 hook 不同网卡单独排序", pinned_prog_map.cc 235-239).  *)
EveryNicOrdered ==
  \A t \in Threads :
    upd[t].pc = "nics" /\ upd[t].todo = {} =>
      \A k \in 1..Len(upd[t].vec) :
        LET n == upd[t].vec[k][1]
            i == upd[t].vec[k][2]
        IN  n \in Registered[upd[t].hook] =>
              idHash[upd[t].hook][<<i, n>>] # Absent

(* A region's limit: "每个网卡最多绑定 MAX_PER_NIC_PROGS 个 eBPF 程序"     *)
(* (pinned_prog_map.cc 251): no entry of an interface lies outside the     *)
(* slots of its region.                                                    *)
EntriesInRegion ==
  \A h \in MappedHooks : \A k \in Keys :
    regions[h][k[1]] # Absent /\ idHash[h][k] # Absent =>
      idHash[h][k] \in regions[h][k[1]] .. regions[h][k[1]] + MAX_PER_NIC_PROGS - 1
=============================================================================
