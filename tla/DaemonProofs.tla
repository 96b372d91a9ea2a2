---------------------------- MODULE DaemonProofs ----------------------------
(* Theorems about ProgChain and about Daemon, which extends it, for every  *)
(* set of hooks, interfaces, names, threads, configurations and edits, and *)
(* every size of the maps.                                                 *)
EXTENDS Daemon, FiniteSetTheorems, TLAPS

-----------------------------------------------------------------------------
(* ProgChain.                                                              *)

RegionType == [Ifindexes -> Slots \cup {Absent}]

RegionsOf(regs) ==
  \A i, j \in Ifindexes :
    regs[i] # Absent /\ regs[j] # Absent =>
      /\ regs[i] + MAX_PER_NIC_PROGS <= MAX_CHAIN_PROGS
      /\ i # j => \/ regs[i] + MAX_PER_NIC_PROGS <= regs[j]
                  \/ regs[j] + MAX_PER_NIC_PROGS <= regs[i]

-----------------------------------------------------------------------------
(* The regions of a hook, once there are any, have one that starts last,   *)
(* so the CHOOSE of NextStart has a value.                                 *)
LastRegionOf(regs) ==
  Starts(regs) # {} => \E s \in Starts(regs) : \A r \in Starts(regs) : r <= s

(* The slot NextStart proposes lies past every region of the hook.         *)
LEMMA NextStartPastRegions ==
  ASSUME NEW regs \in RegionType, LastRegionOf(regs)
  PROVE  /\ NextStart(regs) \in Nat
         /\ \A i \in Ifindexes :
              regs[i] # Absent => regs[i] + MAX_PER_NIC_PROGS <= NextStart(regs)
<1>1. Starts(regs) \in SUBSET Slots
  BY DEF Starts, RegionType, Absent
<1>2. MAX_PER_NIC_PROGS \in Nat /\ MAX_CHAIN_PROGS \in Nat
  BY ConstantsAssumption
<1>3. CASE Starts(regs) = {}
  BY <1>3 DEF Starts, NextStart
<1>4. CASE Starts(regs) # {}
  <2> DEFINE m == CHOOSE s \in Starts(regs) : \A r \in Starts(regs) : r <= s
  <2>1. m \in Starts(regs) /\ \A r \in Starts(regs) : r <= m
    BY <1>4 DEF LastRegionOf
  <2>2. NextStart(regs) = m + MAX_PER_NIC_PROGS
    BY <1>4 DEF NextStart
  <2>3. m \in Nat
    BY <2>1, <1>1, <1>2 DEF Slots
  <2>4. ASSUME NEW i \in Ifindexes, regs[i] # Absent
        PROVE  regs[i] + MAX_PER_NIC_PROGS <= NextStart(regs)
    <3>1. regs[i] \in Starts(regs)
      BY <2>4 DEF Starts
    <3>2. regs[i] <= m /\ regs[i] \in Nat
      BY <3>1, <2>1, <1>1, <1>2 DEF Slots
    <3> QED
      BY <3>2, <2>2, <2>3, <1>2
  <2> QED
    BY <2>2, <2>3, <2>4, <1>2
<1> QED
  BY <1>3, <1>4

(* allocateRegion keeps the regions of a hook apart and in bounds.         *)
LEMMA AllocateRegionSafe ==
  ASSUME NEW regs \in RegionType, RegionsOf(regs), LastRegionOf(regs),
         NEW i \in Ifindexes
  PROVE  /\ AllocateRegion(regs, i) \in RegionType
         /\ RegionsOf(AllocateRegion(regs, i))
         /\ LastRegionOf(AllocateRegion(regs, i))
<1> DEFINE n == NextStart(regs)
           new == AllocateRegion(regs, i)
<1>1. MAX_PER_NIC_PROGS \in Nat \ {0} /\ MAX_CHAIN_PROGS \in Nat
  BY ConstantsAssumption
<1>2. n \in Nat /\ \A j \in Ifindexes : regs[j] # Absent => regs[j] + MAX_PER_NIC_PROGS <= n
  BY NextStartPastRegions
<1>3. CASE regs[i] # Absent \/ n + MAX_PER_NIC_PROGS > MAX_CHAIN_PROGS
  BY <1>3 DEF AllocateRegion
<1>4. CASE ~(regs[i] # Absent \/ n + MAX_PER_NIC_PROGS > MAX_CHAIN_PROGS)
  <2>1. new = [regs EXCEPT ![i] = n]
    BY <1>4 DEF AllocateRegion
  <2>2. n + MAX_PER_NIC_PROGS <= MAX_CHAIN_PROGS
    BY <1>4, <1>1, <1>2
  <2>3. n \in Slots
    BY <2>2, <1>1, <1>2 DEF Slots
  <2>4. new \in RegionType
    BY <2>1, <2>3 DEF RegionType
  <2>5. \A j \in Ifindexes : new[j] = IF j = i THEN n ELSE regs[j]
    BY <2>1 DEF RegionType
  <2> HIDE DEF new, n
  <2>6. RegionsOf(new)
    BY <2>2, <2>5, <1>1, <1>2 DEF RegionsOf, RegionType, Slots, Absent
  <2>7. LastRegionOf(new)
    <3>1. \A r \in Starts(new) : r <= n
      <4> SUFFICES ASSUME NEW j \in Ifindexes, new[j] # Absent PROVE new[j] <= n
        BY DEF Starts
      <4> QED
        BY <2>5, <1>1, <1>2 DEF RegionType, Slots
    <3>2. n \in Starts(new)
      BY <2>3, <2>5, <1>2 DEF Starts, Absent
    <3> QED
      BY <3>1, <3>2 DEF LastRegionOf
  <2> QED
    BY <2>4, <2>6, <2>7 DEF new
<1> QED
  BY <1>3, <1>4

-----------------------------------------------------------------------------
(* Type correctness and region safety, for any number of threads *)

RegionInv == \A h \in Hooks : RegionsOf(regions[h]) /\ LastRegionOf(regions[h])

(* The loop over the pairs starts at the first one.                        *)
PosInv == \A t \in Threads : upd[t].pc = "allocate" => upd[t].pos >= 1

Inv == TypeOK /\ RegionInv /\ PosInv

NoRegions == [h \in Hooks |-> [i \in Ifindexes |-> Absent]]

(* A hook without regions, as a process starts with (init) and a crash     *)
(* leaves behind, is well formed.                                          *)
LEMMA NoRegionsSafe ==
  /\ NoRegions \in [Hooks -> [Ifindexes -> Slots \cup {Absent}]]
  /\ \A h \in Hooks : RegionsOf(NoRegions[h]) /\ LastRegionOf(NoRegions[h])
<1>1. NoRegions \in [Hooks -> [Ifindexes -> Slots \cup {Absent}]]
  BY DEF NoRegions
<1>2. ASSUME NEW h \in Hooks PROVE RegionsOf(NoRegions[h]) /\ LastRegionOf(NoRegions[h])
  <2>1. \A i \in Ifindexes : NoRegions[h][i] = Absent
    BY DEF NoRegions
  <2>2. Starts(NoRegions[h]) = {}
    BY <2>1 DEF Starts
  <2> QED
    BY <2>1, <2>2 DEF RegionsOf, LastRegionOf
<1> QED
  BY <1>1, <1>2

(* A thread whose pc is not idle is in a call of the declared shape.       *)
LEMMA InCall ==
  ASSUME TypeOK, NEW t \in Threads, upd[t].pc # "idle"
  PROVE  upd[t] \in Calls
BY DEF TypeOK, Idle

(* The pair the allocate loop looks at (daemon.cc 146-148) is a name and   *)
(* an interface.                                                           *)
LEMMA VecType ==
  ASSUME NEW vec \in Vecs
  PROVE  vec \in Seq(Pairs) /\ Len(vec) <= MaxVec /\ Len(vec) \in Nat
<1>1. PICK n \in 0..MaxVec : vec \in [1..n -> Pairs]
  BY DEF Vecs
<1>2. n \in Nat /\ n <= MaxVec
  BY ConstantsAssumption
<1>3. vec \in Seq(Pairs) /\ Len(vec) = n
  BY <1>1, <1>2
<1> QED
  BY <1>2, <1>3

(* What a function of functions is after an update of one of its           *)
(* functions, which EXCEPT ![h][k] abbreviates.                            *)
LEMMA NestedExcept ==
  ASSUME NEW A, NEW B, NEW C, NEW f \in [A -> [B -> C]], NEW a, NEW b, NEW v \in C
  PROVE  [f EXCEPT ![a][b] = v] \in [A -> [B -> C]]
<1> DEFINE g == [f[a] EXCEPT ![b] = v]
<1>1. a \in A => g \in [B -> C]
  OBVIOUS
<1>2. [f EXCEPT ![a] = g] \in [A -> [B -> C]]
  <2> HIDE DEF g
  <2> QED
    BY <1>1
<1> QED
  BY <1>2

(* The invariant holds when PinnedProgMap has been initialised.            *)
LEMMA InitInv == Init => Inv
<1> SUFFICES ASSUME Init PROVE Inv
  OBVIOUS
<1>1. regions = NoRegions
  BY DEF Init, NoRegions
<1>2. TypeOK
  BY <1>1, NoRegionsSafe DEF Init, TypeOK
<1>3. PosInv
  BY DEF Init, PosInv, Idle
<1> QED
  BY <1>1, <1>2, <1>3, NoRegionsSafe DEF Inv, RegionInv

(* The death of the process keeps the invariant: the regions go, the       *)
(* pinned maps stay as they are.                                           *)
LEMMA DieInv == Inv /\ Die => Inv'
<1> SUFFICES ASSUME Inv, Die PROVE Inv'
  OBVIOUS
<1>1. regions' = NoRegions
  BY DEF Die, NoRegions
<1>2. TypeOK'
  BY <1>1, NoRegionsSafe DEF Inv, TypeOK, Die
<1>3. PosInv'
  BY DEF Die, PosInv, Idle
<1> QED
  BY <1>1, <1>2, <1>3, NoRegionsSafe DEF Inv, RegionInv

(* A step that gives thread t the call c keeps the types of upd.           *)
LEMMA NextCall ==
  ASSUME TypeOK, PosInv, NEW t \in Threads, NEW c \in Calls \cup {Idle},
         c.pc = "allocate" => c.pos >= 1,
         upd' = [upd EXCEPT ![t] = c]
  PROVE  upd' \in [Threads -> Calls \cup {Idle}] /\ PosInv'
<1>1. upd' \in [Threads -> Calls \cup {Idle}]
  BY DEF TypeOK
<1>2. \A u \in Threads : upd'[u] = IF u = t THEN c ELSE upd[u]
  BY DEF TypeOK
<1> QED
  BY <1>1, <1>2 DEF PosInv

(* Every step of a chain rebuild (allocateRegion and updateChain,          *)
(* pinned_prog_map.cc 144-288) keeps the invariant.                        *)
LEMMA StepInv ==
  ASSUME Inv, NEW t \in Threads,
         \/ \E h \in Hooks, vec \in Vecs : RebuildChain(t, h, vec)
         \/ UpdateChainStep(t)
         \/ \E h \in Hooks, n \in Names, i \in Ifindexes : InsertProg(t, h, n, i)
  PROVE  Inv'
<1> USE DEF Inv
<1>1. ASSUME NEW h \in Hooks, NEW vec \in Vecs, RebuildChain(t, h, vec) PROVE Inv'
  <2> DEFINE c == [pc |-> "allocate", hook |-> h, vec |-> vec, pos |-> 1,
                   todo |-> {}, nic |-> vec[1][2], index |-> 0]
  <2>1. vec \in Seq(Pairs) /\ vec # <<>>
    BY <1>1, VecType DEF RebuildChain
  <2>2. vec[1] \in Pairs
    BY <2>1
  <2>3. vec[1][2] \in Ifindexes
    BY <2>2 DEF Pairs
  <2>4. c \in Calls /\ c.pos >= 1
    BY <2>1, <2>3 DEF Calls
  <2>5. upd' = [upd EXCEPT ![t] = c]
    BY <1>1 DEF RebuildChain
  <2> HIDE DEF c
  <2>6. upd' \in [Threads -> Calls \cup {Idle}] /\ PosInv'
    BY <2>4, <2>5, NextCall
  <2> QED
    BY <1>1, <2>6 DEF RebuildChain, TypeOK, RegionInv
<1>2. CASE AllocateChain(t)
  <2>1. upd[t] \in Calls
    BY <1>2, InCall DEF AllocateChain
  <2> DEFINE h == upd[t].hook
             i == upd[t].vec[upd[t].pos][2]
             c == [upd[t] EXCEPT !.pos = @ + 1]
  <2>2. h \in Hooks
    BY <2>1 DEF Calls
  <2>3. upd[t].vec \in Seq(Pairs) /\ upd[t].pos \in 1..Len(upd[t].vec)
    BY <2>1, <1>2 DEF Calls, AllocateChain, PosInv
  <2>4. upd[t].vec[upd[t].pos] \in Pairs
    BY <2>3
  <2>5. i \in Ifindexes
    BY <2>4 DEF Pairs
  <2>6. c \in Calls /\ c.pos >= 1
    BY <2>1, <2>3 DEF Calls
  <2>7. upd' = [upd EXCEPT ![t] = c]
    BY <1>2 DEF AllocateChain
  <2>8. upd' \in [Threads -> Calls \cup {Idle}] /\ PosInv'
    <3> HIDE DEF c
    <3> QED
      BY <2>6, <2>7, NextCall
  <2>9. /\ AllocateRegion(regions[h], i) \in RegionType
        /\ RegionsOf(AllocateRegion(regions[h], i))
        /\ LastRegionOf(AllocateRegion(regions[h], i))
    <3> HIDE DEF h, i
    <3>1. regions[h] \in RegionType /\ RegionsOf(regions[h]) /\ LastRegionOf(regions[h])
      BY <2>2 DEF RegionInv, TypeOK, RegionType
    <3> QED
      BY <2>5, <3>1, AllocateRegionSafe
  <2>10. regions' = [regions EXCEPT ![h] = AllocateRegion(regions[h], i)]
    BY <1>2 DEF AllocateChain
  <2> HIDE DEF h, i
  <2>11. regions' \in [Hooks -> [Ifindexes -> Slots \cup {Absent}]]
    BY <2>2, <2>9, <2>10 DEF RegionType, TypeOK
  <2>12. RegionInv'
    BY <2>2, <2>9, <2>10 DEF RegionInv, TypeOK
  <2> QED
    BY <1>2, <2>8, <2>11, <2>12 DEF AllocateChain, TypeOK
<1>3. CASE EnterUpdateChain(t)
  <2>1. upd[t] \in Calls
    BY <1>3, InCall DEF EnterUpdateChain
  <2> DEFINE c == IF upd[t].hook \in MappedHooks
                  THEN [upd[t] EXCEPT !.pc = "clear"] ELSE Idle
  <2>2. c \in Calls \cup {Idle} /\ c.pc # "allocate"
    BY <2>1 DEF Calls, Idle
  <2>3. upd' = [upd EXCEPT ![t] = c]
    BY <1>3 DEF EnterUpdateChain, Return
  <2> HIDE DEF c
  <2>4. upd' \in [Threads -> Calls \cup {Idle}] /\ PosInv'
    BY <2>2, <2>3, NextCall
  <2> QED
    BY <1>3, <2>4 DEF EnterUpdateChain, TypeOK, RegionInv
<1>4. CASE ClearIds(t)
  <2>1. upd[t] \in Calls
    BY <1>4, InCall DEF ClearIds
  <2> DEFINE c == [upd[t] EXCEPT !.pc = "nics", !.todo = Nics(upd[t].vec)]
  <2>2. Nics(upd[t].vec) \in SUBSET Ifindexes
    <3>1. upd[t].vec \in Seq(Pairs)
      BY <2>1 DEF Calls
    <3>2. \A k \in 1..Len(upd[t].vec) : upd[t].vec[k] \in Pairs
      BY <3>1
    <3> QED
      BY <3>2 DEF Nics, Pairs
  <2>3. c \in Calls \cup {Idle} /\ c.pc # "allocate"
    BY <2>1, <2>2 DEF Calls
  <2>4. upd' = [upd EXCEPT ![t] = c]
    BY <1>4 DEF ClearIds
  <2> HIDE DEF c
  <2>5. upd' \in [Threads -> Calls \cup {Idle}] /\ PosInv'
    BY <2>3, <2>4, NextCall
  <2>6. idHash' \in [MappedHooks -> [Keys -> (0..(U32-1)) \cup {Absent}]]
    BY <1>4 DEF ClearIds, TypeOK
  <2> QED
    BY <1>4, <2>5, <2>6 DEF ClearIds, TypeOK, RegionInv
<1>5. ASSUME NEW i \in Ifindexes, AssertStartIndex(t, i) PROVE Inv'
  BY <1>5, DieInv DEF AssertStartIndex
<1>6. ASSUME NEW i \in Ifindexes, SkipNic(t, i) PROVE Inv'
  <2>1. upd[t] \in Calls
    BY <1>6, InCall DEF SkipNic
  <2> DEFINE c == [upd[t] EXCEPT !.todo = @ \ {i}]
  <2>2. c \in Calls \cup {Idle} /\ c.pc # "allocate"
    BY <1>6, <2>1 DEF Calls, SkipNic
  <2>3. upd' = [upd EXCEPT ![t] = c]
    BY <1>6 DEF SkipNic
  <2> HIDE DEF c
  <2>4. upd' \in [Threads -> Calls \cup {Idle}] /\ PosInv'
    BY <2>2, <2>3, NextCall
  <2> QED
    BY <1>6, <2>4 DEF SkipNic, TypeOK, RegionInv
<1>7. ASSUME NEW i \in Ifindexes, EnterNic(t, i) PROVE Inv'
  <2>1. upd[t] \in Calls
    BY <1>7, InCall DEF EnterNic
  <2> DEFINE s == GetStartIndex(upd[t].hook, i)
             c == [upd[t] EXCEPT !.pc = "write", !.pos = 0, !.nic = i,
                                 !.todo = @ \ {i}, !.index = s]
  <2>2. s \in Int
    BY <2>1, ConstantsAssumption DEF Calls, GetStartIndex, TypeOK, Slots, Absent
  <2>3. c \in Calls \cup {Idle} /\ c.pc # "allocate"
    <3> HIDE DEF s
    <3> QED
      BY <2>1, <2>2 DEF Calls
  <2>4. upd' = [upd EXCEPT ![t] = c]
    BY <1>7 DEF EnterNic
  <2> HIDE DEF c
  <2>5. upd' \in [Threads -> Calls \cup {Idle}] /\ PosInv'
    BY <2>3, <2>4, NextCall
  <2> QED
    BY <1>7, <2>5 DEF EnterNic, TypeOK, RegionInv
<1>8. CASE WriteId(t)
  <2>1. upd[t] \in Calls
    BY <1>8, InCall DEF WriteId
  <2>9. upd[t].pc = "write"
    BY <1>8 DEF WriteId
  <2> DEFINE h == upd[t].hook
             key == <<upd[t].nic, NameAt(h, upd[t].vec, upd[t].pos)>>
  <2>2. \E c \in Calls \cup {Idle} : c.pc # "allocate" /\ upd' = [upd EXCEPT ![t] = c]
    <3>1. \/ upd' = [upd EXCEPT ![t].pos = @ + 1]
          \/ upd' = [upd EXCEPT ![t] = Idle]
          \/ upd' = [upd EXCEPT ![t].pos = @ + 1, ![t].index = @ + 1]
      BY <1>8 DEF WriteId, Return
    <3>2. /\ [upd[t] EXCEPT !.pos = @ + 1] \in Calls
          /\ [upd[t] EXCEPT !.pos = @ + 1].pc # "allocate"
      BY <2>9, <2>1 DEF Calls
    <3>3. /\ [upd[t] EXCEPT !.pos = @ + 1, !.index = @ + 1] \in Calls
          /\ [upd[t] EXCEPT !.pos = @ + 1, !.index = @ + 1].pc # "allocate"
      <4> DEFINE p == upd[t].pos + 1
                 x == upd[t].index + 1
      <4>1. p \in Nat /\ x \in Int
        BY <2>1 DEF Calls
      <4> HIDE DEF p, x
      <4>2. /\ [upd[t] EXCEPT !.pos = p, !.index = x] \in Calls
            /\ [upd[t] EXCEPT !.pos = p, !.index = x].pc # "allocate"
        BY <4>1, <2>9, <2>1 DEF Calls
      <4> QED
        BY <4>2 DEF p, x
    <3>4. Idle.pc # "allocate"
      BY DEF Idle
    <3> QED
      BY <3>1, <3>2, <3>3, <3>4
  <2>3. upd' \in [Threads -> Calls \cup {Idle}] /\ PosInv'
    BY <2>2, NextCall
  <2>4. upd[t].index % U32 \in 0..(U32-1)
    <3>1. upd[t].index \in Int /\ U32 \in Nat /\ U32 > 0
      BY <2>1, ConstantsAssumption DEF Calls
    <3> QED
      BY <3>1
  <2>5. idHash' = idHash \/ idHash' = [idHash EXCEPT ![h][key] = upd[t].index % U32]
    BY <1>8 DEF WriteId
  <2>6. idHash' \in [MappedHooks -> [Keys -> (0..(U32-1)) \cup {Absent}]]
    <3> DEFINE v == upd[t].index % U32
    <3>1. v \in (0..(U32-1)) \cup {Absent}
      BY <2>4
    <3>2. idHash' = idHash \/ idHash' = [idHash EXCEPT ![h][key] = v]
      BY <2>5
    <3>3. idHash \in [MappedHooks -> [Keys -> (0..(U32-1)) \cup {Absent}]]
      BY DEF TypeOK
    <3> HIDE DEF h, key, v
    <3>4. [idHash EXCEPT ![h][key] = v] \in [MappedHooks -> [Keys -> (0..(U32-1)) \cup {Absent}]]
      BY ONLY <3>1, <3>3, NestedExcept, Zenon
    <3> QED
      BY <3>2, <3>3, <3>4
  <2> QED
    BY <1>8, <2>3, <2>6 DEF WriteId, TypeOK, RegionInv
<1>9. CASE LeaveNic(t)
  <2>1. upd[t] \in Calls
    BY <1>9, InCall DEF LeaveNic
  <2> DEFINE c == [upd[t] EXCEPT !.pc = "nics"]
  <2>2. c \in Calls \cup {Idle} /\ c.pc # "allocate"
    BY <2>1 DEF Calls
  <2>3. upd' = [upd EXCEPT ![t] = c]
    BY <1>9 DEF LeaveNic
  <2> HIDE DEF c
  <2>4. upd' \in [Threads -> Calls \cup {Idle}] /\ PosInv'
    BY <2>2, <2>3, NextCall
  <2> QED
    BY <1>9, <2>4 DEF LeaveNic, TypeOK, RegionInv
<1>10. CASE ReturnUpdateChain(t)
  <2>1. Idle \in Calls \cup {Idle} /\ Idle.pc # "allocate"
    BY DEF Idle
  <2>2. upd' \in [Threads -> Calls \cup {Idle}] /\ PosInv'
    BY <1>10, <2>1, NextCall DEF ReturnUpdateChain, Return
  <2> QED
    BY <1>10, <2>2 DEF ReturnUpdateChain, TypeOK, RegionInv
<1>11. ASSUME NEW h \in Hooks, NEW n \in Names, NEW i \in Ifindexes,
              InsertProg(t, h, n, i)
       PROVE Inv'
  <2>1. progArray' \in [MappedHooks -> [Slots -> Names \cup {NoProg}]]
    <3> DEFINE x == idHash[h][<<i, n>>]
    <3>1. progArray' = progArray \/ progArray' = [progArray EXCEPT ![h][x] = n]
      BY <1>11 DEF InsertProg, InsertProgEffect
    <3>2. n \in Names \cup {NoProg}
      OBVIOUS
    <3>3. progArray \in [MappedHooks -> [Slots -> Names \cup {NoProg}]]
      BY DEF TypeOK
    <3> HIDE DEF x
    <3>4. [progArray EXCEPT ![h][x] = n] \in [MappedHooks -> [Slots -> Names \cup {NoProg}]]
      BY ONLY <3>2, <3>3, NestedExcept, Zenon
    <3> QED
      BY <3>1, <3>3, <3>4
  <2> QED
    BY <1>11, <2>1 DEF InsertProg, TypeOK, RegionInv, PosInv
<1> QED
  BY <1>1, <1>2, <1>3, <1>4, <1>5, <1>6, <1>7, <1>8, <1>9, <1>10, <1>11
     DEF UpdateChainStep

(* Every step of the system keeps the invariant.                           *)
LEMMA NextInv == Inv /\ [Next]_vars => Inv'
<1> SUFFICES ASSUME Inv, [Next]_vars PROVE Inv'
  OBVIOUS
<1>1. CASE Crash
  BY <1>1, DieInv DEF Crash
<1>2. CASE Cleanup
  <2>1. regions' = NoRegions
    BY <1>2 DEF Cleanup, NoRegions
  <2>2. TypeOK'
    BY <1>2, <2>1, NoRegionsSafe DEF Inv, TypeOK, Cleanup
  <2> QED
    BY <1>2, <2>1, <2>2, NoRegionsSafe DEF Inv, RegionInv, PosInv, Cleanup
<1>3. CASE Restart
  BY <1>3 DEF Restart, Inv, TypeOK, RegionInv, PosInv
<1>4. CASE UNCHANGED vars
  BY <1>4 DEF vars, Inv, TypeOK, RegionInv, PosInv
<1> QED
  BY <1>1, <1>2, <1>3, <1>4, StepInv DEF Next

(* Whatever the threads, crashes and restarts do, the state keeps its      *)
(* types.                                                                  *)
THEOREM TypeCorrect == Spec => []TypeOK
<1>1. Inv => TypeOK
  BY DEF Inv
<1> QED
  BY <1>1, InitInv, NextInv, PTL DEF Spec

(* allocateRegion never hands out overlapping or out-of-bounds regions,    *)
(* for any number of hooks, interfaces and threads.                        *)
THEOREM RegionSafety == Spec => []RegionsDisjoint
<1>1. Inv => RegionsDisjoint
  BY DEF Inv, RegionInv, RegionsOf, RegionsDisjoint
<1> QED
  BY <1>1, InitInv, NextInv, PTL DEF Spec

-----------------------------------------------------------------------------
(* One thread rebuilds chains, in a build where ASSERT aborts.  Only one   *)
(* interface of a hook has a region that begins below MAX_PER_NIC_PROGS,   *)
(* so only one is ever written, into a hash that is empty, and each of its *)
(* entries is larger than the ones before.                                 *)
Skipped(c) ==
  \A i \in c.todo : regions[c.hook][i] = Absent \/ regions[c.hook][i] >= MAX_PER_NIC_PROGS

CallInv(c) ==
  /\ c.pc # "idle" => Len(c.vec) <= MaxVec
  /\ c.pc \in {"clear", "nics", "write"} => c.hook \in MappedHooks
  /\ c.pc = "nics" => (\A k \in Keys : idHash[c.hook][k] = Absent) \/ Skipped(c)
  /\ c.pc = "write" =>
       /\ c.index \in Nat /\ c.index < MAX_CHAIN_PROGS + c.pos
       /\ \A k \in Keys : idHash[c.hook][k] < c.index
       /\ Skipped(c)

HashInv == HashInjective /\ \A t \in Threads : CallInv(upd[t])

(* Writing a slot past every one in the hash keeps the slots apart.        *)
LEMMA WriteKeepsInjective ==
  ASSUME NEW f \in [Keys -> (0..(U32-1)) \cup {Absent}], NEW key \in Keys, NEW v \in Nat,
         \A k \in Keys : f[k] < v,
         \A k, l \in Keys : f[k] # Absent /\ f[k] = f[l] => k = l
  PROVE  LET g == [f EXCEPT ![key] = v]
         IN  /\ \A k \in Keys : g[k] < v + 1
             /\ \A k, l \in Keys : g[k] # Absent /\ g[k] = g[l] => k = l
<1> DEFINE g == [f EXCEPT ![key] = v]
<1>1. \A k \in Keys : g[k] = IF k = key THEN v ELSE f[k]
  OBVIOUS
<1>2. \A k \in Keys : f[k] \in Int
  BY ConstantsAssumption DEF Absent
<1> HIDE DEF g
<1>3. \A k \in Keys : g[k] < v + 1
  BY <1>1, <1>2
<1>4. \A k, l \in Keys : g[k] # Absent /\ g[k] = g[l] => k = l
  BY <1>1, <1>2
<1> QED
  BY <1>3, <1>4 DEF g

(* The interface that is entered is the only one below MAX_PER_NIC_PROGS.  *)
LEMMA OnlyFirstRegion ==
  ASSUME Inv, NEW h \in Hooks, NEW i \in Ifindexes, NEW j \in Ifindexes, i # j,
         regions[h][i] # Absent, regions[h][i] < MAX_PER_NIC_PROGS
  PROVE  regions[h][j] = Absent \/ regions[h][j] >= MAX_PER_NIC_PROGS
<1>1. RegionsOf(regions[h])
  BY DEF Inv, RegionInv
<1>2. regions[h][i] \in Slots /\ regions[h][j] \in Slots \cup {Absent}
  BY DEF Inv, TypeOK
<1> QED
  BY <1>1, <1>2, ConstantsAssumption DEF RegionsOf, Slots, Absent

(* Every step keeps the invariant of a lone thread.                        *)
LEMMA HashStep ==
  ASSUME \A t, u \in Threads : t = u, ~NDEBUG, Inv, HashInv, [Next]_vars
  PROVE  HashInv'
<1> USE DEF HashInv
<1>0. ASSUME NEW t \in Threads, NEW c, upd' = [upd EXCEPT ![t] = c],
             idHash' = idHash, CallInv(c)'
      PROVE  HashInv'
  <2>1. \A u \in Threads : upd'[u] = c
    BY <1>0 DEF Inv, TypeOK
  <2>2. \A u \in Threads : CallInv(upd[u])'
    BY <1>0, <2>1
  <2> QED
    BY <1>0, <2>2 DEF HashInjective
<1>1. ASSUME NEW t \in Threads, NEW h \in Hooks, NEW vec \in Vecs, RebuildChain(t, h, vec)
      PROVE  HashInv'
  <2>c. PICK c : c = [pc |-> "allocate", hook |-> h, vec |-> vec, pos |-> 1,
                     todo |-> {}, nic |-> vec[1][2], index |-> 0]
    OBVIOUS
  <2>1. Len(vec) <= MaxVec
    BY VecType
  <2>2. CallInv(c)'
    BY <2>c, <2>1 DEF CallInv
  <2>3. upd' = [upd EXCEPT ![t] = c] /\ idHash' = idHash
    BY <2>c, <1>1 DEF RebuildChain
  <2> QED
    BY <1>0, <2>2, <2>3
<1>2. ASSUME NEW t \in Threads, AllocateChain(t)
      PROVE  HashInv'
  <2>c. PICK c : c = [upd[t] EXCEPT !.pos = @ + 1]
    OBVIOUS
  <2>1. upd[t] \in Calls /\ upd[t].pc = "allocate"
    BY <1>2, InCall DEF AllocateChain, Inv
  <2>2. c.pc = "allocate" /\ c.vec = upd[t].vec
    BY <2>c, <2>1 DEF Calls
  <2>3. Len(c.vec) <= MaxVec
    BY <2>1, <2>2 DEF CallInv
  <2>4. upd' = [upd EXCEPT ![t] = c] /\ idHash' = idHash
    BY <2>c, <1>2 DEF AllocateChain
  <2>5. CallInv(c)'
    BY <2>2, <2>3 DEF CallInv
  <2> QED
    BY <1>0, <2>4, <2>5
<1>3. ASSUME NEW t \in Threads, EnterUpdateChain(t)
      PROVE  HashInv'
  <2>1. upd[t] \in Calls /\ Len(upd[t].vec) <= MaxVec
    BY <1>3, InCall DEF EnterUpdateChain, Inv, CallInv
  <2>2. CASE upd[t].hook \in MappedHooks
    <3>c. PICK c : c = [upd[t] EXCEPT !.pc = "clear"]
      OBVIOUS
    <3>1. c.pc = "clear" /\ c.vec = upd[t].vec /\ c.hook = upd[t].hook
      BY <3>c, <2>1 DEF Calls
    <3>2. upd' = [upd EXCEPT ![t] = c] /\ idHash' = idHash
      BY <3>c, <1>3, <2>2 DEF EnterUpdateChain
    <3>3. CallInv(c)'
      BY <2>1, <2>2, <3>1 DEF CallInv
    <3> QED
      BY <1>0, <3>2, <3>3
  <2>3. CASE upd[t].hook \notin MappedHooks
    <3>1. upd' = [upd EXCEPT ![t] = Idle] /\ idHash' = idHash
      BY <1>3, <2>3 DEF EnterUpdateChain, Return
    <3>2. CallInv(Idle)'
      BY DEF CallInv, Idle
    <3> QED
      BY <1>0, <3>1, <3>2
  <2> QED
    BY <2>2, <2>3
<1>4. ASSUME NEW t \in Threads, ClearIds(t)
      PROVE  HashInv'
  <2>c. PICK c : c = [upd[t] EXCEPT !.pc = "nics", !.todo = Nics(upd[t].vec)]
    OBVIOUS
  <2> DEFINE none == [k \in Keys |-> Absent]
  <2>1. upd[t] \in Calls /\ Len(upd[t].vec) <= MaxVec /\ upd[t].hook \in MappedHooks
    BY <1>4, InCall DEF ClearIds, Inv, CallInv
  <2>2. c.pc = "nics" /\ c.vec = upd[t].vec /\ c.hook = upd[t].hook
    BY <2>c, <2>1 DEF Calls
  <2>3. upd' = [upd EXCEPT ![t] = c] /\ idHash' = [idHash EXCEPT ![upd[t].hook] = none]
    BY <2>c, <1>4 DEF ClearIds
  <2>4. \A h \in MappedHooks : idHash'[h] = IF h = upd[t].hook THEN none ELSE idHash[h]
    BY <2>3 DEF Inv, TypeOK
  <2>5. \A k \in Keys : none[k] = Absent
    OBVIOUS
  <2> HIDE DEF none
  <2>6. HashInjective'
    BY <2>4, <2>5 DEF HashInjective
  <2>7. CallInv(c)'
    BY <2>1, <2>2, <2>4, <2>5 DEF CallInv
  <2>8. \A u \in Threads : upd'[u] = c
    BY <2>3 DEF Inv, TypeOK
  <2>9. \A u \in Threads : CallInv(upd[u])'
    BY <2>7, <2>8
  <2> QED
    BY <2>6, <2>9
<1>5. ASSUME Die
      PROVE  HashInv'
  <2>1. /\ idHash' = idHash
        /\ \A u \in Threads : upd'[u] = Idle
    BY <1>5 DEF Die
  <2>2. CallInv(Idle)'
    BY DEF CallInv, Idle
  <2>3. \A u \in Threads : CallInv(upd[u])'
    BY <2>1, <2>2
  <2> QED
    BY <2>1, <2>3 DEF HashInjective
<1>6. ASSUME NEW t \in Threads, NEW i \in Ifindexes, SkipNic(t, i)
      PROVE  HashInv'
  <2>c. PICK c : c = [upd[t] EXCEPT !.todo = @ \ {i}]
    OBVIOUS
  <2>1. upd[t] \in Calls /\ upd[t].pc = "nics" /\ CallInv(upd[t])
    BY <1>6, InCall DEF SkipNic, Inv
  <2>2. /\ c.pc = "nics" /\ c.vec = upd[t].vec /\ c.hook = upd[t].hook
        /\ c.todo = upd[t].todo \ {i}
    BY <2>c, <2>1 DEF Calls
  <2>3. upd' = [upd EXCEPT ![t] = c] /\ UNCHANGED <<idHash, regions>>
    BY <2>c, <1>6 DEF SkipNic
  <2>4. CallInv(c)'
    BY <2>1, <2>2, <2>3 DEF CallInv, Skipped
  <2> QED
    BY <1>0, <2>3, <2>4
<1>7. ASSUME NEW t \in Threads, NEW i \in Ifindexes, EnterNic(t, i)
      PROVE  HashInv'
  <2> DEFINE h == upd[t].hook
  <2>c. PICK c : c = [upd[t] EXCEPT !.pc = "write", !.pos = 0, !.nic = i,
                     !.todo = @ \ {i}, !.index = regions[upd[t].hook][i]]
    OBVIOUS
  <2>1. upd[t] \in Calls /\ upd[t].pc = "nics" /\ CallInv(upd[t]) /\ i \in upd[t].todo
    BY <1>7, InCall DEF EnterNic, Inv
  <2>2. h \in Hooks /\ h \in MappedHooks /\ upd[t].todo \subseteq Ifindexes
    BY <2>1 DEF CallInv, Calls
  <2>3. regions[h][i] # Absent /\ regions[h][i] < MAX_PER_NIC_PROGS
    BY <1>7 DEF EnterNic, GetStartIndex
  <2>4. regions[h][i] \in Slots
    BY <2>2, <2>3 DEF Inv, TypeOK
  <2>5. regions[h][i] \in Nat /\ regions[h][i] < MAX_CHAIN_PROGS + 0
    BY <2>4, ConstantsAssumption DEF Slots
  <2>6. /\ c.pc = "write" /\ c.vec = upd[t].vec /\ c.hook = h /\ c.pos = 0
        /\ c.todo = upd[t].todo \ {i} /\ c.index = regions[h][i]
    BY <2>c, <2>1 DEF Calls
  <2>7. upd' = [upd EXCEPT ![t] = c] /\ UNCHANGED <<idHash, regions>>
    BY <2>c, <1>7 DEF EnterNic, GetStartIndex
  <2> HIDE DEF h
  <2>8. \A k \in Keys : idHash[h][k] = Absent
    <3>1. ~(regions[h][i] >= MAX_PER_NIC_PROGS)
      BY <2>3, <2>5, ConstantsAssumption
    <3> QED
      BY <2>1, <2>3, <3>1 DEF CallInv, Skipped, h
  <2>9. \A j \in c.todo : regions[h][j] = Absent \/ regions[h][j] >= MAX_PER_NIC_PROGS
    BY <2>2, <2>3, <2>6, OnlyFirstRegion
  <2>10. \A k \in Keys : idHash[h][k] < c.index
    BY <2>5, <2>6, <2>8 DEF Absent
  <2>11. Len(upd[t].vec) <= MaxVec
    BY <2>1 DEF CallInv
  <2>12. CallInv(c)'
    BY <2>2, <2>5, <2>6, <2>7, <2>9, <2>10, <2>11 DEF CallInv, Skipped
  <2> QED
    BY <1>0, <2>7, <2>12
<1>8. ASSUME NEW t \in Threads, WriteId(t)
      PROVE  HashInv'
  <2> DEFINE h == upd[t].hook
             key == <<upd[t].nic, NameAt(h, upd[t].vec, upd[t].pos)>>
  <2>1. /\ upd[t] \in Calls /\ upd[t].pc = "write" /\ CallInv(upd[t])
        /\ upd[t].pos <= Len(upd[t].vec) /\ UNCHANGED regions
    BY <1>8, InCall DEF WriteId, Inv
  <2>2. /\ h \in MappedHooks /\ upd[t].index \in Nat /\ upd[t].pos \in Nat
        /\ upd[t].index < MAX_CHAIN_PROGS + upd[t].pos
        /\ Len(upd[t].vec) <= MaxVec /\ Skipped(upd[t])
        /\ \A k \in Keys : idHash[h][k] < upd[t].index
    BY <2>1 DEF CallInv, Calls
  <2>a. Len(upd[t].vec) \in Nat
    BY <2>1 DEF Calls
  <2>3. CASE upd' = [upd EXCEPT ![t].pos = @ + 1] /\ UNCHANGED idHash
    <3>c. PICK c : c = [upd[t] EXCEPT !.pos = @ + 1]
      OBVIOUS
    <3>1. /\ c.pc = "write" /\ c.vec = upd[t].vec /\ c.hook = h /\ c.pos = upd[t].pos + 1
          /\ c.todo = upd[t].todo /\ c.index = upd[t].index
      BY <3>c, <2>1 DEF Calls
    <3>2. upd' = [upd EXCEPT ![t] = c] /\ UNCHANGED idHash
      BY <3>c, <2>3
    <3> HIDE DEF h
    <3>3. c.index < MAX_CHAIN_PROGS + c.pos
      BY <2>2, <3>1, ConstantsAssumption
    <3>4. Skipped(c)'
      BY <2>1, <2>2, <3>1 DEF Skipped, h
    <3>5. CallInv(c)'
      BY <2>2, <3>1, <3>2, <3>3, <3>4 DEF CallInv
    <3> QED
      BY <1>0, <3>2, <3>5
  <2>4. CASE upd' = [upd EXCEPT ![t] = Idle] /\ UNCHANGED idHash
    <3>1. CallInv(Idle)'
      BY DEF CallInv, Idle
    <3> QED
      BY <1>0, <2>4, <3>1
  <2>5. CASE /\ upd' = [upd EXCEPT ![t].pos = @ + 1, ![t].index = @ + 1]
             /\ NameAt(h, upd[t].vec, upd[t].pos) \in Registered[h]
             /\ idHash' = [idHash EXCEPT ![h][key] = upd[t].index % U32]
    <3>c. PICK c : c = [upd[t] EXCEPT !.pos = upd[t].pos + 1, !.index = upd[t].index + 1]
      OBVIOUS
    <3> DEFINE v == upd[t].index
    <3>1. /\ c.pc = "write" /\ c.vec = upd[t].vec /\ c.hook = h /\ c.pos = upd[t].pos + 1
          /\ c.todo = upd[t].todo /\ c.index = v + 1
      BY <3>c, <2>1 DEF Calls
    <3>2. upd' = [upd EXCEPT ![t] = c]
      BY <3>c, <2>5
    <3>3. v \in Nat /\ v < U32 /\ v % U32 = v
      BY <2>1, <2>2, <2>a, ConstantsAssumption, SMTT(30)
    <3>4. key \in Keys
      <4>1. upd[t].nic \in Ifindexes
        BY <2>1 DEF Calls
      <4>2. Registered[h] \subseteq Names
        BY <2>2, ConstantsAssumption
      <4> QED
        BY <2>5, <4>1, <4>2 DEF Keys
    <3>5. idHash' = [idHash EXCEPT ![h] = [idHash[h] EXCEPT ![key] = v]]
      BY <2>5, <3>3
    <3>6. idHash[h] \in [Keys -> (0..(U32-1)) \cup {Absent}]
      BY <2>2 DEF Inv, TypeOK
    <3> HIDE DEF h, v, key
    <3>7. \A g \in MappedHooks :
            idHash'[g] = IF g = h THEN [idHash[h] EXCEPT ![key] = v] ELSE idHash[g]
      BY <3>5 DEF Inv, TypeOK
    <3>8. /\ \A k \in Keys : idHash'[h][k] < v + 1
          /\ \A k, l \in Keys : idHash'[h][k] # Absent /\ idHash'[h][k] = idHash'[h][l] => k = l
      <4>1. \A k \in Keys : idHash[h][k] < v
        BY <2>2 DEF v
      <4>2. \A k, l \in Keys : idHash[h][k] # Absent /\ idHash[h][k] = idHash[h][l] => k = l
        BY <2>2 DEF HashInjective
      <4> QED
        BY <2>2, <3>3, <3>4, <3>6, <3>7, <4>1, <4>2, WriteKeepsInjective, SMTT(30)
    <3>9. HashInjective'
      BY <3>7, <3>8 DEF HashInjective
    <3>10. Skipped(c)'
      BY <2>1, <2>2, <3>1 DEF Skipped, h
    <3>11. c.index \in Nat /\ c.index < MAX_CHAIN_PROGS + c.pos
      <4>1. upd[t].pos \in Nat /\ v < MAX_CHAIN_PROGS + upd[t].pos /\ MAX_CHAIN_PROGS \in Nat
        BY <2>2, ConstantsAssumption DEF v
      <4> QED
        BY <3>1, <3>3, <4>1
    <3>12. CallInv(c)'
      BY <2>2, <3>1, <3>8, <3>10, <3>11 DEF CallInv
    <3>13. \A u \in Threads : upd'[u] = c
      BY <3>2 DEF Inv, TypeOK
    <3>14. \A u \in Threads : CallInv(upd[u])'
      BY <3>12, <3>13
    <3> QED
      BY <3>9, <3>14
  <2> QED
    BY <1>8, <2>3, <2>4, <2>5 DEF WriteId, Return
<1>9. ASSUME NEW t \in Threads, LeaveNic(t)
      PROVE  HashInv'
  <2>c. PICK c : c = [upd[t] EXCEPT !.pc = "nics"]
    OBVIOUS
  <2>1. upd[t] \in Calls /\ upd[t].pc = "write" /\ CallInv(upd[t])
    BY <1>9, InCall DEF LeaveNic, Inv
  <2>2. /\ c.pc = "nics" /\ c.vec = upd[t].vec /\ c.hook = upd[t].hook /\ c.todo = upd[t].todo
    BY <2>c, <2>1 DEF Calls
  <2>3. upd' = [upd EXCEPT ![t] = c] /\ UNCHANGED <<idHash, regions>>
    BY <2>c, <1>9 DEF LeaveNic
  <2>4. CallInv(c)'
    BY <2>1, <2>2, <2>3 DEF CallInv, Skipped
  <2> QED
    BY <1>0, <2>3, <2>4
<1>10. ASSUME NEW t \in Threads, ReturnUpdateChain(t)
       PROVE  HashInv'
  <2>1. CallInv(Idle)'
    BY DEF CallInv, Idle
  <2> QED
    BY <1>0, <1>10, <2>1 DEF ReturnUpdateChain, Return
<1>11. ASSUME UNCHANGED <<idHash, upd, regions>>
       PROVE  HashInv'
  BY <1>11 DEF HashInjective, CallInv, Skipped
<1>12. CASE Cleanup
  <2>1. \A u \in Threads : upd[u] = Idle /\ upd'[u] = Idle
    BY <1>12 DEF Cleanup
  <2>2. CallInv(Idle)'
    BY DEF CallInv, Idle
  <2>3. \A u \in Threads : CallInv(upd[u])'
    BY <2>1, <2>2
  <2>4. HashInjective'
    BY <1>12 DEF Cleanup, HashInjective
  <2> QED
    BY <2>3, <2>4
<1> QED
  <2> HIDE DEF HashInv
  <2> QED
    BY <1>1, <1>2, <1>3, <1>4, <1>5, <1>6, <1>7, <1>8, <1>9, <1>10, <1>11, <1>12
       DEF Next, UpdateChainStep, AssertStartIndex, InsertProg, Crash, Restart, vars

(* Two programs of a hook never have the same slot of prog_array, so that  *)
(* loading one never replaces the other: at every step of a rebuild, and   *)
(* after a crash in the middle of one (pinned_prog_map.cc 241-285).        *)
THEOREM SlotsDistinct ==
  ASSUME \A t, u \in Threads : t = u, ~NDEBUG
  PROVE  Spec => []HashInjective
<1>1. Init => HashInv
  BY DEF Init, HashInv, HashInjective, CallInv, Idle
<1>2. Inv /\ HashInv /\ [Next]_vars => HashInv'
  BY HashStep
<1>3. HashInv => HashInjective
  BY DEF HashInv
<1> QED
  BY <1>1, <1>2, <1>3, InitInv, NextInv, PTL DEF Spec

-----------------------------------------------------------------------------
(* Interfaces that fit in prog_array.  Regions are handed out one after    *)
(* the other, so as long as the array has a region for every interface no  *)
(* request fails, whoever makes it.                                        *)
NicsFit == Cardinality(Ifindexes) * MAX_PER_NIC_PROGS <= MAX_CHAIN_PROGS

Allocated(regs) == {i \in Ifindexes : regs[i] # Absent}

FitsOf(regs) == NextStart(regs) <= Cardinality(Allocated(regs)) * MAX_PER_NIC_PROGS

(* What a call has allocated so far.                                       *)
HasRegions(c) ==
  /\ c.pc = "allocate" =>
       \A k \in 1..Len(c.vec) : k < c.pos => regions[c.hook][c.vec[k][2]] # Absent
  /\ c.pc \in {"clear", "nics", "write"} =>
       \A i \in Nics(c.vec) : regions[c.hook][i] # Absent
  /\ c.pc \in {"nics", "write"} => c.todo \subseteq Nics(c.vec)

FitInv ==
  /\ \A h \in Hooks : FitsOf(regions[h])
  /\ \A t \in Threads : HasRegions(upd[t])

(* One more region, and the ones there are.                                *)
LEMMA OneMore ==
  ASSUME NEW a \in Nat, NEW n \in Nat, NEW m \in Nat
  PROVE  /\ (n + 1) * a = n * a + a
         /\ n < m => n * a + a <= m * a
<1>1. (n + 1) * a = n * a + a
  OBVIOUS
<1>2. ASSUME n < m PROVE n * a + a <= m * a
  <2>1. PICK d \in Nat : m = (n + 1) + d
    BY <1>2
  <2>2. m * a = (n + 1) * a + d * a
    BY <2>1
  <2>3. d * a \in Nat
    OBVIOUS
  <2> QED BY <1>1, <2>2, <2>3
<1> QED BY <1>1, <1>2

(* allocateRegion finds room for an interface that has none.               *)
LEMMA AllocateRegionFits ==
  ASSUME NicsFit, NEW regs \in RegionType, LastRegionOf(regs), FitsOf(regs),
         NEW i \in Ifindexes
  PROVE  /\ AllocateRegion(regs, i)[i] # Absent
         /\ \A j \in Ifindexes : regs[j] # Absent => AllocateRegion(regs, i)[j] # Absent
         /\ FitsOf(AllocateRegion(regs, i))
<1> DEFINE n == NextStart(regs)
           new == AllocateRegion(regs, i)
           a == MAX_PER_NIC_PROGS
           had == Allocated(regs)
<1>1. a \in Nat /\ MAX_CHAIN_PROGS \in Nat /\ IsFiniteSet(Ifindexes)
  BY ConstantsAssumption
<1>2. n \in Nat /\ \A j \in Ifindexes : regs[j] # Absent => regs[j] + a <= n
  BY NextStartPastRegions
<1>3. CASE regs[i] # Absent
  BY <1>3 DEF AllocateRegion
<1>4. CASE regs[i] = Absent
  <2>1. had \subseteq Ifindexes /\ i \notin had
    BY <1>4 DEF Allocated
  <2>2. IsFiniteSet(had) /\ Cardinality(had) \in Nat /\ Cardinality(Ifindexes) \in Nat
    BY <1>1, <2>1, FS_Subset, FS_CardinalityType
  <2>3. IsFiniteSet(had \cup {i}) /\ Cardinality(had \cup {i}) = Cardinality(had) + 1
    BY <2>1, <2>2, FS_AddElement
  <2>4. Cardinality(had \cup {i}) <= Cardinality(Ifindexes)
    <3>1. had \cup {i} \in SUBSET Ifindexes
      BY <2>1
    <3> QED BY <1>1, <3>1, FS_Subset
  <2>5. Cardinality(had) < Cardinality(Ifindexes)
    BY <2>2, <2>3, <2>4
  <2>6. /\ Cardinality(had) * a + a <= Cardinality(Ifindexes) * a
        /\ (Cardinality(had) + 1) * a = Cardinality(had) * a + a
    BY <1>1, <2>2, <2>5, OneMore
  <2>7. n <= Cardinality(had) * a
    BY DEF FitsOf
  <2>8. n + a <= MAX_CHAIN_PROGS
    <3>1. Cardinality(had) * a \in Nat /\ Cardinality(Ifindexes) * a \in Nat
      BY <1>1, <2>2
    <3> HIDE DEF n, a, had
    <3>2. Cardinality(Ifindexes) * a <= MAX_CHAIN_PROGS
      BY DEF NicsFit, a
    <3> QED BY <1>1, <1>2, <2>6, <2>7, <3>1, <3>2
  <2>9. new = [regs EXCEPT ![i] = n]
    BY <1>1, <1>2, <1>4, <2>8 DEF AllocateRegion
  <2>10. /\ \A j \in Ifindexes : new[j] = IF j = i THEN n ELSE regs[j]
         /\ n # Absent
    BY <1>2, <2>9 DEF RegionType, Absent
  <2> HIDE DEF n, new, had
  <2>11. Allocated(new) = had \cup {i}
    BY <2>10 DEF Allocated, had
  <2>12. NextStart(new) = n + a
    <3>1. n \in Starts(new) /\ \A r \in Starts(new) : r <= n /\ r \in Nat
      <4>1. n \in Starts(new)
        BY <2>10 DEF Starts
      <4>2. ASSUME NEW j \in Ifindexes, new[j] # Absent PROVE new[j] <= n /\ new[j] \in Nat
        BY <1>1, <1>2, <2>10, <4>2 DEF RegionType, Slots
      <4> QED BY <4>1, <4>2 DEF Starts
    <3> DEFINE m == CHOOSE s \in Starts(new) : \A r \in Starts(new) : r <= s
    <3>2. m \in Starts(new) /\ \A r \in Starts(new) : r <= m
      BY <3>1
    <3>3. m = n
      <4> HIDE DEF m
      <4> QED BY <1>2, <3>1, <3>2
    <3> QED BY <3>1, <3>3 DEF NextStart
  <2>13. FitsOf(new)
    <3>1. Cardinality(Allocated(new)) * a = Cardinality(had) * a + a
      BY <2>3, <2>6, <2>11
    <3>2. Cardinality(had) * a \in Nat
      BY <1>1, <2>2
    <3> HIDE DEF a
    <3>3. n + a <= Cardinality(Allocated(new)) * a
      BY <1>1, <1>2, <2>7, <3>1, <3>2
    <3> QED BY <2>12, <3>3 DEF FitsOf, a
  <2> QED BY <2>10, <2>13 DEF new
<1> QED BY <1>3, <1>4

(* A process starts without regions.                                       *)
LEMMA NoRegionsFit ==
  ASSUME NEW regs, \A i \in Ifindexes : regs[i] = Absent
  PROVE  FitsOf(regs)
<1>1. Starts(regs) = {} /\ Allocated(regs) = {}
  BY DEF Starts, Allocated
<1>2. Cardinality(Allocated(regs)) = 0 /\ NextStart(regs) = 0
  BY <1>1, FS_EmptySet DEF NextStart
<1>3. 0 * MAX_PER_NIC_PROGS = 0
  BY ConstantsAssumption
<1> QED BY <1>2, <1>3 DEF FitsOf

(* A region, once handed out, stays: what other calls have is still there. *)
LEMMA RegionsStay ==
  ASSUME Inv, FitInv, NEW t \in Threads, NEW c, upd' = [upd EXCEPT ![t] = c],
         \A h \in Hooks : FitsOf(regions'[h]),
         \A h \in Hooks, i \in Ifindexes : regions[h][i] # Absent => regions'[h][i] # Absent,
         HasRegions(c)'
  PROVE  FitInv'
<1>1. ASSUME NEW u \in Threads PROVE HasRegions(upd[u])'
  <2>1. CASE u = t
    <3>1. upd'[u] = c
      BY <2>1 DEF Inv, TypeOK
    <3> QED BY <3>1
  <2>2. CASE u # t
    <3>1. upd'[u] = upd[u] /\ upd[u] \in Calls \cup {Idle}
      BY <2>2 DEF Inv, TypeOK
    <3>2. CASE upd[u] = Idle
      BY <3>1, <3>2 DEF HasRegions, Idle
    <3>3. CASE upd[u] \in Calls
      <4>1. /\ upd[u].hook \in Hooks
            /\ \A k \in 1..Len(upd[u].vec) : upd[u].vec[k][2] \in Ifindexes
        BY <3>3 DEF Calls, Pairs
      <4>2. HasRegions(upd[u])
        BY DEF FitInv
      <4>3. PICK old : old = upd[u]
        OBVIOUS
      <4>4. \A k \in 1..Len(old.vec) : regions[old.hook][old.vec[k][2]] # Absent =>
                                         regions'[old.hook][old.vec[k][2]] # Absent
        BY <4>1, <4>3
      <4>5. \A i \in Nics(old.vec) : regions[old.hook][i] # Absent =>
                                         regions'[old.hook][i] # Absent
        BY <4>1, <4>3 DEF Nics
      <4>6. HasRegions(old)
        BY <4>2, <4>3
      <4>7. HasRegions(old)'
        BY <4>4, <4>5, <4>6 DEF HasRegions
      <4> QED BY <3>1, <4>3, <4>7
    <3> QED BY <3>1, <3>2, <3>3
  <2> QED BY <2>1, <2>2
<1> QED BY <1>1 DEF FitInv

(* Every step of the chain, its crashes included.                          *)
LEMMA FitStep ==
  ASSUME NicsFit, Inv, FitInv, [Next]_vars
  PROVE  FitInv'
<1>0. ASSUME NEW t \in Threads, NEW c, upd' = [upd EXCEPT ![t] = c], regions' = regions,
             HasRegions(c)
      PROVE  FitInv'
  <2>1. HasRegions(c)'
    BY <1>0 DEF HasRegions
  <2> QED BY <1>0, <2>1, RegionsStay DEF FitInv
<1>i. HasRegions(Idle)
  BY DEF HasRegions, Idle
<1>1. ASSUME NEW t \in Threads, NEW h \in Hooks, NEW vec \in Vecs, RebuildChain(t, h, vec)
      PROVE  FitInv'
  <2>c. PICK c : c = [pc |-> "allocate", hook |-> h, vec |-> vec, pos |-> 1,
                      todo |-> {}, nic |-> vec[1][2], index |-> 0]
    OBVIOUS
  <2>1. HasRegions(c)
    BY <2>c DEF HasRegions
  <2> QED BY <1>0, <1>1, <2>c, <2>1 DEF RebuildChain
<1>2. ASSUME NEW t \in Threads, AllocateChain(t)
      PROVE  FitInv'
  <2>1. upd[t] \in Calls /\ upd[t].pc = "allocate" /\ HasRegions(upd[t])
    BY <1>2, InCall DEF AllocateChain, Inv, FitInv
  <2>c. PICK c : c = [upd[t] EXCEPT !.pos = @ + 1]
    OBVIOUS
  <2>2. PICK h, pos, vec : h = upd[t].hook /\ pos = upd[t].pos /\ vec = upd[t].vec
    OBVIOUS
  <2>3. /\ h \in Hooks /\ vec \in Seq(Pairs) /\ pos \in 1..Len(vec)
        /\ c.pc = "allocate" /\ c.hook = h /\ c.vec = vec /\ c.pos = pos + 1
    BY <1>2, <2>c, <2>1, <2>2 DEF Calls, AllocateChain, Inv, PosInv
  <2>4. \A k \in 1..Len(vec) : vec[k][2] \in Ifindexes
    BY <2>3 DEF Pairs
  <2>5. PICK i \in Ifindexes : i = vec[pos][2]
    BY <2>3, <2>4
  <2>6. /\ AllocateRegion(regions[h], i)[i] # Absent
        /\ \A j \in Ifindexes : regions[h][j] # Absent => AllocateRegion(regions[h], i)[j] # Absent
        /\ FitsOf(AllocateRegion(regions[h], i))
    <3>1. regions[h] \in RegionType /\ LastRegionOf(regions[h]) /\ FitsOf(regions[h])
      BY <2>3 DEF Inv, TypeOK, RegionInv, RegionType, FitInv
    <3> QED BY <3>1, AllocateRegionFits
  <2>7. /\ \A g \in Hooks :
             regions'[g] = IF g = h THEN AllocateRegion(regions[h], i) ELSE regions[g]
        /\ upd' = [upd EXCEPT ![t] = c]
    BY <1>2, <2>c, <2>2, <2>3, <2>5 DEF AllocateChain, Inv, TypeOK
  <2>8. /\ \A g \in Hooks : FitsOf(regions'[g])
        /\ \A g \in Hooks, j \in Ifindexes : regions[g][j] # Absent => regions'[g][j] # Absent
    BY <2>6, <2>7 DEF FitInv
  <2>9. HasRegions(c)'
    <3>1. ASSUME NEW k \in 1..Len(vec), k < pos + 1 PROVE regions'[h][vec[k][2]] # Absent
      <4>1. CASE k = pos
        BY <2>3, <2>5, <2>6, <2>7, <4>1
      <4>2. CASE k < pos
        BY <2>1, <2>2, <2>3, <2>4, <2>8, <4>2 DEF HasRegions
      <4> QED BY <2>3, <3>1, <4>1, <4>2
    <3> QED BY <2>3, <3>1 DEF HasRegions
  <2> QED BY <2>7, <2>8, <2>9, RegionsStay
<1>3. ASSUME NEW t \in Threads, EnterUpdateChain(t)
      PROVE  FitInv'
  <2>1. upd[t] \in Calls /\ upd[t].pc = "allocate" /\ HasRegions(upd[t])
    BY <1>3, InCall DEF EnterUpdateChain, Inv, FitInv
  <2>c. PICK c : c = [upd[t] EXCEPT !.pc = "clear"]
    OBVIOUS
  <2>2. /\ c.pc = "clear" /\ c.hook = upd[t].hook /\ c.vec = upd[t].vec
        /\ Len(upd[t].vec) \in Nat /\ upd[t].pos \in Nat /\ upd[t].pos > Len(upd[t].vec)
    BY <1>3, <2>c, <2>1 DEF Calls, EnterUpdateChain
  <2>3. HasRegions(c)
    BY <2>1, <2>2 DEF HasRegions, Nics
  <2>4. CASE upd[t].hook \in MappedHooks
    BY <1>0, <1>3, <2>c, <2>3, <2>4 DEF EnterUpdateChain
  <2>5. CASE upd[t].hook \notin MappedHooks
    BY <1>0, <1>i, <1>3, <2>5 DEF EnterUpdateChain, Return
  <2> QED BY <2>4, <2>5
<1>4. ASSUME NEW t \in Threads, ClearIds(t)
      PROVE  FitInv'
  <2>1. upd[t] \in Calls /\ upd[t].pc = "clear" /\ HasRegions(upd[t])
    BY <1>4, InCall DEF ClearIds, Inv, FitInv
  <2>c. PICK c : c = [upd[t] EXCEPT !.pc = "nics", !.todo = Nics(upd[t].vec)]
    OBVIOUS
  <2>2. /\ c.pc = "nics" /\ c.hook = upd[t].hook /\ c.vec = upd[t].vec
        /\ c.todo = Nics(upd[t].vec)
    BY <2>c, <2>1 DEF Calls
  <2>3. HasRegions(c)
    BY <2>1, <2>2 DEF HasRegions
  <2>4. upd' = [upd EXCEPT ![t] = c]
    BY <1>4, <2>c DEF ClearIds, Inv, TypeOK
  <2> QED BY <1>0, <1>4, <2>3, <2>4 DEF ClearIds
<1>5. ASSUME Die PROVE FitInv'
  <2>1. \A h \in Hooks : \A i \in Ifindexes : regions'[h][i] = Absent
    BY <1>5 DEF Die
  <2>2. \A h \in Hooks : FitsOf(regions'[h])
    BY <2>1, NoRegionsFit
  <2>3. \A t \in Threads : upd'[t] = Idle
    BY <1>5 DEF Die
  <2>4. \A t \in Threads : HasRegions(upd[t])'
    BY <2>3 DEF HasRegions, Idle
  <2> QED BY <2>2, <2>4 DEF FitInv
<1>6. ASSUME NEW t \in Threads, NEW i \in Ifindexes, SkipNic(t, i) \/ EnterNic(t, i)
      PROVE  FitInv'
  <2>1. upd[t] \in Calls /\ upd[t].pc = "nics" /\ HasRegions(upd[t])
    BY <1>6, InCall DEF SkipNic, EnterNic, Inv, FitInv
  <2>c. PICK c : upd' = [upd EXCEPT ![t] = c] /\ c.pc \in {"nics", "write"} /\ c.hook = upd[t].hook
                 /\ c.vec = upd[t].vec /\ c.todo \subseteq upd[t].todo
    <3>1. CASE SkipNic(t, i)
      <4>1. PICK c : c = [upd[t] EXCEPT !.todo = @ \ {i}]
        OBVIOUS
      <4>2. upd' = [upd EXCEPT ![t] = c] /\ c.pc = "nics" /\ c.hook = upd[t].hook
            /\ c.vec = upd[t].vec /\ c.todo \subseteq upd[t].todo
        BY <2>1, <3>1, <4>1 DEF SkipNic, Calls
      <4> QED BY <4>2
    <3>2. CASE EnterNic(t, i)
      <4>1. PICK c : c = [upd[t] EXCEPT !.pc = "write", !.pos = 0, !.nic = i, !.todo = @ \ {i},
                                       !.index = GetStartIndex(upd[t].hook, i)]
        OBVIOUS
      <4>2. upd' = [upd EXCEPT ![t] = c] /\ c.pc = "write" /\ c.hook = upd[t].hook
            /\ c.vec = upd[t].vec /\ c.todo \subseteq upd[t].todo
        BY <2>1, <3>2, <4>1 DEF EnterNic, Calls
      <4> QED BY <4>2
    <3> QED BY <1>6, <3>1, <3>2
  <2>2. HasRegions(c)
    BY <2>1, <2>c DEF HasRegions
  <2> QED BY <1>0, <1>6, <2>c, <2>2 DEF SkipNic, EnterNic
<1>7. ASSUME NEW t \in Threads, WriteId(t) \/ LeaveNic(t) \/ ReturnUpdateChain(t)
      PROVE  FitInv'
  <2>1. upd[t] \in Calls /\ upd[t].pc \in {"nics", "write"} /\ HasRegions(upd[t])
    BY <1>7, InCall DEF WriteId, LeaveNic, ReturnUpdateChain, Inv, FitInv
  <2>2. regions' = regions
    BY <1>7 DEF WriteId, LeaveNic, ReturnUpdateChain
  <2>3. \/ upd' = [upd EXCEPT ![t] = Idle]
        \/ upd' = [upd EXCEPT ![t].pos = @ + 1]
        \/ upd' = [upd EXCEPT ![t].pos = @ + 1, ![t].index = @ + 1]
        \/ upd' = [upd EXCEPT ![t].pc = "nics"]
    BY <1>7 DEF WriteId, LeaveNic, ReturnUpdateChain, Return
  <2>c. PICK c : /\ upd' = [upd EXCEPT ![t] = c]
                 /\ \/ c = Idle
                    \/ c.pc \in {"nics", "write"} /\ c.hook = upd[t].hook
                       /\ c.vec = upd[t].vec /\ c.todo = upd[t].todo
    <3>1. CASE upd' = [upd EXCEPT ![t] = Idle]
      BY <3>1
    <3>2. CASE upd' = [upd EXCEPT ![t].pos = @ + 1]
      <4>1. PICK c : c = [upd[t] EXCEPT !.pos = @ + 1]
        OBVIOUS
      <4>2. upd' = [upd EXCEPT ![t] = c]
        BY <3>2, <4>1 DEF Inv, TypeOK
      <4>3. /\ c.pc \in {"nics", "write"}
            /\ c.hook = upd[t].hook /\ c.vec = upd[t].vec /\ c.todo = upd[t].todo
        BY <2>1, <4>1 DEF Calls
      <4> QED BY <4>2, <4>3
    <3>3. CASE upd' = [upd EXCEPT ![t].pos = @ + 1, ![t].index = @ + 1]
      <4>1. PICK c : c = [upd[t] EXCEPT !.pos = @ + 1, !.index = @ + 1]
        OBVIOUS
      <4>2. upd' = [upd EXCEPT ![t] = c]
        BY <3>3, <4>1 DEF Inv, TypeOK
      <4>3. /\ c.pc \in {"nics", "write"}
            /\ c.hook = upd[t].hook /\ c.vec = upd[t].vec /\ c.todo = upd[t].todo
        BY <2>1, <4>1 DEF Calls
      <4> QED BY <4>2, <4>3
    <3>4. CASE upd' = [upd EXCEPT ![t].pc = "nics"]
      <4>1. PICK c : c = [upd[t] EXCEPT !.pc = "nics"]
        OBVIOUS
      <4>2. upd' = [upd EXCEPT ![t] = c]
        BY <3>4, <4>1 DEF Inv, TypeOK
      <4>3. /\ c.pc \in {"nics", "write"}
            /\ c.hook = upd[t].hook /\ c.vec = upd[t].vec /\ c.todo = upd[t].todo
        BY <2>1, <4>1 DEF Calls
      <4> QED BY <4>2, <4>3
    <3> QED BY <2>3, <3>1, <3>2, <3>3, <3>4
  <2>4. HasRegions(c)
    BY <1>i, <2>1, <2>c DEF HasRegions
  <2> QED BY <1>0, <2>2, <2>c, <2>4
<1>8. CASE UNCHANGED <<regions, upd>>
  BY <1>8 DEF FitInv, HasRegions
<1>9. CASE Cleanup
  <2>1. \A h \in Hooks : \A i \in Ifindexes : regions'[h][i] = Absent
    BY <1>9 DEF Cleanup
  <2>2. \A h \in Hooks : FitsOf(regions'[h])
    BY <2>1, NoRegionsFit
  <2>3. \A t \in Threads : upd'[t] = Idle
    BY <1>9 DEF Cleanup
  <2>4. \A t \in Threads : HasRegions(upd[t])'
    BY <2>3 DEF HasRegions, Idle
  <2> QED BY <2>2, <2>4 DEF FitInv
<1> QED
  <2> HIDE DEF FitInv
  <2> QED
    BY <1>1, <1>2, <1>3, <1>4, <1>5, <1>6, <1>7, <1>8, <1>9
       DEF Next, UpdateChainStep, AssertStartIndex, InsertProg, Crash, Restart, vars

(* ASSERT(index >= 0) of updateChain never fails, and with NDEBUG no chain *)
(* is written from index -1, when prog_array has a region for every        *)
(* interface: any number of threads, rebuilds and crashes                  *)
(* (pinned_prog_map.cc 144-168, 256).                                      *)
THEOREM EveryNicHasRegion ==
  ASSUME NicsFit
  PROVE  Spec => []StartIndexAssertion
<1>1. Init => FitInv
  <2> SUFFICES ASSUME Init PROVE FitInv
    OBVIOUS
  <2>1. \A h \in Hooks : \A i \in Ifindexes : regions[h][i] = Absent
    BY DEF Init
  <2>2. \A h \in Hooks : FitsOf(regions[h])
    BY <2>1, NoRegionsFit
  <2>3. \A t \in Threads : HasRegions(upd[t])
    BY DEF Init, HasRegions, Idle
  <2> QED BY <2>2, <2>3 DEF FitInv
<1>2. Inv /\ FitInv /\ [Next]_vars => FitInv'
  BY FitStep
<1>3. FitInv => StartIndexAssertion
  BY DEF FitInv, HasRegions, StartIndexAssertion, GetStartIndex
<1> QED
  BY <1>1, <1>2, <1>3, InitInv, NextInv, PTL DEF Spec

-----------------------------------------------------------------------------
(* Daemon.                                                                 *)

(* What current_ebpf_ may hold: a configuration with its schedulers.       *)
Full == {WithSchedulers(cfg) : cfg \in Configs} \cup {NoConfig}

(* The entry of a library or, exactly as made up, of a scheduler.          *)
IsEntry(e) ==
  \E h \in Hooks, i \in Ifindexes : \E key, conf, order :
    e = [key |-> key, conf |-> conf, hook |-> h, ifindex |-> i, order |-> order]
EntryOK(e) ==
  /\ IsEntry(e)
  /\ IsScheduler(e.key) => e = SchedulerEntry(e.key[2], e.key[3])

(* The handles of the Loader, exactly as made up for the schedulers.       *)
IsHandle(s) ==
  \E h \in Hooks, i \in Ifindexes : \E conf :
    s = [hook |-> h, ifindex |-> i, conf |-> conf]
ServicesOK(servs) ==
  /\ servs = [k \in DOMAIN servs |-> servs[k]]
  /\ \A k \in DOMAIN servs :
       /\ IsHandle(servs[k])
       /\ IsScheduler(k) => servs[k] = Handle(SchedulerEntry(k[2], k[3]), "")

WithConf(servs, key, conf) == [servs EXCEPT ![key].conf = conf]

SchedulersOf(f) == {k \in DOMAIN f : IsScheduler(k)}

ConfigIds == UNION {DOMAIN cfg : cfg \in Full}
Jobs ==
  [pc : {"chains", "unload", "load"}, new : Configs \cup Full, cur : Full,
   hooks : SUBSET Hooks, left : SUBSET ConfigIds]

(* An update in progress while servs are loaded.                           *)
JobOK(j, servs) ==
  /\ j \in Jobs \cup {NoJob}
  /\ j # NoJob => SchedulersOf(j.cur) \subseteq DOMAIN servs
  /\ j.pc \in {"chains", "unload"} => j.new \in Configs
  /\ j.pc = "unload" =>
       \A id \in j.left : id \in DOMAIN j.cur \ DOMAIN j.new /\ ~IsScheduler(id)
  /\ j.pc = "load" =>
       /\ j.new \in Full /\ j.left \subseteq DOMAIN j.new
       /\ SchedulersOf(j.new) \ j.left \subseteq DOMAIN servs

(* Schedulers are never unloaded: the ones of current_ebpf_, and of what   *)
(* an update has dealt with so far, have a handle.                         *)
LoaderInv ==
  /\ current \in Full /\ last \in Configs \cup {NoConfig} /\ abandoned \in BOOLEAN
  /\ ServicesOK(services) /\ SchedulersOf(current) \subseteq DOMAIN services
  /\ job = [t \in Threads |-> job[t]]
  /\ \A t \in Threads : JobOK(job[t], services)

(* Only the first part of an update rebuilds chains.                       *)
UpdInv == \A t \in Threads : upd[t] # Idle => job[t].pc = "chains"

-----------------------------------------------------------------------------
(* Operators                                                               *)

(* Ids and keys of configured entries and of schedulers.                   *)
LEMMA ConfigFacts ==
  ASSUME NEW cfg \in Configs
  PROVE  /\ cfg = [id \in DOMAIN cfg |-> cfg[id]]
         /\ IsFiniteSet(DOMAIN cfg) /\ Cardinality(DOMAIN cfg) <= MaxVec
         /\ \A id \in DOMAIN cfg :
              /\ ~IsScheduler(id) /\ ~IsScheduler(cfg[id].key)
              /\ \E lib \in Libs : cfg[id].key = LibKey(lib)
              /\ cfg[id].hook \in Hooks /\ cfg[id].ifindex \in Ifindexes
              /\ NameOf(cfg[id]) \in Names
<1>1. /\ cfg = [id \in DOMAIN cfg |-> cfg[id]]
      /\ IsFiniteSet(DOMAIN cfg) /\ Cardinality(DOMAIN cfg) <= MaxVec
  BY DaemonAssumption DEF Restricted
<1>2. ASSUME NEW id \in DOMAIN cfg
      PROVE  /\ ~IsScheduler(id) /\ ~IsScheduler(cfg[id].key)
             /\ \E lib \in Libs : cfg[id].key = LibKey(lib)
             /\ cfg[id].hook \in Hooks /\ cfg[id].ifindex \in Ifindexes
             /\ NameOf(cfg[id]) \in Names
  <2>1. PICK lib \in Libs, h \in Hooks, i \in Ifindexes :
          cfg[id] = Entry(lib, cfg[id].conf, h, i, cfg[id].order)
    BY DaemonAssumption
  <2>2. id = Id(id[1])
    BY DaemonAssumption
  <2>3. cfg[id].key = LibKey(lib) /\ cfg[id].hook = h /\ cfg[id].ifindex = i
    BY <2>1 DEF Entry
  <2>4. LibKey(lib)[1] = lib /\ LibKey(lib)[2] = ""
    BY DEF LibKey
  <2>5. NameOf(cfg[id]) = LibName[lib]
    BY <2>3, <2>4 DEF NameOf
  <2>6. ~IsScheduler(cfg[id].key)
    BY <2>3, <2>4 DEF IsScheduler
  <2>7. ~IsScheduler(id)
    <3>1. PICK name : id = <<name, "", 0>>
      BY <2>2 DEF Id
    <3> QED BY <3>1 DEF IsScheduler
  <2>8. LibName[lib] \in Names
    BY DaemonAssumption
  <2> QED BY <2>3, <2>5, <2>6, <2>7, <2>8
<1> QED BY <1>1, <1>2

(* A daemon that has seen no configuration has no entries.                 *)
LEMMA NoConfigFacts ==
  /\ DOMAIN NoConfig = {}
  /\ WithoutSchedulers(NoConfig) = NoConfig
  /\ NoConfig = [id \in DOMAIN NoConfig |-> NoConfig[id]]
<1>1. DOMAIN NoConfig = {}
  BY DEF NoConfig
<1>2. NoConfig = [id \in {} |-> NoConfig[id]]
  BY DEF NoConfig
<1>3. {id \in DOMAIN NoConfig : ~IsScheduler(id)} = {}
  BY <1>1
<1> QED BY <1>1, <1>2, <1>3 DEF WithoutSchedulers, Restricted

(* The fields of a scheduler's entry; its key is its id.                   *)
LEMMA SchedulerEntryFields ==
  \A h, i :
    /\ SchedulerEntry(h, i).hook = h /\ SchedulerEntry(h, i).ifindex = i
    /\ SchedulerEntry(h, i).key = SchedulerId(h, i) /\ SchedulerEntry(h, i).conf = ""
BY DEF SchedulerEntry, SchedulerKey, SchedulerId

(* addSchedulers: the configured entries, and a scheduler for every hook   *)
(* and interface of them.                                                  *)
LEMMA WithSchedulersFacts ==
  ASSUME NEW cfg \in Configs
  PROVE  LET all == WithSchedulers(cfg) IN
         /\ all = [id \in DOMAIN all |-> all[id]]
         /\ DOMAIN cfg = {id \in DOMAIN all : ~IsScheduler(id)}
         /\ \A id \in DOMAIN cfg : all[id] = cfg[id]
         /\ \A id \in DOMAIN all : IsScheduler(id) =>
              /\ all[id] = SchedulerEntry(id[2], id[3])
              /\ id[2] \in Hooks /\ id[3] \in Ifindexes /\ id = SchedulerId(id[2], id[3])
         /\ \A id \in DOMAIN all : SchedulerId(all[id].hook, all[id].ifindex) \in DOMAIN all
         /\ WithoutSchedulers(all) = cfg
<1> DEFINE all == WithSchedulers(cfg)
           needed == {<<cfg[id].hook, cfg[id].ifindex>> : id \in DOMAIN cfg}
           ids == {SchedulerId(p[1], p[2]) : p \in needed}
<1>1. all = [id \in DOMAIN cfg \cup ids |->
               IF id \in DOMAIN cfg THEN cfg[id] ELSE SchedulerEntry(id[2], id[3])]
  BY DEF WithSchedulers
<1>2. DOMAIN all = DOMAIN cfg \cup ids
  BY <1>1
<1>3. ASSUME NEW id \in ids
      PROVE  /\ IsScheduler(id) /\ id[2] \in Hooks /\ id[3] \in Ifindexes
             /\ id = SchedulerId(id[2], id[3]) /\ id \notin DOMAIN cfg
             /\ all[id] = SchedulerEntry(id[2], id[3])
  <2>1. PICK old \in DOMAIN cfg : id = SchedulerId(cfg[old].hook, cfg[old].ifindex)
    OBVIOUS
  <2>2. cfg[old].hook \in Hooks /\ cfg[old].ifindex \in Ifindexes
    BY ConfigFacts
  <2>3. id[2] = cfg[old].hook /\ id[3] = cfg[old].ifindex
    BY <2>1 DEF SchedulerId
  <2>4. IsScheduler(id)
    BY <2>2, <2>3, DaemonAssumption DEF IsScheduler
  <2>5. id \notin DOMAIN cfg
    BY <2>4, ConfigFacts
  <2>6. all[id] = SchedulerEntry(id[2], id[3])
    BY <1>1, <2>5
  <2> QED BY <2>1, <2>2, <2>3, <2>4, <2>5, <2>6
<1>4. \A id \in DOMAIN cfg : all[id] = cfg[id] /\ ~IsScheduler(id)
  BY <1>1, ConfigFacts
<1>5. \A id \in DOMAIN cfg : SchedulerId(cfg[id].hook, cfg[id].ifindex) \in ids
  <2> SUFFICES ASSUME NEW id \in DOMAIN cfg
               PROVE  SchedulerId(cfg[id].hook, cfg[id].ifindex) \in ids
    OBVIOUS
  <2>1. PICK p : p = <<cfg[id].hook, cfg[id].ifindex>>
    OBVIOUS
  <2>2. p \in needed /\ p[1] = cfg[id].hook /\ p[2] = cfg[id].ifindex
    BY <2>1
  <2>3. SchedulerId(p[1], p[2]) \in ids
    BY <2>2
  <2> QED BY <2>2, <2>3
<1> HIDE DEF ids, all
<1>6. DOMAIN cfg = {id \in DOMAIN all : ~IsScheduler(id)}
  BY <1>2, <1>3, <1>4
<1>7. ASSUME NEW id \in DOMAIN all
      PROVE  SchedulerId(all[id].hook, all[id].ifindex) \in DOMAIN all
  <2>1. CASE id \in DOMAIN cfg
    BY <1>2, <1>4, <1>5, <2>1
  <2>2. CASE id \in ids
    <3>1. PICK h, i : all[id] = SchedulerEntry(h, i) /\ id = SchedulerId(h, i)
      BY <1>3, <2>2
    <3>2. SchedulerEntry(h, i).hook = h /\ SchedulerEntry(h, i).ifindex = i
      BY SchedulerEntryFields
    <3>3. SchedulerId(all[id].hook, all[id].ifindex) = id
      BY <3>1, <3>2
    <3> QED BY <1>7, <3>3
  <2> QED BY <1>2, <1>7, <2>1, <2>2
<1>8. WithoutSchedulers(all) = cfg
  <2>1. WithoutSchedulers(all) = [id \in DOMAIN cfg |-> all[id]]
    BY <1>6 DEF WithoutSchedulers, Restricted
  <2>2. WithoutSchedulers(all) = [id \in DOMAIN cfg |-> cfg[id]]
    BY <1>4, <2>1
  <2> QED BY <2>2, ConfigFacts
<1>9. all = [id \in DOMAIN all |-> all[id]]
  BY <1>1
<1>10. \A id \in DOMAIN all : IsScheduler(id) =>
         /\ all[id] = SchedulerEntry(id[2], id[3])
         /\ id[2] \in Hooks /\ id[3] \in Ifindexes /\ id = SchedulerId(id[2], id[3])
  BY <1>2, <1>3, <1>4
<1> QED BY <1>4, <1>6, <1>7, <1>8, <1>9, <1>10 DEF all

(* What current_ebpf_ holds at any time.                                   *)
LEMMA FullFacts ==
  ASSUME NEW cfg \in Full
  PROVE  /\ cfg = [id \in DOMAIN cfg |-> cfg[id]]
         /\ WithoutSchedulers(cfg) \in Configs \cup {NoConfig}
         /\ \A id \in DOMAIN cfg :
              /\ EntryOK(cfg[id]) /\ NameOf(cfg[id]) \in Names
              /\ IsScheduler(cfg[id].key) <=> IsScheduler(id)
              /\ IsScheduler(id) => cfg[id].key = id
              /\ SchedulerId(cfg[id].hook, cfg[id].ifindex) \in DOMAIN cfg
<1>1. CASE cfg = NoConfig
  BY <1>1, NoConfigFacts
<1>2. ASSUME NEW c \in Configs, cfg = WithSchedulers(c)
      PROVE  /\ cfg = [id \in DOMAIN cfg |-> cfg[id]]
             /\ WithoutSchedulers(cfg) \in Configs \cup {NoConfig}
             /\ \A id \in DOMAIN cfg :
                  /\ EntryOK(cfg[id]) /\ NameOf(cfg[id]) \in Names
                  /\ IsScheduler(cfg[id].key) <=> IsScheduler(id)
                  /\ IsScheduler(id) => cfg[id].key = id
                  /\ SchedulerId(cfg[id].hook, cfg[id].ifindex) \in DOMAIN cfg
  <2>1. /\ cfg = [id \in DOMAIN cfg |-> cfg[id]]
        /\ WithoutSchedulers(cfg) \in Configs \cup {NoConfig}
        /\ \A id \in DOMAIN cfg : SchedulerId(cfg[id].hook, cfg[id].ifindex) \in DOMAIN cfg
    BY <1>2, WithSchedulersFacts
  <2>2. ASSUME NEW id \in DOMAIN cfg
        PROVE  /\ EntryOK(cfg[id]) /\ NameOf(cfg[id]) \in Names
               /\ IsScheduler(cfg[id].key) <=> IsScheduler(id)
               /\ IsScheduler(id) => cfg[id].key = id
    <3>1. CASE ~IsScheduler(id)
      <4>1. id \in DOMAIN c /\ cfg[id] = c[id]
        BY <1>2, <3>1, WithSchedulersFacts
      <4>2. ~IsScheduler(cfg[id].key) /\ NameOf(cfg[id]) \in Names
        BY <4>1, ConfigFacts
      <4>3. PICK lib \in Libs, h \in Hooks, i \in Ifindexes :
              c[id] = Entry(lib, c[id].conf, h, i, c[id].order)
        BY <4>1, DaemonAssumption
      <4>4. EntryOK(cfg[id])
        BY <4>1, <4>2, <4>3 DEF EntryOK, IsEntry, Entry
      <4> QED BY <3>1, <4>2, <4>4
    <3>2. CASE IsScheduler(id)
      <4>1. PICK h \in Hooks, i \in Ifindexes :
              cfg[id] = SchedulerEntry(h, i) /\ id = SchedulerId(h, i)
        <5>1. /\ cfg[id] = SchedulerEntry(id[2], id[3]) /\ id = SchedulerId(id[2], id[3])
              /\ id[2] \in Hooks /\ id[3] \in Ifindexes
          BY <1>2, <3>2, WithSchedulersFacts
        <5> QED BY <5>1
      <4>2. SchedulerEntry(h, i).key = id
        BY <4>1, SchedulerEntryFields
      <4>3. id[2] = h /\ id[3] = i
        BY <4>1 DEF SchedulerId
      <4>4. cfg[id].key = id
        BY <4>1, <4>2
      <4>5. cfg[id] = SchedulerEntry(cfg[id].key[2], cfg[id].key[3])
        BY <4>1, <4>3, <4>4
      <4>6. EntryOK(cfg[id])
        <5>1. cfg[id] = [key |-> SchedulerKey(h, i), conf |-> "", hook |-> h,
                         ifindex |-> i, order |-> 0]
          BY <4>1 DEF SchedulerEntry
        <5> QED BY <4>5, <5>1 DEF EntryOK, IsEntry
      <4>7. NameOf(cfg[id]) \in Names
        <5>1. cfg[id].hook = h
          <6>1. SchedulerEntry(h, i).hook = h
            BY SchedulerEntryFields
          <6> QED BY <4>1, <6>1
        <5>2. NameOf(cfg[id]) = Scheduler[h]
          BY <3>2, <4>4, <5>1 DEF NameOf, IsScheduler
        <5> QED BY <5>2, ConstantsAssumption
      <4> QED BY <3>2, <4>4, <4>6, <4>7
    <3> QED BY <3>1, <3>2
  <2> QED BY <2>1, <2>2
<1> QED BY <1>1, <1>2 DEF Full

(* unloadServices of a configured library leaves the other handles alone.  *)
LEMMA UnloadServiceFacts ==
  ASSUME NEW servs, ServicesOK(servs), NEW key, ~IsScheduler(key),
         NEW out, out = UnloadService(servs, key)
  PROVE  /\ ServicesOK(out) /\ SchedulersOf(out) = SchedulersOf(servs)
         /\ DOMAIN out = DOMAIN servs \ {key}
         /\ \A k \in DOMAIN servs \ {key} : out[k] = servs[k]
<1>1. out = [k \in DOMAIN servs \ {key} |-> servs[k]]
  BY DEF UnloadService, Restricted
<1>2. DOMAIN out = DOMAIN servs \ {key} /\ \A k \in DOMAIN servs \ {key} : out[k] = servs[k]
  BY <1>1
<1>3. out = [k \in DOMAIN out |-> out[k]]
  BY <1>1
<1>4. SchedulersOf(out) = SchedulersOf(servs)
  BY <1>2 DEF SchedulersOf
<1>5. ServicesOK(out)
  BY <1>2, <1>3 DEF ServicesOK
<1> QED BY <1>2, <1>4, <1>5

(* loadService adds the handle of the entry unless the library is loaded.  *)
LEMMA LoadServiceFacts ==
  ASSUME NEW servs, ServicesOK(servs), NEW entry, EntryOK(entry),
         NEW out, out = LoadService(servs, entry)
  PROVE  /\ ServicesOK(out) /\ SchedulersOf(servs) \subseteq SchedulersOf(out)
         /\ DOMAIN out = DOMAIN servs \cup {entry.key}
         /\ \A k \in DOMAIN servs : out[k] = servs[k]
         /\ entry.key \notin DOMAIN servs => out[entry.key] = Handle(entry, entry.conf)
<1>1. CASE entry.key \in DOMAIN servs
  BY <1>1 DEF LoadService, SchedulersOf
<1>2. CASE entry.key \notin DOMAIN servs
  <2>1. out = [k \in DOMAIN servs \cup {entry.key} |->
                 IF k = entry.key THEN Handle(entry, entry.conf) ELSE servs[k]]
    BY <1>2 DEF LoadService
  <2>2. /\ DOMAIN out = DOMAIN servs \cup {entry.key}
        /\ \A k \in DOMAIN servs : out[k] = servs[k]
        /\ out[entry.key] = Handle(entry, entry.conf)
    BY <1>2, <2>1
  <2>3. out = [k \in DOMAIN out |-> out[k]]
    BY <2>1
  <2>4. SchedulersOf(servs) \subseteq SchedulersOf(out)
    BY <2>2 DEF SchedulersOf
  <2>5. PICK h \in Hooks, i \in Ifindexes : \E key, conf, order :
          entry = [key |-> key, conf |-> conf, hook |-> h, ifindex |-> i, order |-> order]
    BY DEF EntryOK, IsEntry
  <2>6. out[entry.key] = [hook |-> h, ifindex |-> i, conf |-> entry.conf]
    BY <2>2, <2>5 DEF Handle
  <2>7. IsScheduler(entry.key) =>
          out[entry.key] = Handle(SchedulerEntry(entry.key[2], entry.key[3]), "")
    <3> SUFFICES ASSUME IsScheduler(entry.key)
                 PROVE  out[entry.key] = Handle(SchedulerEntry(entry.key[2], entry.key[3]), "")
      OBVIOUS
    <3>1. entry = SchedulerEntry(entry.key[2], entry.key[3])
      BY DEF EntryOK
    <3>2. SchedulerEntry(entry.key[2], entry.key[3]).conf = ""
      BY DEF SchedulerEntry
    <3>3. entry.conf = ""
      BY <3>1, <3>2
    <3> QED BY <2>2, <3>1, <3>3
  <2>8. ServicesOK(out)
    <3>1. ASSUME NEW k \in DOMAIN out
          PROVE  /\ IsHandle(out[k])
                 /\ IsScheduler(k) => out[k] = Handle(SchedulerEntry(k[2], k[3]), "")
      <4>1. CASE k \in DOMAIN servs
        BY <2>2, <4>1 DEF ServicesOK
      <4>2. CASE k = entry.key
        BY <2>6, <2>7, <4>2 DEF IsHandle
      <4> QED BY <2>2, <4>1, <4>2
    <3> QED BY <2>3, <3>1 DEF ServicesOK
  <2> QED BY <2>2, <2>4, <2>8
<1> QED BY <1>1, <1>2

(* A handle is given another configuration file.                           *)
LEMMA NewConfFacts ==
  ASSUME NEW servs, ServicesOK(servs), NEW key \in DOMAIN servs, ~IsScheduler(key), NEW conf,
         NEW out, out = WithConf(servs, key, conf)
  PROVE  /\ ServicesOK(out) /\ SchedulersOf(out) = SchedulersOf(servs)
         /\ DOMAIN out = DOMAIN servs
         /\ \A k \in DOMAIN servs \ {key} : out[k] = servs[k]
         /\ out[key] = [hook |-> servs[key].hook, ifindex |-> servs[key].ifindex, conf |-> conf]
<1>1. PICK h \in Hooks, i \in Ifindexes : \E c :
        servs[key] = [hook |-> h, ifindex |-> i, conf |-> c]
  BY DEF ServicesOK, IsHandle
<1>2. /\ DOMAIN out = DOMAIN servs /\ \A k \in DOMAIN servs \ {key} : out[k] = servs[k]
      /\ out[key] = [servs[key] EXCEPT !.conf = conf]
  BY DEF WithConf
<1>3. out = [k \in DOMAIN out |-> out[k]]
  BY DEF WithConf
<1>4. out[key] = [hook |-> h, ifindex |-> i, conf |-> conf]
  BY <1>1, <1>2
<1>5. SchedulersOf(out) = SchedulersOf(servs)
  BY <1>2 DEF SchedulersOf
<1>6. ASSUME NEW k \in DOMAIN out
      PROVE  /\ IsHandle(out[k])
             /\ IsScheduler(k) => out[k] = Handle(SchedulerEntry(k[2], k[3]), "")
  <2>1. CASE k # key
    BY <1>2, <2>1 DEF ServicesOK
  <2>2. CASE k = key
    BY <1>4, <2>2 DEF IsHandle
  <2> QED BY <2>1, <2>2
<1>7. ServicesOK(out)
  BY <1>3, <1>6 DEF ServicesOK
<1>8. servs[key].hook = h /\ servs[key].ifindex = i
  BY <1>1
<1> QED BY <1>2, <1>4, <1>5, <1>7, <1>8

-----------------------------------------------------------------------------
(* Steps of an update                                                      *)

(* A job has its fields unless there is none.                              *)
LEMMA JobFacts ==
  ASSUME NEW servs, NEW j, JobOK(j, servs)
  PROVE  /\ j.pc \in {"idle", "chains", "unload", "load"}
         /\ j.pc = "idle" <=> j = NoJob
         /\ j # NoJob =>
              /\ j \in Jobs /\ j.cur \in Full /\ j.hooks \subseteq Hooks
              /\ j.left \subseteq ConfigIds /\ j.new \in Configs \cup Full
BY DEF JobOK, Jobs, NoJob

(* A step of thread t changes its own job.                                 *)
LEMMA LoaderStep ==
  ASSUME LoaderInv, NEW t \in Threads, NEW j,
         job' = [job EXCEPT ![t] = j], JobOK(j, services'),
         ServicesOK(services'), SchedulersOf(services) \subseteq DOMAIN services',
         last' \in Configs \cup {NoConfig}, abandoned' \in BOOLEAN,
         current' \in Full, SchedulersOf(current') \subseteq DOMAIN services'
  PROVE  LoaderInv'
<1>1. job' = [u \in Threads |-> job'[u]] /\ job'[t] = j
      /\ \A u \in Threads \ {t} : job'[u] = job[u]
  BY DEF LoaderInv
<1>2. ASSUME NEW u \in Threads
      PROVE  JobOK(job'[u], services')
  <2>1. CASE u = t
    BY <1>1, <2>1
  <2>2. CASE u # t
    <3>1. JobOK(job[u], services) /\ job'[u] = job[u]
      BY <1>1, <2>2 DEF LoaderInv
    <3>2. PICK k : k = job[u]
      OBVIOUS
    <3>3. JobOK(k, services')
      BY <3>1, <3>2 DEF JobOK, SchedulersOf
    <3> QED BY <3>1, <3>2, <3>3
  <2> QED BY <2>1, <2>2
<1> QED BY <1>1, <1>2 DEF LoaderInv

(* The hooks and ids of a configuration.                                   *)
LEMMA FullSets ==
  /\ \A cfg \in Configs : HooksOf(cfg) \subseteq Hooks
  /\ \A cfg \in Full : DOMAIN cfg \subseteq ConfigIds
  /\ \A cfg \in Configs : WithSchedulers(cfg) \in Full
<1>1. \A cfg \in Configs : HooksOf(cfg) \subseteq Hooks
  BY ConfigFacts DEF HooksOf
<1>2. \A cfg \in Full : DOMAIN cfg \subseteq ConfigIds
  BY DEF ConfigIds
<1> QED BY <1>1, <1>2 DEF Full

(* update() takes a job: the current configuration is the one to leave.    *)
LEMMA UpdateLoader ==
  ASSUME LoaderInv, NEW t \in Threads, NEW cfg \in Configs, Update(t, cfg)
  PROVE  LoaderInv'
<1> DEFINE j == [pc |-> "chains", new |-> cfg, cur |-> current,
                 hooks |-> IF cfg # WithoutSchedulers(current) THEN HooksOf(cfg) ELSE {},
                 left |-> {}]
<1>1. j \in Jobs
  BY FullSets DEF Jobs, LoaderInv
<1>2. j.cur = current /\ j.new = cfg /\ j.pc = "chains"
  OBVIOUS
<1>3. job' = [job EXCEPT ![t] = j] /\ UNCHANGED <<current, services, abandoned>> /\ last' = cfg
  BY DEF Update
<1> HIDE DEF j
<1>4. JobOK(j, services')
  BY <1>1, <1>2, <1>3 DEF JobOK, LoaderInv
<1> QED BY <1>3, <1>4, LoaderStep DEF LoaderInv, SchedulersOf

(* A chain that is rebuilt changes nothing of the Loader.                  *)
LEMMA RebuildHookLoader ==
  ASSUME LoaderInv, NEW t \in Threads, RebuildHook(t)
  PROVE  LoaderInv'
<1>1. PICK h \in job[t].hooks : job' = [job EXCEPT ![t].hooks = @ \ {h}]
  BY DEF RebuildHook
<1>2. UNCHANGED <<last, current, services, abandoned>> /\ job[t].pc = "chains"
  BY DEF RebuildHook
<1>3. JobOK(job[t], services) /\ job = [u \in Threads |-> job[u]]
  BY DEF LoaderInv
<1>4. PICK j : j = [job[t] EXCEPT !.hooks = @ \ {h}]
  OBVIOUS
<1>5. job' = [job EXCEPT ![t] = j]
  BY <1>1, <1>3, <1>4
<1>6. job[t] \in Jobs /\ job[t] # NoJob
  BY <1>2, <1>3, JobFacts
<1>7. j \in Jobs /\ j.cur = job[t].cur /\ j.new = job[t].new /\ j.pc = "chains"
  BY <1>2, <1>4, <1>6 DEF Jobs
<1>8. JobOK(j, services')
  BY <1>2, <1>3, <1>6, <1>7 DEF JobOK
<1> QED BY <1>2, <1>5, <1>8, LoaderStep DEF LoaderInv, SchedulersOf

(* What is to be unloaded has an entry in the current configuration.       *)
LEMMA FindUnloadsLoader ==
  ASSUME LoaderInv, NEW t \in Threads, FindUnloads(t)
  PROVE  LoaderInv'
<1> DEFINE gone == DOMAIN WithoutSchedulers(job[t].cur) \ DOMAIN job[t].new
           j == [job[t] EXCEPT !.pc = "unload", !.left = gone]
<1>1. JobOK(job[t], services) /\ job = [u \in Threads |-> job[u]]
  BY DEF LoaderInv
<1>2. /\ job' = [job EXCEPT ![t].pc = "unload", ![t].left = gone]
      /\ UNCHANGED <<last, current, services, abandoned>> /\ job[t].pc = "chains"
  BY DEF FindUnloads
<1>3. job[t] \in Jobs /\ job[t] # NoJob /\ job[t].cur \in Full
  BY <1>1, <1>2, JobFacts
<1>4. \A id \in gone : id \in DOMAIN job[t].cur \ DOMAIN job[t].new /\ ~IsScheduler(id)
  BY DEF WithoutSchedulers, Restricted
<1> HIDE DEF gone
<1>5. job' = [job EXCEPT ![t] = j]
  BY <1>1, <1>2
<1>6. gone \subseteq ConfigIds
  BY <1>3, <1>4, FullSets
<1>7. /\ j \in Jobs /\ j.cur = job[t].cur /\ j.new = job[t].new
      /\ j.pc = "unload" /\ j.left = gone
  BY <1>3, <1>6 DEF Jobs
<1> HIDE DEF j
<1>8. JobOK(j, services')
  BY <1>1, <1>2, <1>3, <1>4, <1>7 DEF JobOK
<1> QED BY <1>2, <1>5, <1>8, LoaderStep DEF LoaderInv, SchedulersOf

(* One id of the loop is done: a scheduler among them has its handle.      *)
LEMMA LeftDone ==
  ASSUME LoaderInv, NEW t \in Threads, NEW id, id \in job[t].left,
         job[t].pc \in {"unload", "load"},
         job' = [job EXCEPT ![t].left = @ \ {id}], UNCHANGED <<last, current, abandoned>>,
         ServicesOK(services'), SchedulersOf(services) \subseteq SchedulersOf(services'),
         job[t].pc = "load" /\ IsScheduler(id) => id \in DOMAIN services'
  PROVE  LoaderInv'
<1> DEFINE j == [job[t] EXCEPT !.left = @ \ {id}]
<1>1. JobOK(job[t], services) /\ job = [u \in Threads |-> job[u]]
  BY DEF LoaderInv
<1>2. job[t] \in Jobs /\ job[t] # NoJob
  BY <1>1, JobFacts
<1>3. job' = [job EXCEPT ![t] = j]
  BY <1>1
<1>4. /\ j \in Jobs /\ j.cur = job[t].cur /\ j.new = job[t].new
      /\ j.pc = job[t].pc /\ j.left = job[t].left \ {id}
  BY <1>2 DEF Jobs
<1> HIDE DEF j
<1>5. SchedulersOf(services) \subseteq DOMAIN services'
  BY DEF SchedulersOf
<1>6. JobOK(j, services')
  <2>1. SchedulersOf(j.cur) \subseteq DOMAIN services'
    BY <1>1, <1>2, <1>4, <1>5 DEF JobOK, SchedulersOf
  <2>2. j.pc = "load" =>
          /\ j.new \in Full /\ j.left \subseteq DOMAIN j.new
          /\ SchedulersOf(j.new) \ j.left \subseteq DOMAIN services'
    BY <1>1, <1>4, <1>5 DEF JobOK, SchedulersOf
  <2>3. /\ j.pc \in {"chains", "unload"} => j.new \in Configs
        /\ j.pc = "unload" =>
             \A x \in j.left : x \in DOMAIN j.cur \ DOMAIN j.new /\ ~IsScheduler(x)
    BY <1>1, <1>4 DEF JobOK
  <2> QED BY <1>4, <2>1, <2>2, <2>3 DEF JobOK
<1> QED BY <1>3, <1>5, <1>6, LoaderStep DEF LoaderInv, SchedulersOf

(* An update is abandoned.                                                 *)
LEMMA AbandonLoader ==
  ASSUME LoaderInv, NEW t \in Threads, Abandon(t), UNCHANGED <<last, current>>,
         ServicesOK(services'), SchedulersOf(services) \subseteq SchedulersOf(services')
  PROVE  LoaderInv'
<1>1. JobOK(NoJob, services')
  BY DEF JobOK, NoJob
<1>2. SchedulersOf(services) \subseteq DOMAIN services'
  BY DEF SchedulersOf
<1> QED BY <1>1, <1>2, LoaderStep DEF Abandon, LoaderInv, SchedulersOf

(* What the loop over the new configuration finds for an id: a scheduler   *)
(* of both configurations is neither moved nor reconfigured.               *)
LEMMA LoadFacts ==
  ASSUME LoaderInv, NEW t \in Threads, job[t].pc = "load", NEW id, id \in job[t].left
  PROVE  /\ EntryOK(job[t].new[id]) /\ NameOf(job[t].new[id]) \in Names
         /\ IsScheduler(job[t].new[id].key) <=> IsScheduler(id)
         /\ IsScheduler(id) => job[t].new[id].key = id
         /\ IsMoved(t, id) =>
              /\ ~IsScheduler(id) /\ ~IsScheduler(job[t].cur[id].key)
              /\ id \in DOMAIN job[t].cur
         /\ IsReconfigured(t, id) => ~IsScheduler(id) /\ ~IsScheduler(job[t].new[id].key)
         /\ ServicesOK(KeptServices(t, id))
         /\ SchedulersOf(KeptServices(t, id)) = SchedulersOf(services)
<1>1. JobOK(job[t], services) /\ ServicesOK(services)
  BY DEF LoaderInv
<1>2. job[t].new \in Full /\ id \in DOMAIN job[t].new /\ job[t].cur \in Full
  BY <1>1, JobFacts DEF JobOK, NoJob
<1>3. PICK new : new = job[t].new
  OBVIOUS
<1>4. PICK cur : cur = job[t].cur
  OBVIOUS
<1>5. /\ EntryOK(new[id]) /\ NameOf(new[id]) \in Names
      /\ IsScheduler(new[id].key) <=> IsScheduler(id)
      /\ IsScheduler(id) => new[id].key = id
  BY <1>2, <1>3, FullFacts
<1>6. id \in DOMAIN cur => /\ EntryOK(cur[id])
                           /\ IsScheduler(cur[id].key) <=> IsScheduler(id)
                           /\ IsScheduler(id) => cur[id].key = id
  BY <1>2, <1>4, FullFacts
<1>7. IsScheduler(id) /\ id \in DOMAIN cur => new[id] = cur[id]
  BY <1>5, <1>6 DEF EntryOK
<1>8. IsMoved(t, id) => id \in DOMAIN cur /\ ~IsScheduler(id) /\ ~IsScheduler(cur[id].key)
  BY <1>3, <1>4, <1>6, <1>7 DEF IsMoved, IsNew
<1>9. IsReconfigured(t, id) => ~IsScheduler(id)
  BY <1>3, <1>4, <1>7 DEF IsReconfigured, IsNew
<1>10. /\ ServicesOK(KeptServices(t, id))
       /\ SchedulersOf(KeptServices(t, id)) = SchedulersOf(services)
  <2>1. CASE IsMoved(t, id)
    <3>1. PICK key, out : key = cur[id].key /\ out = UnloadService(services, key)
      OBVIOUS
    <3>2. ServicesOK(out) /\ SchedulersOf(out) = SchedulersOf(services)
      BY <1>1, <1>8, <2>1, <3>1, UnloadServiceFacts
    <3> QED BY <1>4, <2>1, <3>1, <3>2 DEF KeptServices
  <2>2. CASE ~IsMoved(t, id)
    BY <1>1, <2>2 DEF KeptServices
  <2> QED BY <2>1, <2>2
<1> QED BY <1>3, <1>4, <1>5, <1>8, <1>9, <1>10

(* A handle without its file, when the file cannot be watched.             *)
LEMMA NoFileEntry ==
  ASSUME NEW e, EntryOK(e), e.conf # ""
  PROVE  EntryOK([e EXCEPT !.conf = ""])
<1>0. PICK h \in Hooks, i \in Ifindexes : \E key, conf, order :
        e = [key |-> key, conf |-> conf, hook |-> h, ifindex |-> i, order |-> order]
  BY DEF EntryOK, IsEntry
<1>1. PICK key, conf, order :
        e = [key |-> key, conf |-> conf, hook |-> h, ifindex |-> i, order |-> order]
  BY <1>0
<1>2. [e EXCEPT !.conf = ""] =
        [key |-> key, conf |-> "", hook |-> h, ifindex |-> i, order |-> order]
  <2>1. e \in [key : {key}, conf : {conf}, hook : {h}, ifindex : {i}, order : {order}]
    BY <1>1
  <2>2. [e EXCEPT !.conf = ""] \in
          [key : {key}, conf : {""}, hook : {h}, ifindex : {i}, order : {order}]
    BY <2>1
  <2>3. PICK f : f = [e EXCEPT !.conf = ""]
    OBVIOUS
  <2>4. f = [key |-> key, conf |-> "", hook |-> h, ifindex |-> i, order |-> order]
    BY <2>2, <2>3
  <2> QED BY <2>3, <2>4
<1>3. IsEntry([e EXCEPT !.conf = ""]) /\ [e EXCEPT !.conf = ""].key = e.key
  <2>1. PICK f : f = [e EXCEPT !.conf = ""]
    OBVIOUS
  <2>2. f = [key |-> key, conf |-> "", hook |-> h, ifindex |-> i, order |-> order]
    BY <1>2, <2>1
  <2>3. IsEntry(f)
    BY <2>2 DEF IsEntry
  <2>4. f.key = e.key
    BY <1>1, <2>2
  <2> QED BY <2>1, <2>3, <2>4
<1>4. ~IsScheduler(e.key)
  <2>1. \A h2, i2 : SchedulerEntry(h2, i2).conf = ""
    BY SchedulerEntryFields
  <2> QED BY <2>1 DEF EntryOK
<1> QED BY <1>3, <1>4 DEF EntryOK

(* Every step of thread t keeps LoaderInv.                                 *)
LEMMA JobStepLoader ==
  ASSUME LoaderInv, NEW t \in Threads, JobStep(t)
  PROVE  LoaderInv'
<1>1. JobOK(job[t], services) /\ ServicesOK(services) /\ job = [u \in Threads |-> job[u]]
  BY DEF LoaderInv
<1>2. ASSUME job[t].pc = "load", NEW id, id \in Leasts(job[t].left)
      PROVE  id \in job[t].left
  BY <1>2 DEF Leasts
<1>3. CASE RebuildHook(t)
  BY <1>3, RebuildHookLoader
<1>4. CASE ChainStep(t)
  BY <1>4 DEF ChainStep, daemonVars, LoaderInv
<1>5. CASE FindUnloads(t)
  BY <1>5, FindUnloadsLoader
<1>6. CASE UnloadEntry(t)
  <2>1. PICK id \in Leasts(job[t].left) :
          /\ services' = UnloadService(services, job[t].cur[id].key)
          /\ job' = [job EXCEPT ![t].left = @ \ {id}]
    BY <1>6 DEF UnloadEntry
  <2>2. UNCHANGED <<last, current, abandoned>> /\ job[t].pc = "unload"
    BY <1>6 DEF UnloadEntry
  <2>3. id \in job[t].left
    BY DEF Leasts
  <2>4. job[t].cur \in Full /\ id \in DOMAIN job[t].cur /\ ~IsScheduler(id)
    BY <1>1, <2>2, <2>3, JobFacts DEF JobOK, NoJob
  <2>5. ~IsScheduler(job[t].cur[id].key)
    BY <2>4, FullFacts
  <2>6. ServicesOK(services') /\ SchedulersOf(services) = SchedulersOf(services')
    BY <1>1, <2>1, <2>5, UnloadServiceFacts
  <2> QED BY <2>1, <2>2, <2>3, <2>6, LeftDone
<1>7. CASE AddSchedulers(t)
  <2> DEFINE new == WithSchedulers(job[t].new)
             j == [job[t] EXCEPT !.pc = "load", !.new = new, !.left = DOMAIN new]
  <2>1. /\ job' = [job EXCEPT ![t].pc = "load", ![t].new = new, ![t].left = DOMAIN new]
        /\ UNCHANGED <<last, current, services, abandoned>> /\ job[t].pc = "unload"
    BY <1>7 DEF AddSchedulers
  <2>2. job[t] \in Jobs /\ job[t] # NoJob /\ job[t].new \in Configs
    BY <1>1, <2>1, JobFacts DEF JobOK
  <2>3. new \in Full /\ DOMAIN new \subseteq ConfigIds
    BY <2>2, FullSets
  <2> HIDE DEF new
  <2>4. job' = [job EXCEPT ![t] = j]
    BY <1>1, <2>1
  <2>5. j \in Jobs /\ j.cur = job[t].cur /\ j.new = new /\ j.pc = "load" /\ j.left = DOMAIN new
    BY <2>2, <2>3 DEF Jobs
  <2> HIDE DEF j
  <2>6. JobOK(j, services')
    BY <1>1, <2>1, <2>2, <2>3, <2>5 DEF JobOK, SchedulersOf
  <2> QED BY <2>1, <2>4, <2>6, LoaderStep DEF LoaderInv, SchedulersOf
<1>8. CASE LoadEntry(t)
  <2>1. job[t].pc = "load" /\ UNCHANGED <<last, current, abandoned>>
    BY <1>8 DEF LoadEntry
  <2>2. PICK id \in Leasts(job[t].left) :
          /\ services' = LoadService(KeptServices(t, id), job[t].new[id])
          /\ job' = [job EXCEPT ![t].left = @ \ {id}]
    BY <1>8 DEF LoadEntry
  <2>3. id \in job[t].left
    BY <1>2, <2>1
  <2>4. /\ EntryOK(job[t].new[id]) /\ (IsScheduler(id) => job[t].new[id].key = id)
        /\ ServicesOK(KeptServices(t, id))
        /\ SchedulersOf(KeptServices(t, id)) = SchedulersOf(services)
    BY <2>1, <2>3, LoadFacts
  <2>5. /\ ServicesOK(services') /\ SchedulersOf(services) \subseteq SchedulersOf(services')
        /\ job[t].new[id].key \in DOMAIN services'
    <3>1. PICK entry, servs : entry = job[t].new[id] /\ servs = KeptServices(t, id)
      OBVIOUS
    <3>2. ServicesOK(servs) /\ EntryOK(entry) /\ services' = LoadService(servs, entry)
      BY <2>2, <2>4, <3>1
    <3>3. /\ ServicesOK(services') /\ SchedulersOf(servs) \subseteq SchedulersOf(services')
          /\ entry.key \in DOMAIN services'
      <4>1. PICK out : out = LoadService(servs, entry)
        OBVIOUS
      <4>2. ServicesOK(out) /\ SchedulersOf(servs) \subseteq SchedulersOf(out)
        BY <3>2, <4>1, LoadServiceFacts
      <4>3. DOMAIN out = DOMAIN servs \cup {entry.key}
        BY <3>2, <4>1, LoadServiceFacts
      <4> QED BY <3>2, <4>1, <4>2, <4>3
    <3> QED BY <2>4, <3>1, <3>3
  <2>6. job[t].pc = "load" /\ IsScheduler(id) => id \in DOMAIN services'
    BY <2>4, <2>5
  <2> QED BY <2>1, <2>2, <2>3, <2>5, <2>6, LeftDone
<1>9. CASE ReconfigureEntry(t)
  <2>1. job[t].pc = "load" /\ UNCHANGED <<last, current>>
    BY <1>9 DEF ReconfigureEntry
  <2>2. PICK id \in Leasts(job[t].left) :
          /\ IsReconfigured(t, id)
          /\ \/ /\ job[t].new[id].key \in DOMAIN services
                /\ services' = [services EXCEPT ![job[t].new[id].key].conf = job[t].new[id].conf]
                /\ job' = [job EXCEPT ![t].left = @ \ {id}]
                /\ UNCHANGED abandoned
             \/ Abandon(t) /\ UNCHANGED services
    BY <1>9 DEF ReconfigureEntry
  <2>3. id \in job[t].left
    BY <1>2, <2>1
  <2>4. ~IsScheduler(id) /\ ~IsScheduler(job[t].new[id].key)
    BY <2>1, <2>2, <2>3, LoadFacts
  <2>5. CASE Abandon(t) /\ UNCHANGED services
    BY <1>1, <2>1, <2>5, AbandonLoader DEF SchedulersOf
  <2>6. CASE /\ job[t].new[id].key \in DOMAIN services
             /\ services' = [services EXCEPT ![job[t].new[id].key].conf = job[t].new[id].conf]
             /\ job' = [job EXCEPT ![t].left = @ \ {id}]
             /\ UNCHANGED abandoned
    <3>0. PICK key, conf : key = job[t].new[id].key /\ conf = job[t].new[id].conf
      OBVIOUS
    <3>1. ServicesOK(services') /\ SchedulersOf(services') = SchedulersOf(services)
      <4>1. key \in DOMAIN services /\ ~IsScheduler(key)
        BY <2>4, <2>6, <3>0
      <4>2. services' = [services EXCEPT ![key].conf = conf]
        BY <2>6, <3>0
      <4>3. services' = WithConf(services, key, conf)
        BY <4>2 DEF WithConf
      <4> QED BY <1>1, <4>1, <4>3, NewConfFacts
    <3> QED BY <2>1, <2>3, <2>4, <2>6, <3>1, LeftDone
  <2> QED BY <2>2, <2>5, <2>6
<1>10. CASE KeepEntry(t)
  <2>1. /\ job[t].pc = "load" /\ UNCHANGED <<last, current, abandoned, services>>
    BY <1>10 DEF KeepEntry
  <2>2. PICK id \in Leasts(job[t].left) :
          ~IsNew(t, id) /\ job' = [job EXCEPT ![t].left = @ \ {id}]
    BY <1>10 DEF KeepEntry
  <2>3. id \in job[t].left
    BY <1>2, <2>1
  <2>4. IsScheduler(id) => id \in DOMAIN services'
    BY <1>1, <2>1, <2>2 DEF IsNew, JobOK, SchedulersOf, NoJob
  <2>5. ServicesOK(services') /\ SchedulersOf(services) \subseteq SchedulersOf(services')
    BY <1>1, <2>1 DEF SchedulersOf
  <2> QED BY <2>1, <2>2, <2>3, <2>4, <2>5, LeftDone
<1>11. CASE LoadThrows(t)
  <2>1. job[t].pc = "load" /\ UNCHANGED <<last, current>> /\ Abandon(t)
    BY <1>11 DEF LoadThrows
  <2>2. PICK id \in Leasts(job[t].left) : services' = KeptServices(t, id)
    BY <1>11 DEF LoadThrows
  <2>3. ServicesOK(services') /\ SchedulersOf(services') = SchedulersOf(services)
    BY <1>2, <2>1, <2>2, LoadFacts
  <2> QED BY <2>1, <2>3, AbandonLoader
<1>12. CASE RegisterThrows(t)
  <2>1. job[t].pc = "load" /\ UNCHANGED <<last, current>> /\ Abandon(t)
    BY <1>12 DEF RegisterThrows
  <2>2. PICK id \in Leasts(job[t].left) :
          /\ job[t].new[id].conf # ""
          /\ services' = LoadService(KeptServices(t, id), [job[t].new[id] EXCEPT !.conf = ""])
    BY <1>12 DEF RegisterThrows
  <2>3. /\ EntryOK(job[t].new[id]) /\ ServicesOK(KeptServices(t, id))
        /\ SchedulersOf(KeptServices(t, id)) = SchedulersOf(services)
    BY <1>2, <2>1, LoadFacts
  <2>4. EntryOK([job[t].new[id] EXCEPT !.conf = ""])
    BY <2>2, <2>3, NoFileEntry
  <2>5. ServicesOK(services') /\ SchedulersOf(services) \subseteq SchedulersOf(services')
    <3>1. PICK entry, servs :
            entry = [job[t].new[id] EXCEPT !.conf = ""] /\ servs = KeptServices(t, id)
      OBVIOUS
    <3>2. ServicesOK(servs) /\ EntryOK(entry) /\ services' = LoadService(servs, entry)
      BY <2>2, <2>3, <2>4, <3>1
    <3>3. ServicesOK(services') /\ SchedulersOf(servs) \subseteq SchedulersOf(services')
      BY <3>2, LoadServiceFacts
    <3> QED BY <2>3, <3>1, <3>3
  <2> QED BY <2>1, <2>5, AbandonLoader
<1>13. CASE ReconfigureThrows(t)
  <2>1. job[t].pc = "load" /\ UNCHANGED <<last, current>> /\ Abandon(t)
    BY <1>13 DEF ReconfigureThrows
  <2>2. PICK id \in Leasts(job[t].left) :
          /\ IsReconfigured(t, id) /\ job[t].new[id].key \in DOMAIN services
          /\ services' = [services EXCEPT ![job[t].new[id].key].conf = ""]
    BY <1>13 DEF ReconfigureThrows
  <2>3. ~IsScheduler(job[t].new[id].key)
    BY <1>2, <2>1, <2>2, LoadFacts
  <2>4. ServicesOK(services') /\ SchedulersOf(services') = SchedulersOf(services)
    <3>1. PICK key : key = job[t].new[id].key
      OBVIOUS
    <3>2. key \in DOMAIN services /\ ~IsScheduler(key)
      BY <2>2, <2>3, <3>1
    <3>3. services' = [services EXCEPT ![key].conf = ""]
      BY <2>2, <3>1
    <3>4. services' = WithConf(services, key, "")
      BY <3>3 DEF WithConf
    <3> QED BY <1>1, <3>2, <3>4, NewConfFacts
  <2> QED BY <2>1, <2>4, AbandonLoader
<1>14. CASE Commit(t)
  <2>1. /\ job[t].pc = "load" /\ job[t].left = {} /\ current' = job[t].new
        /\ job' = [job EXCEPT ![t] = NoJob] /\ UNCHANGED <<last, services, abandoned>>
    BY <1>14 DEF Commit
  <2>2. current' \in Full /\ SchedulersOf(current') \subseteq DOMAIN services'
    BY <1>1, <2>1 DEF JobOK
  <2>3. JobOK(NoJob, services')
    BY DEF JobOK, NoJob
  <2> QED BY <1>1, <2>1, <2>2, <2>3, LoaderStep DEF LoaderInv, SchedulersOf
<1> QED BY <1>3, <1>4, <1>5, <1>6, <1>7, <1>8, <1>9, <1>10, <1>11, <1>12, <1>13, <1>14
        DEF JobStep

(* Every step keeps the Loader's invariant.                                *)
LEMMA LoaderNext ==
  LoaderInv /\ [DaemonNext]_<<vars, daemonVars>> => LoaderInv'
<1> SUFFICES ASSUME LoaderInv, [DaemonNext]_<<vars, daemonVars>> PROVE LoaderInv'
  OBVIOUS
<1>1. CASE UNCHANGED <<vars, daemonVars>>
  BY <1>1 DEF LoaderInv, daemonVars
<1>2. ASSUME NEW t \in Threads, NEW cfg \in Configs, Update(t, cfg) PROVE LoaderInv'
  BY <1>2, UpdateLoader
<1>3. ASSUME NEW t \in Threads, JobStep(t) PROVE LoaderInv'
  BY <1>3, JobStepLoader
<1> QED BY <1>1, <1>2, <1>3 DEF DaemonNext

-----------------------------------------------------------------------------
(* An update is a client of the chain                                      *)

DaemonIndInv == Inv /\ LoaderInv /\ UpdInv

(* A step of the rebuild of thread t disturbs no other one, except that a  *)
(* failed assertion ends all.                                              *)
LEMMA ChainStepUpd ==
  ASSUME TypeOK, NEW t \in Threads, UpdateChainStep(t)
  PROVE  /\ upd[t] # Idle
         /\ \A u \in Threads \ {t} : upd'[u] \in {upd[u], Idle}
<1>1. upd = [u \in Threads |-> upd[u]]
  BY DEF TypeOK
<1>2. Idle.pc = "idle"
  BY DEF Idle
<1>3. upd[t] # Idle
  BY <1>2 DEF UpdateChainStep, AllocateChain, EnterUpdateChain, ClearIds, AssertStartIndex,
       SkipNic, EnterNic, WriteId, LeaveNic, ReturnUpdateChain
<1>4. \A u \in Threads \ {t} : upd'[u] \in {upd[u], Idle}
  <2>3. CASE AllocateChain(t)
    BY <1>1, <2>3 DEF AllocateChain
  <2>4. CASE EnterUpdateChain(t)
    BY <1>1, <2>4 DEF EnterUpdateChain, Return
  <2>5. CASE ClearIds(t)
    BY <1>1, <2>5 DEF ClearIds
  <2>6. CASE \E i \in Ifindexes : AssertStartIndex(t, i) \/ SkipNic(t, i) \/ EnterNic(t, i)
    BY <1>1, <2>6 DEF AssertStartIndex, Die, SkipNic, EnterNic
  <2>7. CASE WriteId(t)
    BY <1>1, <2>7 DEF WriteId, Return
  <2>8. CASE LeaveNic(t)
    BY <1>1, <2>8 DEF LeaveNic
  <2>9. CASE ReturnUpdateChain(t)
    BY <1>1, <2>9 DEF ReturnUpdateChain, Return
  <2> QED BY <2>3, <2>4, <2>5, <2>6, <2>7, <2>8, <2>9 DEF UpdateChainStep
<1> QED BY <1>3, <1>4

(* The sorted vectors of a configuration fit in the bound of the chain.    *)
LEMMA SortedVecsFit ==
  ASSUME NEW cfg \in Configs, NEW h \in Hooks, NEW vec \in SortedVecs(cfg, h)
  PROVE  vec \in Vecs
<1> DEFINE ids == {id \in DOMAIN cfg : cfg[id].hook = h}
           n == Cardinality(ids)
<1>1. PICK s \in [1..n -> ids] :
        vec = [k \in 1..n |-> <<NameOf(cfg[s[k]]), cfg[s[k]].ifindex>>]
  BY DEF SortedVecs
<1>2. n \in Nat /\ n <= MaxVec
  <2>1. ids \subseteq DOMAIN cfg /\ IsFiniteSet(DOMAIN cfg) /\ Cardinality(DOMAIN cfg) <= MaxVec
    BY ConfigFacts
  <2>2. /\ IsFiniteSet(ids) /\ Cardinality(ids) <= Cardinality(DOMAIN cfg)
    BY <2>1, FS_Subset
  <2>3. Cardinality(ids) \in Nat /\ Cardinality(DOMAIN cfg) \in Nat
    BY <2>1, <2>2, FS_CardinalityType
  <2> QED BY <2>1, <2>2, <2>3, ConstantsAssumption
<1> HIDE DEF n
<1>3. ASSUME NEW k \in 1..n
      PROVE  <<NameOf(cfg[s[k]]), cfg[s[k]].ifindex>> \in Pairs
  <2>1. s[k] \in DOMAIN cfg
    OBVIOUS
  <2>2. NameOf(cfg[s[k]]) \in Names /\ cfg[s[k]].ifindex \in Ifindexes
    BY <2>1, ConfigFacts
  <2> QED BY <2>2 DEF Pairs
<1>4. vec \in [1..n -> Pairs]
  BY <1>1, <1>3
<1> QED BY <1>2, <1>4, ConstantsAssumption DEF Vecs

(* Every step of Daemon is a step of the chain or leaves it alone.         *)
LEMMA DaemonStepIsChainStep ==
  DaemonIndInv /\ [DaemonNext]_<<vars, daemonVars>> => [Next]_vars
<1> SUFFICES ASSUME DaemonIndInv, DaemonNext PROVE [Next]_vars
  BY DEF vars
<1>1. ASSUME NEW t \in Threads, NEW cfg \in Configs, Update(t, cfg) PROVE [Next]_vars
  BY <1>1 DEF Update
<1>2. ASSUME NEW t \in Threads, JobStep(t) PROVE [Next]_vars
  <2>1. CASE RebuildHook(t)
    <3>0. PICK h \in job[t].hooks : \E vec \in SortedVecs(job[t].new, h) : RebuildChain(t, h, vec)
      BY <2>1 DEF RebuildHook
    <3>1. PICK vec \in SortedVecs(job[t].new, h) : RebuildChain(t, h, vec)
      BY <3>0
    <3>2. JobOK(job[t], services) /\ job[t].pc = "chains"
      BY <2>1 DEF DaemonIndInv, LoaderInv, RebuildHook
    <3>3. h \in Hooks /\ job[t].new \in Configs
      BY <3>2, JobFacts DEF JobOK, NoJob
    <3>4. vec \in Vecs
      BY <3>3, SortedVecsFit
    <3> QED BY <3>1, <3>3, <3>4 DEF Next
  <2>2. CASE ChainStep(t)
    BY <2>2 DEF ChainStep, Next
  <2>3. CASE LoadEntry(t)
    <3>1. job[t].pc = "load" /\ alive /\ UNCHANGED <<alive, regions, idHash, upd>>
      BY <2>3 DEF LoadEntry
    <3>2. PICK id \in Leasts(job[t].left) : LoadedProg(KeptServices(t, id), job[t].new[id])
      BY <2>3 DEF LoadEntry
    <3>3. PICK e : e = job[t].new[id]
      OBVIOUS
    <3>4. upd[t] = Idle
      BY <3>1 DEF DaemonIndInv, UpdInv
    <3>5. EntryOK(e) /\ NameOf(e) \in Names
      BY <3>1, <3>3, LoadFacts DEF Leasts, DaemonIndInv
    <3>6. e.hook \in Hooks /\ e.ifindex \in Ifindexes
      BY <3>5 DEF EntryOK, IsEntry
    <3>7. UNCHANGED progArray \/ InsertProgEffect(e.hook, NameOf(e), e.ifindex)
      BY <3>2, <3>3 DEF LoadedProg
    <3>8. CASE UNCHANGED progArray
      BY <3>1, <3>8 DEF vars
    <3>9. CASE InsertProgEffect(e.hook, NameOf(e), e.ifindex)
      <4>1. InsertProg(t, e.hook, NameOf(e), e.ifindex)
        BY <3>1, <3>4, <3>9 DEF InsertProg
      <4> QED BY <3>5, <3>6, <4>1 DEF Next
    <3> QED BY <3>7, <3>8, <3>9
  <2>4. CASE UNCHANGED vars
    BY <2>4
  <2> QED BY <1>2, <2>1, <2>2, <2>3, <2>4 DEF JobStep, FindUnloads, UnloadEntry, AddSchedulers,
          ReconfigureEntry, KeepEntry, LoadThrows, RegisterThrows, ReconfigureThrows, Commit
<1> QED BY <1>1, <1>2 DEF DaemonNext

(* Only the first part of an update is in a rebuild.                       *)
LEMMA UpdStep ==
  DaemonIndInv /\ [DaemonNext]_<<vars, daemonVars>> => UpdInv'
<1> SUFFICES ASSUME DaemonIndInv, DaemonNext PROVE UpdInv'
  BY DEF DaemonIndInv, UpdInv, vars, daemonVars
<1>1. /\ TypeOK /\ LoaderInv /\ UpdInv
      /\ upd = [t \in Threads |-> upd[t]] /\ job = [t \in Threads |-> job[t]]
  BY DEF DaemonIndInv, Inv, LoaderInv, TypeOK
<1>2. ASSUME NEW t \in Threads, upd' = upd, upd[t] = Idle,
             \A u \in Threads \ {t} : job'[u] = job[u]
      PROVE  UpdInv'
  BY <1>1, <1>2 DEF UpdInv
<1>3. ASSUME NEW t \in Threads, NEW cfg \in Configs, Update(t, cfg) PROVE UpdInv'
  <2>1. job[t].pc = "idle"
    BY <1>3 DEF Update, NoJob
  <2>2. upd[t] = Idle
    BY <1>1, <2>1 DEF UpdInv
  <2>3. upd' = upd /\ \A u \in Threads \ {t} : job'[u] = job[u]
    BY <1>1, <1>3 DEF Update, vars
  <2> QED BY <1>2, <2>2, <2>3
<1>4. ASSUME NEW t \in Threads, JobStep(t) PROVE UpdInv'
  <2>1. CASE RebuildHook(t)
    <3>1. PICK h \in job[t].hooks : job' = [job EXCEPT ![t].hooks = @ \ {h}]
      BY <2>1 DEF RebuildHook
    <3>2. job[t].pc = "chains" /\ JobOK(job[t], services)
      BY <1>1, <2>1 DEF RebuildHook, LoaderInv
    <3>3. job[t] \in Jobs
      BY <3>2, JobFacts DEF NoJob
    <3>4. job'[t].pc = "chains" /\ \A u \in Threads \ {t} : job'[u] = job[u]
      BY <1>1, <3>1, <3>2, <3>3 DEF Jobs
    <3>5. \A u \in Threads \ {t} : upd'[u] = upd[u]
      BY <1>1, <2>1 DEF RebuildHook, RebuildChain
    <3> QED BY <1>1, <3>4, <3>5 DEF UpdInv
  <2>2. CASE ChainStep(t)
    <3>1. UpdateChainStep(t) /\ job' = job
      BY <2>2 DEF ChainStep, daemonVars
    <3>2. /\ upd[t] # Idle
          /\ \A u \in Threads \ {t} : upd'[u] \in {upd[u], Idle}
      BY <1>1, <3>1, ChainStepUpd
    <3> QED BY <1>1, <3>1, <3>2 DEF UpdInv
  <2>3. CASE ~RebuildHook(t) /\ ~ChainStep(t)
    <3>1. upd[t] = Idle
      BY <1>1, <1>4, <2>3 DEF UpdInv, JobStep, FindUnloads, UnloadEntry, AddSchedulers, LoadEntry,
          ReconfigureEntry, KeepEntry, LoadThrows, RegisterThrows, ReconfigureThrows, Commit
    <3>2. upd' = upd
      BY <1>4, <2>3 DEF JobStep, FindUnloads, UnloadEntry, AddSchedulers, LoadEntry, vars,
          ReconfigureEntry, KeepEntry, LoadThrows, RegisterThrows, ReconfigureThrows, Commit
    <3>3. \A u \in Threads \ {t} : job'[u] = job[u]
      BY <1>1, <1>4, <2>3 DEF JobStep, FindUnloads, UnloadEntry, AddSchedulers, LoadEntry, Abandon,
          ReconfigureEntry, KeepEntry, LoadThrows, RegisterThrows, ReconfigureThrows, Commit
    <3> QED BY <1>2, <3>1, <3>2, <3>3
  <2> QED BY <2>1, <2>2, <2>3
<1> QED BY <1>3, <1>4 DEF DaemonNext

(* A daemon that has seen no configuration.                                *)
LEMMA DaemonInitInv == DaemonInit => DaemonIndInv
<1> SUFFICES ASSUME DaemonInit PROVE DaemonIndInv
  OBVIOUS
<1>1. Inv
  BY InitInv DEF DaemonInit
<1>2. ServicesOK(services)
  BY DEF DaemonInit, ServicesOK
<1>3. \A t \in Threads : job[t] = NoJob /\ upd[t] = Idle
  BY DEF DaemonInit, Init
<1>4. \A t \in Threads : JobOK(job[t], services)
  BY <1>3 DEF JobOK, NoJob
<1>5. SchedulersOf(current) = {}
  BY NoConfigFacts DEF DaemonInit, SchedulersOf
<1>6. LoaderInv
  BY <1>2, <1>4, <1>5 DEF DaemonInit, LoaderInv, Full
<1> QED BY <1>1, <1>3, <1>6 DEF DaemonIndInv, UpdInv

(* Every step keeps the invariant: the chain, the Loader and the updates.  *)
LEMMA DaemonNextInv ==
  DaemonIndInv /\ [DaemonNext]_<<vars, daemonVars>> => DaemonIndInv'
BY DaemonStepIsChainStep, NextInv, LoaderNext, UpdStep DEF DaemonIndInv

(* Daemon::update uses the chain as its interface allows: whatever the     *)
(* threads, configurations and failures, the calls it makes are rebuilds   *)
(* and insertions of ProgChain (daemon.cc 121-151, 191-218), so that what  *)
(* holds of every client of the chain holds here.                          *)
THEOREM DaemonImplementsChain == DaemonSpec => Spec
<1>1. DaemonInit => Init
  BY DEF DaemonInit
<1> QED BY <1>1, DaemonInitInv, DaemonNextInv, DaemonStepIsChainStep, PTL DEF DaemonSpec, Spec

(* Every state of every update, abandoned or not, has its types, indexes   *)
(* of the chain that are valid, and a scheduler on every hook and          *)
(* interface of the current configuration: any number of threads that run  *)
(* update at the same time (daemon.cc 100-219, loader.cc 26-172), as long  *)
(* as prog_array has a region for every interface.                         *)
THEOREM DaemonSafety ==
  ASSUME NicsFit
  PROVE  DaemonSpec => []DaemonInv
<1>1. DaemonIndInv => DaemonTypeOK
  <2> SUFFICES ASSUME DaemonIndInv PROVE DaemonTypeOK
    OBVIOUS
  <2>1. TypeOK /\ LoaderInv
    BY DEF DaemonIndInv, Inv
  <2>2. WithoutSchedulers(current) \in Configs \cup {NoConfig}
    BY <2>1, FullFacts DEF LoaderInv
  <2>3. \A t \in Threads : job[t].pc \in {"idle", "chains", "unload", "load"}
    BY <2>1, JobFacts DEF LoaderInv
  <2>4. ASSUME NEW k \in DOMAIN services
        PROVE  services[k].hook \in Hooks /\ services[k].ifindex \in Ifindexes
    <3>1. IsHandle(services[k])
      BY <2>1 DEF LoaderInv, ServicesOK
    <3> QED BY <3>1 DEF IsHandle
  <2> QED BY <2>1, <2>2, <2>3, <2>4 DEF LoaderInv, DaemonTypeOK
<1>2. DaemonIndInv => SchedulerPerHookAndNic
  <2> SUFFICES ASSUME DaemonIndInv, NEW id \in DOMAIN current
               PROVE  SchedulerKey(current[id].hook, current[id].ifindex) \in DOMAIN services
    BY DEF SchedulerPerHookAndNic
  <2>1. current \in Full /\ SchedulersOf(current) \subseteq DOMAIN services
    BY DEF DaemonIndInv, LoaderInv
  <2>2. PICK h, i : h = current[id].hook /\ i = current[id].ifindex
    OBVIOUS
  <2>3. SchedulerId(h, i) \in DOMAIN current /\ h \in Hooks
    <3>1. EntryOK(current[id]) /\ SchedulerId(h, i) \in DOMAIN current
      BY <2>1, <2>2, FullFacts
    <3> QED BY <2>2, <3>1 DEF EntryOK, IsEntry
  <2>4. IsScheduler(SchedulerId(h, i))
    BY <2>3, DaemonAssumption DEF IsScheduler, SchedulerId
  <2>5. SchedulerKey(h, i) = SchedulerId(h, i)
    BY DEF SchedulerKey, SchedulerId
  <2> QED BY <2>1, <2>2, <2>3, <2>4, <2>5 DEF SchedulersOf
<1>3. DaemonSpec => []StartIndexAssertion
  BY DaemonImplementsChain, EveryNicHasRegion
<1> QED BY <1>1, <1>2, <1>3, DaemonInitInv, DaemonNextInv, PTL DEF DaemonSpec, DaemonInv

-----------------------------------------------------------------------------
(* What is loaded is what is configured                                    *)

(* Configurations are delivered by one thread, the one of the io loop.     *)
OneThread == \E t \in Threads : Threads = {t}

(* A library is configured once, and an edit does not give it another id.  *)
KeysKeepIds ==
  /\ \A cfg \in Configs : \A i, j \in DOMAIN cfg : cfg[i].key = cfg[j].key => i = j
  /\ \A old, new \in Configs \cup {NoConfig} : <<old, new>> \in Follows =>
       \A i \in DOMAIN old, j \in DOMAIN new : old[i].key = new[j].key => i = j

(* The entries that are loaded at this point of the job j: all of now, the *)
(* current ones, until what is no longer configured is unloaded, and then  *)
(* one after the other of the new ones takes the place of the old one.     *)
Held(j, now) ==
  LET done == IF j.pc = "load" THEN DOMAIN j.new \ j.left ELSE {}
      kept == {id \in DOMAIN j.cur :
                 \/ IsScheduler(id) \/ id \in j.left \/ j.pc = "chains"
                 \/ j.pc = "unload" /\ id \in DOMAIN j.new}
  IN  IF j = NoJob THEN now
      ELSE [id \in done \cup kept |-> IF id \in done THEN j.new[id] ELSE j.cur[id]]

(* The entries of held, and no others but schedulers, are loaded.          *)
Match(held, servs) ==
  /\ \A id \in DOMAIN held :
       /\ held[id].key \in DOMAIN servs
       /\ servs[held[id].key] = Handle(held[id], held[id].conf)
  /\ \A k \in DOMAIN servs : IsScheduler(k) \/ \E id \in DOMAIN held : held[id].key = k

MatchInv ==
  ~abandoned =>
    \A t \in Threads :
      /\ Match(Held(job[t], current), services)
      /\ job[t] = NoJob => WithoutSchedulers(current) = last
      /\ job[t] # NoJob => /\ WithoutSchedulers(job[t].new) = last
                           /\ <<WithoutSchedulers(job[t].cur), last>> \in Follows

(* Entries that need no other handle.                                      *)
Alike(e, f) ==
  e.key = f.key /\ e.hook = f.hook /\ e.ifindex = f.ifindex /\ e.conf = f.conf

(* Handles fit entries that differ in what a handle does not show.         *)
LEMMA MatchAlike ==
  ASSUME NEW held, NEW other, NEW servs, Match(held, servs),
         DOMAIN other = DOMAIN held, \A id \in DOMAIN held : Alike(held[id], other[id])
  PROVE  Match(other, servs)
BY DEF Match, Alike, Handle

(* Unloading the library of an entry.                                      *)
LEMMA MatchUnload ==
  ASSUME NEW held, NEW servs, Match(held, servs), ServicesOK(servs), NEW id \in DOMAIN held,
         ~IsScheduler(held[id].key),
         \A i, j \in DOMAIN held : held[i].key = held[j].key => i = j,
         NEW other, DOMAIN other = DOMAIN held \ {id},
         \A i \in DOMAIN other : other[i] = held[i]
  PROVE  Match(other, UnloadService(servs, held[id].key))
<1>1. PICK key : key = held[id].key
  OBVIOUS
<1>2. PICK out : out = UnloadService(servs, key)
  OBVIOUS
<1>3. DOMAIN out = DOMAIN servs \ {key} /\ \A k \in DOMAIN servs \ {key} : out[k] = servs[k]
  BY <1>2 DEF UnloadService, Restricted
<1>4. Match(other, out)
  BY <1>1, <1>3 DEF Match
<1> QED BY <1>1, <1>2, <1>4

(* Loading an entry whose library is not among the others.                 *)
LEMMA MatchLoad ==
  ASSUME NEW held, NEW servs, Match(held, servs), ServicesOK(servs), NEW id, NEW entry,
         EntryOK(entry), IsScheduler(entry.key) <=> IsScheduler(id), id \notin DOMAIN held,
         ~IsScheduler(id) => \A i \in DOMAIN held : held[i].key # entry.key,
         NEW other, DOMAIN other = DOMAIN held \cup {id},
         \A i \in DOMAIN held : other[i] = held[i], other[id] = entry
  PROVE  Match(other, LoadService(servs, entry))
<1>1. PICK out : out = LoadService(servs, entry)
  OBVIOUS
<1>2. /\ DOMAIN out = DOMAIN servs \cup {entry.key}
      /\ \A k \in DOMAIN servs : out[k] = servs[k]
      /\ entry.key \notin DOMAIN servs => out[entry.key] = Handle(entry, entry.conf)
  BY <1>1 DEF LoadService
<1>3. out[entry.key] = Handle(entry, entry.conf)
  <2>1. CASE entry.key \notin DOMAIN servs
    BY <1>2, <2>1
  <2>2. CASE entry.key \in DOMAIN servs
    <3>1. IsScheduler(entry.key)
      BY <2>2 DEF Match
    <3>2. servs[entry.key] = Handle(SchedulerEntry(entry.key[2], entry.key[3]), "")
      BY <2>2, <3>1 DEF ServicesOK
    <3>3. entry = SchedulerEntry(entry.key[2], entry.key[3])
      BY <3>1 DEF EntryOK
    <3>4. SchedulerEntry(entry.key[2], entry.key[3]).conf = ""
      BY DEF SchedulerEntry
    <3>5. entry.conf = ""
      BY <3>3, <3>4
    <3> QED BY <1>2, <2>2, <3>2, <3>3, <3>5
  <2> QED BY <2>1, <2>2
<1>4. ASSUME NEW i \in DOMAIN other
      PROVE  other[i].key \in DOMAIN out /\ out[other[i].key] = Handle(other[i], other[i].conf)
  <2>1. CASE i = id
    BY <1>2, <1>3, <2>1
  <2>2. CASE i # id
    BY <1>2, <2>2 DEF Match
  <2> QED BY <2>1, <2>2
<1>5. \A k \in DOMAIN out : IsScheduler(k) \/ \E i \in DOMAIN other : other[i].key = k
  BY <1>2 DEF Match
<1>6. Match(other, out)
  BY <1>4, <1>5 DEF Match
<1> QED BY <1>1, <1>6

(* An entry is given another configuration file.                           *)
LEMMA MatchReconfigure ==
  ASSUME NEW held, NEW servs, Match(held, servs), ServicesOK(servs), NEW id \in DOMAIN held,
         ~IsScheduler(held[id].key),
         \A i, j \in DOMAIN held : held[i].key = held[j].key => i = j,
         NEW entry, entry.key = held[id].key, entry.hook = held[id].hook,
         entry.ifindex = held[id].ifindex,
         NEW other, DOMAIN other = DOMAIN held,
         \A i \in DOMAIN held \ {id} : other[i] = held[i], other[id] = entry
  PROVE  Match(other, WithConf(servs, entry.key, entry.conf))
<1>1. PICK out, key : out = WithConf(servs, key, entry.conf) /\ key = entry.key
  OBVIOUS
<1>2. key \in DOMAIN servs /\ ~IsScheduler(key) /\ servs[key] = Handle(held[id], held[id].conf)
  BY <1>1 DEF Match
<1>3. /\ DOMAIN out = DOMAIN servs
      /\ \A k \in DOMAIN servs \ {key} : out[k] = servs[k]
      /\ out[key] = [hook |-> servs[key].hook, ifindex |-> servs[key].ifindex,
                     conf |-> entry.conf]
  BY <1>1, <1>2, NewConfFacts
<1>4. servs[key].hook = entry.hook /\ servs[key].ifindex = entry.ifindex
  BY <1>2 DEF Handle
<1>5. out[key] = Handle(entry, entry.conf)
  BY <1>3, <1>4 DEF Handle
<1>6. ASSUME NEW i \in DOMAIN other
      PROVE  other[i].key \in DOMAIN out /\ out[other[i].key] = Handle(other[i], other[i].conf)
  <2>1. CASE i = id
    BY <1>1, <1>2, <1>3, <1>5, <2>1
  <2>2. CASE i # id
    <3>1. other[i] = held[i] /\ held[i].key # key /\ held[i].key \in DOMAIN servs
      BY <1>1, <2>2 DEF Match
    <3> QED BY <1>3, <3>1 DEF Match
  <2> QED BY <2>1, <2>2
<1>7. \A k \in DOMAIN out : IsScheduler(k) \/ \E i \in DOMAIN other : other[i].key = k
  <2> SUFFICES ASSUME NEW k \in DOMAIN out, ~IsScheduler(k)
               PROVE  \E i \in DOMAIN other : other[i].key = k
    OBVIOUS
  <2>1. PICK i \in DOMAIN held : held[i].key = k
    BY <1>3 DEF Match
  <2>2. other[i].key = k
    BY <2>1
  <2> QED BY <2>2
<1>8. Match(other, out)
  BY <1>6, <1>7 DEF Match
<1> QED BY <1>1, <1>8

(* The ids and keys of a configuration, with or without schedulers.        *)
LEMMA EntriesFacts ==
  ASSUME NEW cfg \in Configs \cup Full
  PROVE  /\ WithoutSchedulers(cfg) \in Configs \cup {NoConfig}
         /\ \A id \in DOMAIN cfg :
              /\ IsScheduler(cfg[id].key) <=> IsScheduler(id)
              /\ IsScheduler(id) => cfg[id].key = id
              /\ ~IsScheduler(id) => /\ id \in DOMAIN WithoutSchedulers(cfg)
                                     /\ WithoutSchedulers(cfg)[id] = cfg[id]
         /\ cfg \in Configs => WithoutSchedulers(cfg) = cfg
<1>1. WithoutSchedulers(cfg) = [id \in {x \in DOMAIN cfg : ~IsScheduler(x)} |-> cfg[id]]
  BY DEF WithoutSchedulers, Restricted
<1>2. \A id \in DOMAIN cfg : ~IsScheduler(id) => /\ id \in DOMAIN WithoutSchedulers(cfg)
                                                 /\ WithoutSchedulers(cfg)[id] = cfg[id]
  BY <1>1
<1>3. CASE cfg \in Full
  <2>1. cfg \in Configs => WithoutSchedulers(cfg) = cfg
    <3> SUFFICES ASSUME cfg \in Configs PROVE WithoutSchedulers(cfg) = cfg
      OBVIOUS
    <3>1. {x \in DOMAIN cfg : ~IsScheduler(x)} = DOMAIN cfg
      BY ConfigFacts
    <3>2. cfg = [id \in DOMAIN cfg |-> cfg[id]]
      BY ConfigFacts
    <3> QED BY <1>1, <3>1, <3>2
  <2> QED BY <1>2, <1>3, <2>1, FullFacts
<1>4. CASE cfg \in Configs
  <2>1. {x \in DOMAIN cfg : ~IsScheduler(x)} = DOMAIN cfg
    BY <1>4, ConfigFacts
  <2>2. cfg = [id \in DOMAIN cfg |-> cfg[id]]
    BY <1>4, ConfigFacts
  <2>3. WithoutSchedulers(cfg) = cfg
    BY <1>1, <2>1, <2>2
  <2> QED BY <1>2, <1>4, <2>3, ConfigFacts
<1> QED BY <1>3, <1>4

(* Two entries of the configurations of an update have the same library    *)
(* only under the same id.                                                 *)
LEMMA KeysDistinct ==
  ASSUME KeysKeepIds, NEW cur \in Full, NEW new \in Configs \cup Full,
         <<WithoutSchedulers(cur), WithoutSchedulers(new)>> \in Follows
  PROVE  /\ \A i, j \in DOMAIN cur : cur[i].key = cur[j].key => i = j
         /\ \A i, j \in DOMAIN new : new[i].key = new[j].key => i = j
         /\ \A i \in DOMAIN cur, j \in DOMAIN new : cur[i].key = new[j].key => i = j
<1>1. \A cfg \in Configs \cup {NoConfig} : \A i, j \in DOMAIN cfg :
        cfg[i].key = cfg[j].key => i = j
  BY NoConfigFacts DEF KeysKeepIds
<1>2. \A i, j \in DOMAIN cur : cur[i].key = cur[j].key => i = j
  BY <1>1, EntriesFacts
<1>3. \A i, j \in DOMAIN new : new[i].key = new[j].key => i = j
  BY <1>1, EntriesFacts
<1>4. ASSUME NEW i \in DOMAIN cur, NEW j \in DOMAIN new, cur[i].key = new[j].key
      PROVE  i = j
  <2>1. CASE IsScheduler(i)
    BY <1>4, <2>1, EntriesFacts
  <2>2. CASE IsScheduler(j)
    BY <1>4, <2>2, EntriesFacts
  <2>3. CASE ~IsScheduler(i) /\ ~IsScheduler(j)
    <3>1. PICK c, d : c = WithoutSchedulers(cur) /\ d = WithoutSchedulers(new)
      OBVIOUS
    <3>2. c \in Configs \cup {NoConfig} /\ i \in DOMAIN c /\ c[i] = cur[i]
      BY <2>3, <3>1, EntriesFacts
    <3>3. d \in Configs \cup {NoConfig} /\ j \in DOMAIN d /\ d[j] = new[j]
      BY <2>3, <3>1, EntriesFacts
    <3>4. <<c, d>> \in Follows
      BY <3>1
    <3> QED BY <1>4, <3>2, <3>3, <3>4 DEF KeysKeepIds
  <2> QED BY <2>1, <2>2, <2>3
<1> QED BY <1>2, <1>3, <1>4

(* A job in progress is not NoJob.                                         *)
LEMMA InUpdate == \A j \in Jobs : j # NoJob
BY DEF Jobs, NoJob

(* What is done for one id of the loops over the old and the new entries.  *)
DoneWith(t, id) ==
  \/ /\ job[t].pc = "unload"
     /\ services' = UnloadService(services, job[t].cur[id].key)
  \/ /\ job[t].pc = "load" /\ (IsNew(t, id) \/ IsMoved(t, id))
     /\ services' = LoadService(KeptServices(t, id), job[t].new[id])
  \/ /\ job[t].pc = "load" /\ IsReconfigured(t, id)
     /\ services' = WithConf(services, job[t].new[id].key, job[t].new[id].conf)
  \/ /\ job[t].pc = "load" /\ services' = services
     /\ ~IsNew(t, id) /\ ~IsMoved(t, id) /\ ~IsReconfigured(t, id)

(* An entry that is done leaves the handles as the rest of the job         *)
(* expects.                                                                *)
LEMMA MatchLeft ==
  ASSUME KeysKeepIds, LoaderInv, NEW t \in Threads, NEW j \in Jobs, j = job[t],
         NEW now, NEW next, Match(Held(j, now), services),
         WithoutSchedulers(j.new) = last, <<WithoutSchedulers(j.cur), last>> \in Follows,
         NEW id \in j.left, NEW jj, jj = [j EXCEPT !.left = @ \ {id}], DoneWith(t, id)
  PROVE  Match(Held(jj, next), services')
<1>1. PICK held, other : held = Held(j, now) /\ other = Held(jj, next)
  OBVIOUS
<1>2. /\ jj \in Jobs /\ jj.pc = j.pc /\ jj.cur = j.cur /\ jj.new = j.new
      /\ jj.left = j.left \ {id} /\ j.cur \in Full /\ j.new \in Configs \cup Full
  BY DEF Jobs
<1>3. /\ \A a, b \in DOMAIN j.cur : j.cur[a].key = j.cur[b].key => a = b
      /\ \A a, b \in DOMAIN j.new : j.new[a].key = j.new[b].key => a = b
      /\ \A a \in DOMAIN j.cur, b \in DOMAIN j.new : j.cur[a].key = j.new[b].key => a = b
  BY <1>2, KeysDistinct
<1>4. \A a \in DOMAIN held : \/ a \in DOMAIN j.cur /\ held[a] = j.cur[a]
                             \/ a \in DOMAIN j.new /\ held[a] = j.new[a]
  <2>1. CASE j.pc = "chains"
    BY <1>1, <2>1, InUpdate DEF Held
  <2>2. CASE j.pc = "unload"
    BY <1>1, <2>2, InUpdate DEF Held
  <2>3. CASE j.pc = "load"
    <3>1. /\ DOMAIN held = (DOMAIN j.new \ j.left) \cup
                             {a \in DOMAIN j.cur : IsScheduler(a) \/ a \in j.left}
          /\ \A a \in DOMAIN held :
               held[a] = IF a \in DOMAIN j.new \ j.left THEN j.new[a] ELSE j.cur[a]
      BY <1>1, <2>3, InUpdate DEF Held
    <3> QED BY <3>1
  <2> QED BY <2>1, <2>2, <2>3 DEF Jobs
<1>5. \A a, b \in DOMAIN held : held[a].key = held[b].key => a = b
  BY <1>3, <1>4
<1>6. JobOK(j, services) /\ ServicesOK(services) /\ Match(held, services)
  BY <1>1 DEF LoaderInv
<1>7. CASE j.pc = "unload" /\ services' = UnloadService(services, j.cur[id].key)
  <2>1. id \in DOMAIN j.cur \ DOMAIN j.new /\ ~IsScheduler(id) /\ ~IsScheduler(j.cur[id].key)
    BY <1>2, <1>6, <1>7, FullFacts DEF JobOK
  <2>2. id \in DOMAIN held /\ held[id] = j.cur[id]
    BY <1>1, <1>7, <2>1, InUpdate DEF Held
  <2>3. DOMAIN other = DOMAIN held \ {id} /\ \A a \in DOMAIN other : other[a] = held[a]
    <3>1. /\ DOMAIN held = {a \in DOMAIN j.cur :
                              IsScheduler(a) \/ a \in j.left \/ a \in DOMAIN j.new}
          /\ \A a \in DOMAIN held : held[a] = j.cur[a]
      BY <1>1, <1>7, InUpdate DEF Held
    <3>2. /\ DOMAIN other = {a \in DOMAIN jj.cur :
                               IsScheduler(a) \/ a \in jj.left \/ a \in DOMAIN jj.new}
          /\ \A a \in DOMAIN other : other[a] = jj.cur[a]
      BY <1>1, <1>2, <1>7, InUpdate DEF Held
    <3> QED BY <1>2, <2>1, <3>1, <3>2
  <2>4. Match(other, UnloadService(services, held[id].key))
    BY <1>5, <1>6, <2>1, <2>2, <2>3, MatchUnload
  <2> QED BY <1>1, <1>7, <2>2, <2>4
<1>8. ASSUME j.pc = "load"
      PROVE  /\ id \in DOMAIN j.new /\ DOMAIN other = DOMAIN held \cup {id}
             /\ other[id] = j.new[id] /\ \A a \in DOMAIN held \ {id} : other[a] = held[a]
             /\ id \in DOMAIN j.cur => id \in DOMAIN held /\ held[id] = j.cur[id]
             /\ id \notin DOMAIN j.cur => id \notin DOMAIN held
  <2>1. id \in DOMAIN j.new
    BY <1>6, <1>8 DEF JobOK
  <2>2. /\ DOMAIN held = (DOMAIN j.new \ j.left) \cup
                           {a \in DOMAIN j.cur : IsScheduler(a) \/ a \in j.left}
        /\ \A a \in DOMAIN held :
             held[a] = IF a \in DOMAIN j.new \ j.left THEN j.new[a] ELSE j.cur[a]
    BY <1>1, <1>8, InUpdate DEF Held
  <2>3. /\ DOMAIN other = (DOMAIN jj.new \ jj.left) \cup
                            {a \in DOMAIN jj.cur : IsScheduler(a) \/ a \in jj.left}
        /\ \A a \in DOMAIN other :
             other[a] = IF a \in DOMAIN jj.new \ jj.left THEN jj.new[a] ELSE jj.cur[a]
    <3>1. jj # NoJob /\ jj.pc = "load" /\ other = Held(jj, next)
      BY <1>1, <1>2, <1>8, InUpdate
    <3> QED BY <3>1, SMTT(30) DEF Held
  <2>4. DOMAIN other = (DOMAIN j.new \ (j.left \ {id})) \cup
                          {a \in DOMAIN j.cur : IsScheduler(a) \/ a \in j.left \ {id}}
    BY <1>2, <2>3
  <2>5. DOMAIN other = DOMAIN held \cup {id}
    BY <2>1, <2>2, <2>4
  <2>6. other[id] = j.new[id]
    BY <1>2, <2>1, <2>3, <2>5
  <2>7. \A a \in DOMAIN held \ {id} : other[a] = held[a]
    BY <1>2, <2>2, <2>3, <2>5
  <2>8. /\ id \in DOMAIN j.cur => id \in DOMAIN held /\ held[id] = j.cur[id]
        /\ id \notin DOMAIN j.cur => id \notin DOMAIN held
    BY <2>2
  <2> QED BY <2>1, <2>5, <2>6, <2>7, <2>8
<1>9. ASSUME j.pc = "load"
      PROVE  /\ EntryOK(j.new[id])
             /\ IsScheduler(j.new[id].key) <=> IsScheduler(id)
             /\ IsMoved(t, id) => ~IsScheduler(id) /\ ~IsScheduler(j.cur[id].key)
             /\ IsReconfigured(t, id) => ~IsScheduler(j.new[id].key)
  BY <1>9, LoadFacts
<1>10. CASE j.pc = "load" /\ IsNew(t, id)
            /\ services' = LoadService(KeptServices(t, id), j.new[id])
  <2>1. KeptServices(t, id) = services
    BY <1>10 DEF KeptServices, IsMoved
  <2>2. id \notin DOMAIN held
    BY <1>8, <1>10 DEF IsNew
  <2>3. \A a \in DOMAIN held : held[a].key # j.new[id].key
    BY <1>3, <1>4, <1>8, <1>10, <2>2
  <2>4. \A a \in DOMAIN held : other[a] = held[a]
    BY <1>8, <1>10, <2>2
  <2>5. PICK entry : entry = j.new[id]
    OBVIOUS
  <2>6. Match(other, LoadService(services, entry))
    <3>1. EntryOK(entry) /\ (IsScheduler(entry.key) <=> IsScheduler(id))
      BY <1>9, <1>10, <2>5
    <3>2. DOMAIN other = DOMAIN held \cup {id} /\ other[id] = entry
      BY <1>8, <1>10, <2>5
    <3>3. Match(held, services) /\ ServicesOK(services)
      BY <1>6
    <3>4. ~IsScheduler(id) => \A a \in DOMAIN held : held[a].key # entry.key
      BY <2>3, <2>5
    <3> QED BY <2>2, <2>4, <3>1, <3>2, <3>3, <3>4, MatchLoad, Zenon
  <2> QED BY <1>1, <1>10, <2>1, <2>5, <2>6
<1>11. CASE j.pc = "load" /\ IsMoved(t, id)
            /\ services' = LoadService(KeptServices(t, id), j.new[id])
  <2>1. id \in DOMAIN held /\ held[id] = j.cur[id]
    BY <1>8, <1>11 DEF IsMoved, IsNew
  <2>2. PICK servs : servs = UnloadService(services, held[id].key)
    OBVIOUS
  <2>3. KeptServices(t, id) = servs
    BY <1>11, <2>1, <2>2 DEF KeptServices
  <2>4. PICK rest : rest = [a \in DOMAIN held \ {id} |-> held[a]]
    OBVIOUS
  <2>5. DOMAIN rest = DOMAIN held \ {id} /\ \A a \in DOMAIN rest : rest[a] = held[a]
    BY <2>4
  <2>6. ~IsScheduler(id) /\ ~IsScheduler(held[id].key)
    BY <1>9, <1>11, <2>1
  <2>7. Match(rest, servs)
    BY <1>5, <1>6, <2>1, <2>2, <2>5, <2>6, MatchUnload
  <2>8. ServicesOK(servs)
    BY <1>6, <2>2, <2>6, UnloadServiceFacts
  <2>9. \A a \in DOMAIN rest : rest[a].key # j.new[id].key
    BY <1>3, <1>4, <1>8, <1>11, <2>5
  <2>10. PICK entry : entry = j.new[id]
    OBVIOUS
  <2>11. /\ DOMAIN other = DOMAIN rest \cup {id} /\ other[id] = entry
         /\ \A a \in DOMAIN rest : other[a] = rest[a]
    BY <1>8, <1>11, <2>5, <2>10
  <2>12. Match(other, LoadService(servs, entry))
    <3>1. EntryOK(entry) /\ (IsScheduler(entry.key) <=> IsScheduler(id))
      BY <1>9, <1>11, <2>10
    <3>2. id \notin DOMAIN rest /\ \A a \in DOMAIN rest : rest[a].key # entry.key
      BY <2>5, <2>9, <2>10
    <3> QED BY <2>7, <2>8, <2>11, <3>1, <3>2, MatchLoad
  <2> QED BY <1>1, <1>11, <2>3, <2>10, <2>12
<1>12. CASE j.pc = "load" /\ IsReconfigured(t, id)
            /\ services' = WithConf(services, j.new[id].key, j.new[id].conf)
  <2>1. id \in DOMAIN held /\ held[id] = j.cur[id]
    BY <1>8, <1>12 DEF IsReconfigured, IsNew
  <2>2. PICK entry : entry = j.new[id]
    OBVIOUS
  <2>3. /\ entry.key = held[id].key /\ entry.hook = held[id].hook
        /\ entry.ifindex = held[id].ifindex
    BY <1>12, <2>1, <2>2 DEF IsReconfigured, IsMoved
  <2>4. DOMAIN other = DOMAIN held /\ other[id] = entry
        /\ \A a \in DOMAIN held \ {id} : other[a] = held[a]
    BY <1>8, <1>12, <2>1, <2>2
  <2>5. ~IsScheduler(held[id].key)
    BY <1>9, <1>12, <2>2, <2>3
  <2>6. Match(other, WithConf(services, entry.key, entry.conf))
    BY <1>5, <1>6, <2>1, <2>3, <2>4, <2>5, MatchReconfigure
  <2> QED BY <1>1, <1>12, <2>2, <2>6
<1>13. CASE j.pc = "load" /\ services' = services
            /\ ~IsNew(t, id) /\ ~IsMoved(t, id) /\ ~IsReconfigured(t, id)
  <2>1. id \in DOMAIN held /\ held[id] = j.cur[id]
    BY <1>8, <1>13 DEF IsNew
  <2>2. Alike(held[id], j.new[id])
    BY <1>13, <2>1 DEF IsReconfigured, IsMoved, Alike
  <2>3. DOMAIN other = DOMAIN held /\ \A a \in DOMAIN held : Alike(held[a], other[a])
    BY <1>8, <1>13, <2>1, <2>2 DEF Alike
  <2>4. Match(other, services)
    BY <1>6, <2>3, MatchAlike
  <2> QED BY <1>1, <1>13, <2>4
<1> QED BY <1>7, <1>10, <1>11, <1>12, <1>13 DEF DoneWith

(* The invariant for the one thread, at a step that ends without an        *)
(* exception.                                                              *)
LEMMA MatchStep ==
  ASSUME KeysKeepIds, NEW t, Threads = {t}, LoaderInv, LoaderInv', MatchInv,
         ~abandoned, ~abandoned',
         JobStep(t) \/ \E cfg \in Configs : Update(t, cfg)
  PROVE  MatchInv'
<1>1. PICK j, jj, now, next :
        j = job[t] /\ jj = job'[t] /\ now = current /\ next = current'
  OBVIOUS
<1>2. /\ JobOK(j, services) /\ JobOK(jj, services') /\ ServicesOK(services)
      /\ now \in Full /\ job = [u \in Threads |-> job[u]] /\ t \in Threads
  BY <1>1 DEF LoaderInv
<1>3. PICK held, other : held = Held(j, now) /\ other = Held(jj, next)
  OBVIOUS
<1>4. /\ Match(held, services)
      /\ j = NoJob => WithoutSchedulers(now) = last
      /\ j # NoJob => /\ WithoutSchedulers(j.new) = last
                      /\ <<WithoutSchedulers(j.cur), last>> \in Follows
  BY <1>1, <1>3 DEF MatchInv
<1> SUFFICES /\ Match(other, services')
             /\ jj = NoJob => WithoutSchedulers(next) = last'
             /\ jj # NoJob => /\ WithoutSchedulers(jj.new) = last'
                              /\ <<WithoutSchedulers(jj.cur), last'>> \in Follows
  BY <1>1, <1>3 DEF MatchInv
<1>5. ASSUME NEW cfg \in Configs, Update(t, cfg)
      PROVE  /\ Match(other, services')
             /\ jj = NoJob => WithoutSchedulers(next) = last'
             /\ jj # NoJob => /\ WithoutSchedulers(jj.new) = last'
                              /\ <<WithoutSchedulers(jj.cur), last'>> \in Follows
  <2>1. /\ j = NoJob /\ <<last, cfg>> \in Follows /\ last' = cfg /\ services' = services
        /\ jj.pc = "chains" /\ jj.new = cfg /\ jj.cur = now /\ jj.left = {} 
    BY <1>1, <1>2, <1>5 DEF Update
  <2>2. jj \in Jobs
    BY <1>2, <2>1, JobFacts DEF NoJob
  <2>3. held = now
    BY <1>3, <2>1 DEF Held
  <2>4. DOMAIN other = DOMAIN now /\ \A id \in DOMAIN now : other[id] = now[id]
    BY <1>3, <2>1, <2>2, InUpdate DEF Held
  <2>5. Match(other, services)
    BY <1>4, <2>3, <2>4, MatchAlike DEF Alike
  <2>6. WithoutSchedulers(cfg) = cfg
    BY EntriesFacts
  <2> QED BY <1>4, <2>1, <2>2, <2>5, <2>6 DEF Jobs, NoJob
<1>6. ASSUME jj \in Jobs, j \in Jobs, services' = services, last' = last,
             jj.cur = j.cur, WithoutSchedulers(jj.new) = WithoutSchedulers(j.new),
             DOMAIN other = DOMAIN held, \A id \in DOMAIN held : Alike(held[id], other[id])
      PROVE  /\ Match(other, services')
             /\ jj = NoJob => WithoutSchedulers(next) = last'
             /\ jj # NoJob => /\ WithoutSchedulers(jj.new) = last'
                              /\ <<WithoutSchedulers(jj.cur), last'>> \in Follows
  <2>1. j # NoJob /\ jj # NoJob
    BY <1>6 DEF Jobs, NoJob
  <2>2. Match(other, services)
    BY <1>4, <1>6, MatchAlike
  <2> QED BY <1>4, <1>6, <2>1, <2>2
<1>7. CASE RebuildHook(t)
  <2>1. j \in Jobs /\ j.pc = "chains"
    BY <1>1, <1>2, <1>7, JobFacts DEF RebuildHook, NoJob
  <2>2. PICK h \in j.hooks : jj = [j EXCEPT !.hooks = @ \ {h}]
    BY <1>1, <1>2, <1>7 DEF RebuildHook
  <2>3. jj \in Jobs /\ jj.pc = j.pc /\ jj.new = j.new /\ jj.cur = j.cur /\ jj.left = j.left
    BY <2>1, <2>2 DEF Jobs
  <2>4. DOMAIN other = DOMAIN held /\ \A id \in DOMAIN held : Alike(held[id], other[id])
    <3>1. DOMAIN held = DOMAIN j.cur /\ \A id \in DOMAIN held : held[id] = j.cur[id]
      BY <1>3, <2>1, InUpdate DEF Held
    <3>2. DOMAIN other = DOMAIN jj.cur /\ \A id \in DOMAIN other : other[id] = jj.cur[id]
      BY <1>3, <2>1, <2>3, InUpdate DEF Held
    <3> QED BY <2>3, <3>1, <3>2 DEF Alike
  <2> QED BY <1>6, <1>7, <2>1, <2>3, <2>4 DEF RebuildHook
<1>8. CASE ChainStep(t)
  <2>1. j = jj /\ now = next /\ services' = services /\ last' = last
    BY <1>1, <1>8 DEF ChainStep, daemonVars
  <2> QED BY <1>3, <1>4, <2>1
<1>9. CASE FindUnloads(t)
  <2>1. j \in Jobs /\ j.pc = "chains"
    BY <1>1, <1>2, <1>9, JobFacts DEF FindUnloads, NoJob
  <2>2. jj = [j EXCEPT !.pc = "unload",
                       !.left = DOMAIN WithoutSchedulers(j.cur) \ DOMAIN j.new]
    BY <1>1, <1>2, <1>9 DEF FindUnloads
  <2>3. /\ jj.pc = "unload" /\ jj.new = j.new /\ jj.cur = j.cur
        /\ jj.left = DOMAIN WithoutSchedulers(j.cur) \ DOMAIN j.new
    BY <2>1, <2>2 DEF Jobs
  <2>4. jj \in Jobs
    BY <1>2, <2>3, JobFacts DEF NoJob
  <2>5. \A id \in DOMAIN j.cur : IsScheduler(id) \/ id \in jj.left \/ id \in DOMAIN jj.new
    BY <2>3 DEF WithoutSchedulers, Restricted
  <2>6. DOMAIN other = DOMAIN j.cur /\ \A id \in DOMAIN other : other[id] = j.cur[id]
    <3>1. /\ DOMAIN other = {id \in DOMAIN jj.cur :
                               IsScheduler(id) \/ id \in jj.left \/ id \in DOMAIN jj.new}
          /\ \A id \in DOMAIN other : other[id] = jj.cur[id]
      BY <1>3, <2>3, <2>4, InUpdate DEF Held
    <3> QED BY <2>3, <2>5, <3>1
  <2>7. DOMAIN held = DOMAIN j.cur /\ \A id \in DOMAIN held : held[id] = j.cur[id]
    BY <1>3, <2>1, InUpdate DEF Held
  <2> QED BY <1>6, <1>9, <2>1, <2>3, <2>4, <2>6, <2>7 DEF FindUnloads, Alike
<1>10. CASE AddSchedulers(t)
  <2>1. j \in Jobs /\ j.pc = "unload" /\ j.left = {} /\ j.new \in Configs
    BY <1>1, <1>2, <1>10, JobFacts DEF AddSchedulers, NoJob, JobOK
  <2>2. PICK new : new = WithSchedulers(j.new)
    OBVIOUS
  <2>3. jj = [j EXCEPT !.pc = "load", !.new = new, !.left = DOMAIN new]
    BY <1>1, <1>2, <1>10, <2>2 DEF AddSchedulers
  <2>4. jj.pc = "load" /\ jj.new = new /\ jj.cur = j.cur /\ jj.left = DOMAIN new
    BY <2>1, <2>3 DEF Jobs
  <2>5. jj \in Jobs
    BY <1>2, <2>4, JobFacts DEF NoJob
  <2>6. /\ WithoutSchedulers(new) = j.new /\ WithoutSchedulers(j.new) = j.new
        /\ DOMAIN j.new = {id \in DOMAIN new : ~IsScheduler(id)}
    BY <2>1, <2>2, WithSchedulersFacts, EntriesFacts
  <2>7. DOMAIN held = {id \in DOMAIN j.cur : IsScheduler(id) \/ id \in DOMAIN j.new}
        /\ \A id \in DOMAIN held : held[id] = j.cur[id]
    <3>1. /\ DOMAIN held = {id \in DOMAIN j.cur :
                              IsScheduler(id) \/ id \in j.left \/ id \in DOMAIN j.new}
          /\ \A id \in DOMAIN held : held[id] = j.cur[id]
      BY <1>3, <2>1, InUpdate DEF Held
    <3> QED BY <2>1, <3>1
  <2>8. DOMAIN other = {id \in DOMAIN j.cur : IsScheduler(id) \/ id \in DOMAIN new}
        /\ \A id \in DOMAIN other : other[id] = j.cur[id]
    <3>1. /\ DOMAIN other = (DOMAIN jj.new \ jj.left) \cup
                              {id \in DOMAIN jj.cur : IsScheduler(id) \/ id \in jj.left}
          /\ \A id \in DOMAIN other :
               other[id] = IF id \in DOMAIN jj.new \ jj.left THEN jj.new[id] ELSE jj.cur[id]
      BY <1>3, <2>4, <2>5, InUpdate DEF Held
    <3> QED BY <2>4, <3>1
  <2>9. DOMAIN other = DOMAIN held
    BY <2>6, <2>7, <2>8
  <2> QED BY <1>6, <1>10, <2>1, <2>4, <2>5, <2>6, <2>7, <2>8, <2>9 DEF AddSchedulers, Alike
<1>11. CASE Commit(t)
  <2>1. /\ j \in Jobs /\ j.pc = "load" /\ j.left = {} /\ j.new \in Full /\ jj = NoJob
        /\ next = j.new /\ services' = services /\ last' = last
    BY <1>1, <1>2, <1>11, JobFacts DEF Commit, NoJob, JobOK
  <2>2. other = j.new
    BY <1>3, <2>1 DEF Held
  <2>3. /\ \A id \in DOMAIN j.new : id \in DOMAIN held /\ held[id] = j.new[id]
        /\ \A id \in DOMAIN held : id \in DOMAIN j.new \/ (IsScheduler(id) /\ id \in DOMAIN j.cur)
        /\ \A id \in DOMAIN held : id \in DOMAIN j.new \/ held[id] = j.cur[id]
    <3>1. /\ DOMAIN held = (DOMAIN j.new \ j.left) \cup
                             {id \in DOMAIN j.cur : IsScheduler(id) \/ id \in j.left}
          /\ \A id \in DOMAIN held :
               held[id] = IF id \in DOMAIN j.new \ j.left THEN j.new[id] ELSE j.cur[id]
      BY <1>3, <2>1, InUpdate DEF Held
    <3>2. DOMAIN j.new \ j.left = DOMAIN j.new
      BY <2>1
    <3>3. DOMAIN held = DOMAIN j.new \cup {id \in DOMAIN j.cur : IsScheduler(id)}
      BY <2>1, <3>1, <3>2
    <3>4. \A id \in DOMAIN held : held[id] = IF id \in DOMAIN j.new THEN j.new[id] ELSE j.cur[id]
      BY <3>1, <3>2
    <3>5. \A id \in DOMAIN j.new : id \in DOMAIN held /\ held[id] = j.new[id]
      BY <3>3, <3>4
    <3>6. \A id \in DOMAIN held : id \in DOMAIN j.new \/ (IsScheduler(id) /\ id \in DOMAIN j.cur)
      BY <3>3
    <3>7. \A id \in DOMAIN held : id \in DOMAIN j.new \/ held[id] = j.cur[id]
      BY <3>4
    <3> QED BY <3>5, <3>6, <3>7
  <2>4. \A id \in DOMAIN j.cur : IsScheduler(id) => IsScheduler(j.cur[id].key)
    BY <2>1, EntriesFacts DEF Jobs
  <2>5. Match(j.new, services)
    BY <1>4, <2>3, <2>4 DEF Match
  <2> QED BY <1>4, <2>1, <2>2, <2>5 DEF Jobs, NoJob
<1>12. CASE UnloadEntry(t) \/ LoadEntry(t) \/ ReconfigureEntry(t) \/ KeepEntry(t)
  <2>1. PICK id \in j.left :
          /\ job' = [job EXCEPT ![t].left = @ \ {id}] /\ last' = last
          /\ DoneWith(t, id)
    BY <1>1, <1>12 DEF UnloadEntry, LoadEntry, ReconfigureEntry, KeepEntry, Leasts, WithConf,
       Abandon, DoneWith
  <2>2. j \in Jobs /\ j # NoJob
    BY <1>1, <1>2, <2>1, JobFacts DEF DoneWith, NoJob
  <2>3. jj = [j EXCEPT !.left = @ \ {id}]
    BY <1>1, <1>2, <2>1
  <2>4. jj \in Jobs /\ jj.cur = j.cur /\ jj.new = j.new
    BY <2>2, <2>3 DEF Jobs
  <2>5. jj # NoJob
    BY <2>4 DEF Jobs, NoJob
  <2>6. Match(other, services')
    BY <1>1, <1>2, <1>3, <1>4, <2>1, <2>2, <2>3, MatchLeft
  <2> QED BY <1>4, <2>1, <2>2, <2>4, <2>5, <2>6
<1>13. CASE LoadThrows(t) \/ RegisterThrows(t) \/ ReconfigureThrows(t)
  BY <1>13 DEF LoadThrows, RegisterThrows, ReconfigureThrows, Abandon
<1> QED BY <1>5, <1>7, <1>8, <1>9, <1>10, <1>11, <1>12, <1>13 DEF JobStep

(* After an update the libraries of the configuration, and no others but   *)
(* schedulers, are loaded, each on its hook and interface and with its     *)
(* file: any sequence of edits (daemon.cc 100-219), until an exception     *)
(* abandons an update, provided that one thread delivers the               *)
(* configurations and an edit does not give a library another id.          *)
THEOREM ServicesFollowConfig ==
  ASSUME OneThread, KeysKeepIds
  PROVE  DaemonSpec => []ServicesMatchConfig
<1>1. PICK t : Threads = {t}
  BY DEF OneThread
<1>2. DaemonInit => MatchInv
  <2> SUFFICES ASSUME DaemonInit PROVE MatchInv
    OBVIOUS
  <2>1. job[t] = NoJob /\ services = <<>> /\ current = NoConfig /\ last = NoConfig
    BY <1>1 DEF DaemonInit
  <2>2. Held(NoJob, NoConfig) = NoConfig
    BY DEF Held
  <2>3. Match(NoConfig, <<>>)
    BY NoConfigFacts DEF Match
  <2>4. WithoutSchedulers(current) = last
    BY <2>1, NoConfigFacts
  <2> QED BY <1>1, <2>1, <2>2, <2>3, <2>4 DEF MatchInv
<1>3. DaemonIndInv /\ MatchInv /\ [DaemonNext]_<<vars, daemonVars>> => MatchInv'
  <2> SUFFICES ASSUME DaemonIndInv, MatchInv, [DaemonNext]_<<vars, daemonVars>>
               PROVE  MatchInv'
    OBVIOUS
  <2>1. CASE UNCHANGED <<vars, daemonVars>>
    BY <2>1 DEF MatchInv, daemonVars
  <2>2. CASE DaemonNext
    <3>1. LoaderInv /\ LoaderInv'
      BY LoaderNext DEF DaemonIndInv
    <3>2. JobStep(t) \/ \E cfg \in Configs : Update(t, cfg)
      BY <1>1, <2>2 DEF DaemonNext
    <3>3. abandoned => abandoned'
      BY <3>2 DEF JobStep, Update, RebuildHook, ChainStep, FindUnloads, UnloadEntry,
         AddSchedulers, LoadEntry, ReconfigureEntry, KeepEntry, LoadThrows, RegisterThrows,
         ReconfigureThrows, Commit, Abandon, daemonVars
    <3>4. CASE abandoned'
      BY <3>4 DEF MatchInv
    <3>5. CASE ~abandoned'
      BY <1>1, <3>1, <3>2, <3>3, <3>5, MatchStep
    <3> QED BY <3>4, <3>5
  <2> QED BY <2>1, <2>2
<1>4. MatchInv => ServicesMatchConfig
  <2> SUFFICES ASSUME MatchInv, Quiet, ~abandoned
               PROVE  /\ WithoutSchedulers(current) = last
                      /\ KeysOf(current) \subseteq DOMAIN services
                      /\ \A k \in DOMAIN services : IsScheduler(k) \/ k \in KeysOf(current)
                      /\ \A id \in DOMAIN current :
                           services[current[id].key] = Handle(current[id], current[id].conf)
    BY DEF ServicesMatchConfig
  <2>1. job[t] = NoJob /\ Match(Held(job[t], current), services)
        /\ WithoutSchedulers(current) = last
    BY <1>1 DEF Quiet, MatchInv
  <2>2. Match(current, services)
    BY <2>1 DEF Held
  <2> QED BY <2>1, <2>2 DEF Match, KeysOf
<1> QED BY <1>2, <1>3, <1>4, DaemonInitInv, DaemonNextInv, PTL DEF DaemonSpec
=============================================================================
