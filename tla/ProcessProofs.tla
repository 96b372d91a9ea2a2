--------------------------- MODULE ProcessProofs ---------------------------
(* Theorems about Process, for every list of hooks, every set of slots and *)
(* any number of runs, updates and crashes.                                *)
EXTENDS Process, FiniteSetTheorems, TLAPS

-----------------------------------------------------------------------------
(* The inductive invariant.                                                *)
Maps == (1..MaxMaps) \cup {NoMap}
MapPairs == [array : Maps, ids : Maps]

Initialising == {"ensure", "pinArray", "pinIds", "klog"}
Ending == {"stop", "join", "unpin", "destroy", "cleanup"}

TypeInv ==
  /\ bpffs \in BOOLEAN /\ pins \in [Paths -> Maps]
  /\ hookMaps \in [Hooks -> MapPairs] /\ ringFd \in Maps /\ made \in MapPairs
  /\ attached \in [Slots -> SUBSET Programs]
  /\ hook \in [Slots -> [attached : BOOLEAN, created : BOOLEAN]]
  /\ bound \in [Slots -> Programs \cup {NoProg}]
  /\ pc \in Initialising \cup {"down", "watch", "run", "fail"} \cup Ending
  /\ todo \in Seq(Hooks) /\ run \in 0..MaxRuns
  /\ loaded \subseteq Slots /\ loading \subseteq Slots
  /\ leaving \subseteq Slots /\ toStop \subseteq Slots
  /\ updates \in Nat

(* What there can be at each place of main().                              *)
PhaseInv ==
  /\ Up => run >= 1 /\ bpffs
  /\ (\E p \in Paths : Pinned(p)) => bpffs
  /\ pc \in Initialising \cup {"down", "fail"} => loaded = {} /\ loading = {} /\ leaving = {}
  /\ pc \in {"ensure", "pinArray", "pinIds"} => todo # <<>>
  /\ pc = "klog" => todo = <<>>
  /\ pc = "watch" /\ updates = 0 => loaded = {} /\ loading = {} /\ leaving = {}
  /\ pc \in Ending /\ ~late => loaded \subseteq toStop
  /\ pc \in Ending \ {"stop"} => toStop = {}
  /\ loading \cap loaded = {}
  /\ \A s \in Slots : bound[s] # NoProg => s \in loaded

(* The kernel's side of the hooks: what is attached was attached by a run  *)
(* that died, or is what this run knows of and will detach.                *)
NetInv ==
  \A s \in Slots :
    /\ ~IsTc(s) => \A p, q \in attached[s] : p = q
    /\ attached[s] # {} => s[2] \in nics
    /\ bound[s] # NoProg /\ s[2] \in nics => bound[s] \in attached[s]
    /\ \A p \in attached[s] :
         /\ p.run <= run
         /\ p.run \in crashes \/ (Up /\ p.run = run)
         /\ Up /\ p.run = run => p = bound[s] /\ hook[s].attached

(* The two maps of a hook are pinned, and the ones the process has open.   *)
OpenOK(h) ==
  /\ pins[ArrayOf(h)] # NoMap /\ pins[IdsOf(h)] # NoMap
  /\ hookMaps[h].array = pins[ArrayOf(h)] /\ hookMaps[h].ids = pins[IdsOf(h)]
Unopened(h) == hookMaps[h].array = NoMap /\ hookMaps[h].ids = NoMap

(* Every pin of the hook is one the process will remove.                   *)
Covered(h) ==
  /\ Pinned(ArrayOf(h)) => hookMaps[h].array # NoMap
  /\ Pinned(IdsOf(h)) => hookMaps[h].ids # NoMap

(* If the hook is half-pinned, the run has found it so.                    *)
KeepsPair(h) == HalfPinned(h) => h \in before

(* init, hook by hook.                                                     *)
StartInv ==
  /\ pc = "down" => \A h \in Hooks : Unopened(h)
  /\ pc \in Initialising => \A h \in Hooks : Unopened(h) \/ OpenOK(h)
  /\ pc \in Initialising =>
       \A h \in Hooks : OpenOK(h) \/ \E k \in 1..Len(todo) : todo[k] = h
  /\ pc \in {"pinArray", "pinIds"} => made.array # NoMap /\ made.ids # NoMap
  /\ pc = "pinArray" => ~EnsureOpens(Head(todo))
  /\ pc = "pinIds" => pins[ArrayOf(Head(todo))] = made.array /\ Unopened(Head(todo))
  /\ pc \in Initialising =>
       \A h \in Hooks : KeepsPair(h) \/ (pc = "pinIds" /\ h = Head(todo))
  /\ pc = "pinIds" /\ Pinned(IdsOf(Head(todo))) => Head(todo) \in before
  /\ pc = "fail" => \A h \in Hooks : (Unopened(h) /\ KeepsPair(h)) \/ Covered(h)
  /\ pc = "down" /\ lastEnd = "failed" => \A h \in Hooks : KeepsPair(h)

(* From there on to the end.                                               *)
RunInv ==
  /\ pc \in {"watch", "run"} =>
       /\ \A h \in Hooks : OpenOK(h)
       /\ Pinned(Ring) /\ ringFd = pins[Ring]
       /\ \A s \in Slots : bound[s] # NoProg => bound[s].maps = pins
  /\ pc \in Ending /\ ~late => \A h \in Hooks : Covered(h)
  /\ pc \in {"destroy", "cleanup"} /\ ~late => ~Pinned(Ring)
  /\ pc = "down" /\ lastEnd = "exit" => \A p \in Paths : ~Pinned(p)

PInv == TypeInv /\ PhaseInv /\ NetInv /\ StartInv /\ RunInv

-----------------------------------------------------------------------------
(* Paths and fresh maps.                                                   *)
LEMMA PathFacts ==
  /\ Ring \in Paths
  /\ \A h \in Hooks : /\ ArrayOf(h) \in Paths /\ IdsOf(h) \in Paths
                      /\ ArrayOf(h) # Ring /\ IdsOf(h) # Ring
  /\ \A h, g \in Hooks : /\ ArrayOf(h) # IdsOf(g)
                         /\ ArrayOf(h) = ArrayOf(g) => h = g
                         /\ IdsOf(h) = IdsOf(g) => h = g
BY DEF Ring, Paths, ArrayOf, IdsOf

(* There are no other paths.                                               *)
LEMMA PathCases ==
  \A p \in Paths : p = Ring \/ \E h \in Hooks : p = ArrayOf(h) \/ p = IdsOf(h)
BY DEF Paths

(* The descriptor for each path.                                           *)
LEMMA OpenedFacts ==
  /\ Opened(Ring) = ringFd
  /\ \A h \in Hooks : /\ Opened(ArrayOf(h)) = hookMaps[h].array
                      /\ Opened(IdsOf(h)) = hookMaps[h].ids
BY DEF Opened, Ring, ArrayOf, IdsOf

(* A new map is none that is in use.                                       *)
LEMMA FreshMaps ==
  ASSUME MapsLeft
  PROVE  Fresh \in [Paths -> 1..MaxMaps]
<1>1. ASSUME NEW p \in Paths
      PROVE  (CHOOSE n \in Unused(p) : TRUE) \in 1..MaxMaps
  <2>1. \E n \in Unused(p) : TRUE
    BY DEF MapsLeft
  <2>2. (CHOOSE n \in Unused(p) : TRUE) \in Unused(p)
    BY <2>1
  <2> QED
    BY <2>2 DEF Unused
<1> QED
  BY <1>1 DEF Fresh

(* A program is bound to maps, never to nothing.                           *)
LEMMA BoundMapsType ==
  ASSUME MapsLeft, TypeInv
  PROVE  BoundMaps(Fresh) \in [Paths -> 1..MaxMaps]
BY FreshMaps DEF BoundMaps, TypeInv, Maps, Pinned

-----------------------------------------------------------------------------
(* The steps, with the ends of the process in one place.                   *)
UnloadCase(s) ==
  /\ pc \in {"watch", "run"} \cup Ending /\ Unload(s)
  /\ ~(s \in loaded /\ bound[s] # NoProg /\ s[2] \notin nics)
  /\ loading' = loading /\ leaving' \subseteq leaving /\ toStop' \in {toStop, toStop \ {s}}

MoveCase ==    \* main() goes on, and nothing else happens
  /\ \/ pc = "stop" /\ toStop = {} /\ pc' = "join"
     \/ pc = "join" /\ pc' = "unpin"
     \/ pc = "destroy" /\ pc' = "cleanup"
  /\ UNCHANGED <<mapVars, initRest, todo>>

DestroyCase ==
  /\ pc \in {"destroy", "cleanup"} /\ pc' = "cleanup"
  /\ \A s \in loaded : ~DestructorAborts(s)
  /\ loaded' = {} /\ DropHooks
  /\ UNCHANGED <<mapVars, todo, run, loading, leaving, updates, toStop, late, crashes, lastEnd, before>>

StepCase ==
  \/ \E ok \in BOOLEAN : Boot(ok)
  \/ InitMaps \/ InitMapsFails \/ InitKlog \/ InitThrows \/ FirstUpdateDone
  \/ MoveCase \/ Unpin \/ DestroyCase \/ Cleanup \/ Exit
  \/ \E how \in {"crash", "abort"} : Up /\ Die(how)
  \/ \E s \in Slots : UnloadCase(s)
  \/ \E s \in Slots, ok \in BOOLEAN : Load(s, ok)
  \/ \E want \in SUBSET Slots : Update(want)
  \/ Stop \/ Environment \/ UNCHANGED processVars

(* Every step is one of them.                                              *)
LEMMA StepCases ==
  ASSUME TypeInv, PhaseInv, [ProcessNext]_processVars
  PROVE  StepCase
<1>1. ASSUME NEW s \in leaving,
             Up /\ UnloadOrDie(s, leaving' = leaving \ {s} /\ UNCHANGED <<loading, toStop>>)
      PROVE  StepCase
  <2>1. s \in Slots /\ pc \in {"watch", "run"} \cup Ending
    BY <1>1 DEF TypeInv, PhaseInv, Up, Initialising
  <2> QED
    BY <1>1, <2>1 DEF UnloadOrDie, UnloadCase, StepCase
<1>2. ASSUME NEW s \in toStop, pc = "stop",
             UnloadOrDie(s, toStop' = toStop \ {s} /\ UNCHANGED <<loading, leaving>>)
      PROVE  StepCase
  <2>1. s \in Slots /\ Up /\ pc \in Ending
    BY <1>2 DEF TypeInv, Up, Ending
  <2> QED
    BY <1>2, <2>1 DEF UnloadOrDie, UnloadCase, StepCase
<1>3. ASSUME DestroyServices
      PROVE  StepCase
  <2>1. pc \in {"destroy", "cleanup"} /\ Up
    BY <1>3 DEF DestroyServices, Up
  <2>2. CASE \E s \in loaded : DestructorAborts(s)
    BY <1>3, <2>1, <2>2 DEF DestroyServices, StepCase
  <2>3. CASE ~(\E s \in loaded : DestructorAborts(s))
    BY <1>3, <2>1, <2>3 DEF DestroyServices, DestroyCase, StepCase
  <2> QED
    BY <2>2, <2>3
<1>4. ASSUME NEW s \in loading, NEW ok \in BOOLEAN, Load(s, ok)
      PROVE  StepCase
  BY <1>4 DEF TypeInv, StepCase
<1>5. ASSUME StopServicesDone \/ Join \/ ReleaseDaemon
      PROVE  StepCase
  BY <1>5 DEF StopServicesDone, Join, ReleaseDaemon, MoveCase, StepCase
<1> QED
  BY <1>1, <1>2, <1>3, <1>4, <1>5 DEF ProcessNext, MainStep, UpdateStep, StopService, Crash, StepCase

(* The hook init is at.                                                    *)
LEMMA HeadHook ==
  ASSUME TypeInv, PhaseInv, pc \in {"ensure", "pinArray", "pinIds"}
  PROVE  /\ todo # <<>> /\ Head(todo) \in Hooks /\ Tail(todo) \in Seq(Hooks)
         /\ \A k \in 1..Len(todo) : todo[k] = Head(todo) \/
              \E j \in 1..Len(Tail(todo)) : Tail(todo)[j] = todo[k]
<1>1. todo # <<>> /\ todo \in Seq(Hooks)
  BY DEF TypeInv, PhaseInv
<1>2. \A k \in 1..Len(todo) : k # 1 => k - 1 \in 1..Len(Tail(todo)) /\ Tail(todo)[k - 1] = todo[k]
  BY <1>1
<1> QED
  BY <1>1, <1>2

(* The types of the state.                                                 *)
LEMMA TypeInvStep ==
  ASSUME TypeInv, PhaseInv, [ProcessNext]_processVars
  PROVE  TypeInv'
<1> USE MapAssumption, ProcessAssumption, PathFacts DEF TypeInv, Maps, MapPairs, Initialising, Ending
<1>1. ASSUME NEW ok \in BOOLEAN, Boot(ok)
      PROVE  TypeInv'
  BY <1>1 DEF Boot, EnsureBpffsMounted, mapVars, netVars
<1>2. ASSUME pc = "ensure", EnsureOpen(Head(todo)), Ensured, UNCHANGED initRest
      PROVE  TypeInv'
  BY <1>2, HeadHook DEF EnsureOpen, EnsureOpens, Ensured, initRest, mapVars, netVars
<1>3. ASSUME pc = "ensure", MapsLeft, EnsureCreate(Head(todo), Fresh), pc' = "pinArray",
             UNCHANGED <<initRest, todo>>
      PROVE  TypeInv'
  <2>1. Fresh \in [Paths -> 1..MaxMaps] /\ Head(todo) \in Hooks
    BY <1>3, FreshMaps, HeadHook
  <2>2. made' = [array |-> Fresh[ArrayOf(Head(todo))], ids |-> Fresh[IdsOf(Head(todo))]]
    BY <1>3 DEF EnsureCreate
  <2>3. made' \in MapPairs
    BY <2>1, <2>2
  <2> QED
    BY <1>3, <2>3 DEF EnsureCreate, initRest, mapVars, netVars
<1>4. ASSUME pc = "pinArray", PinArray(Head(todo)), pc' = "pinIds", UNCHANGED <<initRest, todo>>
      PROVE  TypeInv'
  BY <1>4, HeadHook DEF PinArray, initRest, mapVars, netVars
<1>5. ASSUME pc = "pinArray", PinArrayFails, pc' = "fail", UNCHANGED <<initRest, todo>>
      PROVE  TypeInv'
  BY <1>5, HeadHook DEF PinArrayFails, initRest, NoMaps, mapVars, netVars
<1>6. ASSUME pc = "pinIds", PinIds(Head(todo)), Ensured, UNCHANGED initRest
      PROVE  TypeInv'
  BY <1>6, HeadHook DEF PinIds, Ensured, initRest, NoMaps, mapVars, netVars
<1>7. ASSUME pc = "pinIds", PinIdsFails(Head(todo)), pc' = "fail", UNCHANGED <<initRest, todo>>
      PROVE  TypeInv'
  BY <1>7, HeadHook DEF PinIdsFails, initRest, NoMaps, mapVars, netVars
<1>8. ASSUME InitKlog
      PROVE  TypeInv'
  <2>1. Fresh[Ring] \in 1..MaxMaps
    BY <1>8, FreshMaps DEF InitKlog
  <2>2. pins' \in [Paths -> Maps] /\ ringFd' \in Maps
    <3>1. CASE Pinned(Ring)
      BY <1>8, <3>1 DEF InitKlog, RingInit
    <3>2. CASE ~Pinned(Ring)
      BY <1>8, <2>1, <3>2 DEF InitKlog, RingInit
    <3> QED
      BY <3>1, <3>2
  <2> QED
    BY <1>8, <2>2 DEF InitKlog, RingInit, initRest, netVars
<1>9. ASSUME FirstUpdateDone
      PROVE  TypeInv'
  BY <1>9 DEF FirstUpdateDone, initRest, mapVars, netVars
<1>10. ASSUME Unpin
      PROVE  TypeInv'
  BY <1>10 DEF Unpin, RingCleanup, initRest, mapVars, netVars
<1>11. ASSUME NEW h \in Hooks, pc \in {"cleanup", "fail"}, UnlinkArray(h),
             UNCHANGED <<initRest, pc, todo>>
      PROVE  TypeInv'
  BY <1>11 DEF UnlinkArray, initRest, mapVars, netVars
<1>12. ASSUME NEW h \in Hooks, pc \in {"cleanup", "fail"}, UnlinkIds(h),
             UNCHANGED <<initRest, pc, todo>>
      PROVE  TypeInv'
  BY <1>12 DEF UnlinkIds, initRest, mapVars, netVars
<1>13. ASSUME Exit
      PROVE  TypeInv'
  BY <1>13 DEF Exit, DropMaps, DropHooks, NoMaps, NoHook, mapVars, netVars
<1>14. ASSUME NEW how \in {"crash", "abort"}, Up, Die(how)
      PROVE  TypeInv'
  BY <1>14 DEF Die, DropMaps, DropHooks, NoMaps, NoHook, mapVars, netVars
<1>15. ASSUME NEW s \in Slots, UnloadCase(s)
      PROVE  TypeInv'
  <2>1. /\ hook' \in [Slots -> [attached : BOOLEAN, created : BOOLEAN]]
        /\ bound' \in [Slots -> Programs \cup {NoProg}]
        /\ attached' \in [Slots -> SUBSET Programs]
    <3>1. CASE bound[s] = NoProg
      BY <1>15, <3>1 DEF UnloadCase, Unload, Detach, netVars
    <3>2. CASE bound[s] # NoProg
      <4>1. /\ HookDetach(s) /\ bound' = [bound EXCEPT ![s] = NoProg]
        BY <1>15, <3>2 DEF UnloadCase, Unload, Detach
      <4>2. hook' \in [Slots -> [attached : BOOLEAN, created : BOOLEAN]]
        BY <4>1 DEF HookDetach
      <4>3. attached' \in [Slots -> SUBSET Programs]
        BY <4>1 DEF HookDetach, TcDoDetach, XdpDoDetach
      <4> QED
        BY <4>1, <4>2, <4>3
    <3> QED
      BY <3>1, <3>2
  <2> QED
    BY <1>15, <2>1 DEF UnloadCase, Unload, mapVars
<1>16. ASSUME NEW s \in Slots, NEW ok \in BOOLEAN, Load(s, ok)
      PROVE  TypeInv'
  <2> DEFINE prog == [run |-> run, slot |-> s, maps |-> BoundMaps(Fresh)]
             works == s[2] \in nics /\ ok
  <2>0. MapsLeft /\ Up
    BY <1>16 DEF Load
  <2>1. BoundMaps(Fresh) \in [Paths -> 1..MaxMaps]
    BY <2>0, BoundMapsType
  <2>2. prog \in Programs
    BY <2>0, <2>1 DEF Programs, PhaseInv
  <2>3. pins' \in [Paths -> Maps]
    BY <1>16, <2>1 DEF Load, BindMaps
  <2>4. /\ HookAttach(s, prog, works)
        /\ bound' = [bound EXCEPT ![s] = IF works THEN prog ELSE NoProg]
    BY <1>16 DEF Load, Attach
  <2> HIDE DEF prog, works
  <2>5. hook' \in [Slots -> [attached : BOOLEAN, created : BOOLEAN]]
    <3>1. works \in BOOLEAN /\ PreAttachCheck(s).created \in BOOLEAN
      BY DEF works, PreAttachCheck
    <3>2. [attached |-> works, created |-> works /\ PreAttachCheck(s).created]
            \in [attached : BOOLEAN, created : BOOLEAN]
      BY <3>1
    <3> QED
      BY <2>4, <3>2 DEF HookAttach
  <2>6. attached' \in [Slots -> SUBSET Programs]
    BY <2>2, <2>4 DEF HookAttach, TcDoAttach, XdpDoAttach
  <2>7. bound' \in [Slots -> Programs \cup {NoProg}]
    BY <2>2, <2>4
  <2> QED
    BY <1>16, <2>3, <2>5, <2>6, <2>7 DEF Load, BindMaps
<1>17. ASSUME NEW want \in SUBSET Slots, Update(want)
      PROVE  TypeInv'
  BY <1>17 DEF Update, mapVars, netVars
<1>18. ASSUME Stop
      PROVE  TypeInv'
  BY <1>18 DEF Stop, mapVars, netVars
<1>19. ASSUME NEW i \in Nics, pc \in {"run", "stop"}, NicGone(i),
             UNCHANGED <<mapVars, pc, todo, run, loaded, loading, leaving, updates, toStop, late,
                         crashes, lastEnd, before>>
      PROVE  TypeInv'
  BY <1>19 DEF NicGone, mapVars, netVars
<1>20. ASSUME NEW i \in Nics, pc \in {"run", "stop"}, ForeignFilter(i),
             UNCHANGED <<mapVars, pc, todo, run, loaded, loading, leaving, updates, toStop, late,
                         crashes, lastEnd, before>>
      PROVE  TypeInv'
  BY <1>20 DEF ForeignFilter, mapVars, netVars
<1>21. ASSUME UNCHANGED processVars
      PROVE  TypeInv'
  BY <1>21 DEF processVars, mapVars, netVars
<1>22. ASSUME pc = "ensure", EnsureRefused, pc' = "fail", UNCHANGED <<initRest, todo>>
      PROVE  TypeInv'
  BY <1>22 DEF EnsureRefused, initRest, mapVars, netVars
<1>23. ASSUME pc = "klog", RingRefused, pc' = "fail", UNCHANGED <<initRest, todo>>
      PROVE  TypeInv'
  BY <1>23 DEF RingRefused, initRest, netVars
<1>24. ASSUME pc = "watch", updates = 0, pc' = "fail", UNCHANGED <<mapVars, initRest, todo>>
      PROVE  TypeInv'
  BY <1>24 DEF initRest, mapVars, netVars
<1>25. ASSUME MoveCase
      PROVE  TypeInv'
  BY <1>25 DEF MoveCase, initRest, mapVars, netVars
<1>26. ASSUME DestroyCase
      PROVE  TypeInv'
  BY <1>26 DEF DestroyCase, DropHooks, NoHook, mapVars, netVars
<1> HIDE DEF TypeInv, Maps, MapPairs, Initialising, Ending
<1> QED
  BY StepCases, <1>1, <1>2, <1>3, <1>4, <1>5, <1>6, <1>7, <1>8, <1>9, <1>10, <1>11,
    <1>12, <1>13, <1>14, <1>15, <1>16, <1>17, <1>18, <1>19, <1>20, <1>21,
    <1>22, <1>23, <1>24, <1>25, <1>26
  DEF StepCase, InitMaps, InitMapsFails, InitThrows, Cleanup, Environment

(* What there can be at each place of main().                              *)
LEMMA PhaseInvStep ==
  ASSUME TypeInv, PhaseInv, [ProcessNext]_processVars
  PROVE  PhaseInv'
<1> USE MapAssumption, ProcessAssumption, PathFacts DEF TypeInv, PhaseInv, Initialising, Ending, Up, Pinned
<1>1. ASSUME NEW ok \in BOOLEAN, Boot(ok)
      PROVE  PhaseInv'
  BY <1>1 DEF Boot, EnsureBpffsMounted, mapVars, netVars
<1>2. ASSUME pc = "ensure", EnsureOpen(Head(todo)), Ensured, UNCHANGED initRest
      PROVE  PhaseInv'
  BY <1>2, HeadHook DEF EnsureOpen, EnsureOpens, Ensured, initRest, mapVars, netVars
<1>3. ASSUME pc = "ensure", MapsLeft, EnsureCreate(Head(todo), Fresh), pc' = "pinArray",
             UNCHANGED <<initRest, todo>>
      PROVE  PhaseInv'
  BY <1>3 DEF EnsureCreate, initRest, mapVars, netVars
<1>4. ASSUME pc = "pinArray", PinArray(Head(todo)), pc' = "pinIds", UNCHANGED <<initRest, todo>>
      PROVE  PhaseInv'
  BY <1>4, HeadHook DEF PinArray, initRest, mapVars, netVars
<1>5. ASSUME pc = "pinArray", PinArrayFails, pc' = "fail", UNCHANGED <<initRest, todo>>
      PROVE  PhaseInv'
  BY <1>5, HeadHook DEF PinArrayFails, initRest, NoMaps, mapVars, netVars
<1>6. ASSUME pc = "pinIds", PinIds(Head(todo)), Ensured, UNCHANGED initRest
      PROVE  PhaseInv'
  BY <1>6, HeadHook DEF PinIds, Ensured, initRest, NoMaps, mapVars, netVars
<1>7. ASSUME pc = "pinIds", PinIdsFails(Head(todo)), pc' = "fail", UNCHANGED <<initRest, todo>>
      PROVE  PhaseInv'
  BY <1>7, HeadHook DEF PinIdsFails, initRest, NoMaps, mapVars, netVars
<1>8. ASSUME InitKlog
      PROVE  PhaseInv'
  BY <1>8 DEF InitKlog, RingInit, initRest, mapVars, netVars
<1>9. ASSUME FirstUpdateDone
      PROVE  PhaseInv'
  BY <1>9 DEF FirstUpdateDone, initRest, mapVars, netVars
<1>10. ASSUME Unpin
      PROVE  PhaseInv'
  BY <1>10 DEF Unpin, RingCleanup, initRest, mapVars, netVars
<1>11. ASSUME NEW h \in Hooks, pc \in {"cleanup", "fail"}, UnlinkArray(h),
             UNCHANGED <<initRest, pc, todo>>
      PROVE  PhaseInv'
  BY <1>11 DEF UnlinkArray, initRest, mapVars, netVars
<1>12. ASSUME NEW h \in Hooks, pc \in {"cleanup", "fail"}, UnlinkIds(h),
             UNCHANGED <<initRest, pc, todo>>
      PROVE  PhaseInv'
  BY <1>12 DEF UnlinkIds, initRest, mapVars, netVars
<1>13. ASSUME Exit
      PROVE  PhaseInv'
  <2>1. loading' = {} /\ leaving' = {} /\ loaded' = {} /\ pc' = "down"
    BY <1>13 DEF Exit, Updating
  <2>2. \A s \in Slots : bound'[s] = NoProg
    BY <1>13 DEF Exit, DropHooks
  <2>3. UNCHANGED <<bpffs, pins>>
    BY <1>13 DEF Exit, DropMaps
  <2> QED
    BY <2>1, <2>2, <2>3
<1>14. ASSUME NEW how \in {"crash", "abort"}, Up, Die(how)
      PROVE  PhaseInv'
  BY <1>14 DEF Die, DropMaps, DropHooks, NoMaps, NoHook, mapVars, netVars
<1>15. ASSUME NEW s \in Slots, UnloadCase(s)
      PROVE  PhaseInv'
  BY <1>15 DEF UnloadCase, Unload, Detach, HookDetach, TcDoDetach, XdpDoDetach, mapVars, netVars
<1>16. ASSUME NEW s \in Slots, NEW ok \in BOOLEAN, Load(s, ok)
      PROVE  PhaseInv'
  BY <1>16 DEF Load, BindMaps, Attach, HookAttach, PreAttachCheck, TcDoAttach, XdpDoAttach, mapVars, netVars
<1>17. ASSUME NEW want \in SUBSET Slots, Update(want)
      PROVE  PhaseInv'
  BY <1>17 DEF Update, mapVars, netVars
<1>18. ASSUME Stop
      PROVE  PhaseInv'
  BY <1>18 DEF Stop, mapVars, netVars
<1>19. ASSUME NEW i \in Nics, pc \in {"run", "stop"}, NicGone(i),
             UNCHANGED <<mapVars, pc, todo, run, loaded, loading, leaving, updates, toStop, late,
                         crashes, lastEnd, before>>
      PROVE  PhaseInv'
  BY <1>19 DEF NicGone, mapVars, netVars
<1>20. ASSUME NEW i \in Nics, pc \in {"run", "stop"}, ForeignFilter(i),
             UNCHANGED <<mapVars, pc, todo, run, loaded, loading, leaving, updates, toStop, late,
                         crashes, lastEnd, before>>
      PROVE  PhaseInv'
  BY <1>20 DEF ForeignFilter, mapVars, netVars
<1>21. ASSUME UNCHANGED processVars
      PROVE  PhaseInv'
  BY <1>21 DEF processVars, mapVars, netVars
<1>22. ASSUME pc = "ensure", EnsureRefused, pc' = "fail", UNCHANGED <<initRest, todo>>
      PROVE  PhaseInv'
  BY <1>22 DEF EnsureRefused, initRest, mapVars, netVars
<1>23. ASSUME pc = "klog", RingRefused, pc' = "fail", UNCHANGED <<initRest, todo>>
      PROVE  PhaseInv'
  BY <1>23 DEF RingRefused, initRest, netVars
<1>24. ASSUME pc = "watch", updates = 0, pc' = "fail", UNCHANGED <<mapVars, initRest, todo>>
      PROVE  PhaseInv'
  BY <1>24 DEF initRest, mapVars, netVars
<1>25. ASSUME MoveCase
      PROVE  PhaseInv'
  BY <1>25 DEF MoveCase, initRest, mapVars, netVars
<1>26. ASSUME DestroyCase
      PROVE  PhaseInv'
  BY <1>26 DEF DestroyCase, DropHooks, NoHook, mapVars, netVars
<1> HIDE DEF TypeInv, PhaseInv, Initialising, Ending, Up, Pinned
<1> QED
  BY StepCases, <1>1, <1>2, <1>3, <1>4, <1>5, <1>6, <1>7, <1>8, <1>9, <1>10, <1>11,
    <1>12, <1>13, <1>14, <1>15, <1>16, <1>17, <1>18, <1>19, <1>20, <1>21,
    <1>22, <1>23, <1>24, <1>25, <1>26
  DEF StepCase, InitMaps, InitMapsFails, InitThrows, Cleanup, Environment

(* What is attached to the interfaces.                                     *)
LEMMA NetInvStep ==
  ASSUME TypeInv, PhaseInv, NetInv, [ProcessNext]_processVars
  PROVE  NetInv'
<1> USE MapAssumption, ProcessAssumption DEF TypeInv, PhaseInv, NetInv, Initialising, Ending, Up
<1>1. ASSUME NEW ok \in BOOLEAN, Boot(ok)
      PROVE  NetInv'
  <2>1. \A s \in Slots : \A p \in attached[s] : p.run \in crashes /\ p.run \in Nat /\ p.run <= run
    BY <1>1 DEF Boot, Programs
  <2>2. run' = run + 1 /\ run \in Nat /\ UNCHANGED <<netVars, crashes>>
    BY <1>1 DEF Boot
  <2> QED
    BY <2>1, <2>2 DEF netVars
<1>2. ASSUME pc = "ensure", EnsureOpen(Head(todo)), Ensured, UNCHANGED initRest
      PROVE  NetInv'
  BY <1>2 DEF EnsureOpen, EnsureOpens, Ensured, initRest, mapVars, netVars
<1>3. ASSUME pc = "ensure", MapsLeft, EnsureCreate(Head(todo), Fresh), pc' = "pinArray",
             UNCHANGED <<initRest, todo>>
      PROVE  NetInv'
  BY <1>3 DEF EnsureCreate, initRest, mapVars, netVars
<1>4. ASSUME pc = "pinArray", PinArray(Head(todo)), pc' = "pinIds", UNCHANGED <<initRest, todo>>
      PROVE  NetInv'
  BY <1>4 DEF PinArray, initRest, mapVars, netVars
<1>5. ASSUME pc = "pinArray", PinArrayFails, pc' = "fail", UNCHANGED <<initRest, todo>>
      PROVE  NetInv'
  BY <1>5 DEF PinArrayFails, initRest, NoMaps, mapVars, netVars
<1>6. ASSUME pc = "pinIds", PinIds(Head(todo)), Ensured, UNCHANGED initRest
      PROVE  NetInv'
  BY <1>6 DEF PinIds, Ensured, initRest, NoMaps, mapVars, netVars
<1>7. ASSUME pc = "pinIds", PinIdsFails(Head(todo)), pc' = "fail", UNCHANGED <<initRest, todo>>
      PROVE  NetInv'
  BY <1>7 DEF PinIdsFails, initRest, NoMaps, mapVars, netVars
<1>8. ASSUME InitKlog
      PROVE  NetInv'
  BY <1>8 DEF InitKlog, RingInit, initRest, mapVars, netVars
<1>9. ASSUME FirstUpdateDone
      PROVE  NetInv'
  BY <1>9 DEF FirstUpdateDone, initRest, mapVars, netVars
<1>10. ASSUME Unpin
      PROVE  NetInv'
  BY <1>10 DEF Unpin, RingCleanup, initRest, mapVars, netVars
<1>11. ASSUME NEW h \in Hooks, pc \in {"cleanup", "fail"}, UnlinkArray(h),
             UNCHANGED <<initRest, pc, todo>>
      PROVE  NetInv'
  BY <1>11 DEF UnlinkArray, initRest, mapVars, netVars
<1>12. ASSUME NEW h \in Hooks, pc \in {"cleanup", "fail"}, UnlinkIds(h),
             UNCHANGED <<initRest, pc, todo>>
      PROVE  NetInv'
  BY <1>12 DEF UnlinkIds, initRest, mapVars, netVars
<1>13. ASSUME Exit
      PROVE  NetInv'
  <2>1. ASSUME NEW s \in Slots, NEW p \in attached[s]
        PROVE  p.run \in crashes
    <3>1. p \in Programs /\ NoProg \notin Programs
      BY <2>1
    <3>2. Up /\ p.run = run => s \in loaded
      BY <2>1, <3>1
    <3> QED
      BY <1>13, <3>2 DEF Exit
  <2>2. /\ pc' = "down" /\ UNCHANGED <<run, crashes, attached, nics>>
        /\ \A s \in Slots : bound'[s] = NoProg
    BY <1>13 DEF Exit, DropHooks
  <2> QED
    BY <2>1, <2>2
<1>14. ASSUME NEW how \in {"crash", "abort"}, Up, Die(how)
      PROVE  NetInv'
  BY <1>14 DEF Die, DropMaps, DropHooks, NoMaps, NoHook, mapVars, netVars
<1>15. ASSUME NEW s \in Slots, UnloadCase(s)
      PROVE  NetInv'
  BY <1>15 DEF UnloadCase, Unload, Detach, HookDetach, TcDoDetach, XdpDoDetach, mapVars, netVars
<1>16. ASSUME NEW s \in Slots, NEW ok \in BOOLEAN, Load(s, ok)
      PROVE  NetInv'
  BY <1>16 DEF Load, BindMaps, Attach, HookAttach, PreAttachCheck, TcDoAttach, XdpDoAttach, mapVars, netVars
<1>17. ASSUME NEW want \in SUBSET Slots, Update(want)
      PROVE  NetInv'
  BY <1>17 DEF Update, mapVars, netVars
<1>18. ASSUME Stop
      PROVE  NetInv'
  BY <1>18 DEF Stop, mapVars, netVars
<1>19. ASSUME NEW i \in Nics, pc \in {"run", "stop"}, NicGone(i),
             UNCHANGED <<mapVars, pc, todo, run, loaded, loading, leaving, updates, toStop, late,
                         crashes, lastEnd, before>>
      PROVE  NetInv'
  BY <1>19 DEF NicGone, mapVars, netVars
<1>20. ASSUME NEW i \in Nics, pc \in {"run", "stop"}, ForeignFilter(i),
             UNCHANGED <<mapVars, pc, todo, run, loaded, loading, leaving, updates, toStop, late,
                         crashes, lastEnd, before>>
      PROVE  NetInv'
  BY <1>20 DEF ForeignFilter, mapVars, netVars
<1>21. ASSUME UNCHANGED processVars
      PROVE  NetInv'
  BY <1>21 DEF processVars, mapVars, netVars
<1>22. ASSUME pc = "ensure", EnsureRefused, pc' = "fail", UNCHANGED <<initRest, todo>>
      PROVE  NetInv'
  BY <1>22 DEF EnsureRefused, initRest, mapVars, netVars
<1>23. ASSUME pc = "klog", RingRefused, pc' = "fail", UNCHANGED <<initRest, todo>>
      PROVE  NetInv'
  BY <1>23 DEF RingRefused, initRest, netVars
<1>24. ASSUME pc = "watch", updates = 0, pc' = "fail", UNCHANGED <<mapVars, initRest, todo>>
      PROVE  NetInv'
  BY <1>24 DEF initRest, mapVars, netVars
<1>25. ASSUME MoveCase
      PROVE  NetInv'
  BY <1>25 DEF MoveCase, initRest, mapVars, netVars
<1>26. ASSUME DestroyCase
      PROVE  NetInv'
  <2>1. ASSUME NEW s \in Slots, NEW p \in attached[s]
        PROVE  p.run # run /\ p.run \in crashes
    <3>1. p \in Programs /\ NoProg \notin Programs
      BY <2>1
    <3>2. Up /\ p.run = run => s \in loaded /\ hook[s].attached
      BY <2>1, <3>1
    <3> QED
      BY <1>26, <3>2 DEF DestroyCase, DestructorAborts
  <2>2. /\ pc' = "cleanup" /\ UNCHANGED <<run, crashes, attached, nics>>
        /\ \A s \in Slots : bound'[s] = NoProg
    BY <1>26 DEF DestroyCase, DropHooks
  <2> QED
    BY <2>1, <2>2
<1> HIDE DEF TypeInv, PhaseInv, NetInv, Initialising, Ending, Up
<1> QED
  BY StepCases, <1>1, <1>2, <1>3, <1>4, <1>5, <1>6, <1>7, <1>8, <1>9, <1>10, <1>11,
    <1>12, <1>13, <1>14, <1>15, <1>16, <1>17, <1>18, <1>19, <1>20, <1>21,
    <1>22, <1>23, <1>24, <1>25, <1>26
  DEF StepCase, InitMaps, InitMapsFails, InitThrows, Cleanup, Environment

(* A map has a number.                                                     *)
LEMMA NoMapIsNone == NoMap \notin 1..MaxMaps
BY MapAssumption, ProcessAssumption

(* Pinning or unlinking one path leaves the others alone.                  *)
LEMMA ArrayPinOnly ==
  ASSUME TypeInv, NEW h \in Hooks, NEW m, pins' = [pins EXCEPT ![ArrayOf(h)] = m]
  PROVE  /\ pins'[ArrayOf(h)] = m /\ pins'[Ring] = pins[Ring]
         /\ \A g \in Hooks : pins'[IdsOf(g)] = pins[IdsOf(g)]
         /\ \A g \in Hooks \ {h} : pins'[ArrayOf(g)] = pins[ArrayOf(g)]
<1>1. \A p \in Paths : pins'[p] = IF p = ArrayOf(h) THEN m ELSE pins[p]
  BY PathFacts DEF TypeInv
<1>2. ArrayOf(h) \in Paths /\ Ring \in Paths /\ Ring # ArrayOf(h)
  BY PathFacts
<1>3. ASSUME NEW g \in Hooks
      PROVE  pins'[IdsOf(g)] = pins[IdsOf(g)]
  <2>1. IdsOf(g) \in Paths /\ IdsOf(g) # ArrayOf(h)
    BY DEF Paths, ArrayOf, IdsOf
  <2> QED
    BY <1>1, <2>1
<1>4. ASSUME NEW g \in Hooks \ {h}
      PROVE  pins'[ArrayOf(g)] = pins[ArrayOf(g)]
  <2>1. ArrayOf(g) \in Paths /\ ArrayOf(g) # ArrayOf(h)
    BY DEF Paths, ArrayOf, IdsOf
  <2> QED
    BY <1>1, <2>1
<1> QED
  BY <1>1, <1>2, <1>3, <1>4
(* The same for the other map of a hook.                                   *)
LEMMA IdsPinOnly ==
  ASSUME TypeInv, NEW h \in Hooks, NEW m, pins' = [pins EXCEPT ![IdsOf(h)] = m]
  PROVE  /\ pins'[IdsOf(h)] = m /\ pins'[Ring] = pins[Ring]
         /\ \A g \in Hooks : pins'[ArrayOf(g)] = pins[ArrayOf(g)]
         /\ \A g \in Hooks \ {h} : pins'[IdsOf(g)] = pins[IdsOf(g)]
<1>1. \A p \in Paths : pins'[p] = IF p = IdsOf(h) THEN m ELSE pins[p]
  BY PathFacts DEF TypeInv
<1>2. IdsOf(h) \in Paths /\ Ring \in Paths /\ Ring # IdsOf(h)
  BY PathFacts
<1>3. ASSUME NEW g \in Hooks
      PROVE  pins'[ArrayOf(g)] = pins[ArrayOf(g)]
  <2>1. ArrayOf(g) \in Paths /\ ArrayOf(g) # IdsOf(h)
    BY DEF Paths, ArrayOf, IdsOf
  <2> QED
    BY <1>1, <2>1
<1>4. ASSUME NEW g \in Hooks \ {h}
      PROVE  pins'[IdsOf(g)] = pins[IdsOf(g)]
  <2>1. IdsOf(g) \in Paths /\ IdsOf(g) # IdsOf(h)
    BY DEF Paths, ArrayOf, IdsOf
  <2> QED
    BY <1>1, <2>1
<1> QED
  BY <1>1, <1>2, <1>3, <1>4

(* Opening or pinning the maps, hook by hook.                              *)
LEMMA StartInvStep ==
  ASSUME TypeInv, PhaseInv, StartInv, RunInv, [ProcessNext]_processVars
  PROVE  StartInv'
<1> USE MapAssumption, ProcessAssumption, PathFacts
    DEF TypeInv, PhaseInv, StartInv, Initialising, Ending, Up, Unopened, OpenOK, Pinned, HalfPinned,
        KeepsPair, Covered, EnsureOpens, MapPairs, Maps
<1>1. ASSUME NEW ok \in BOOLEAN, Boot(ok)
      PROVE  StartInv'
  <2>1. \A h \in Hooks : \E k \in 1..Len(HookOrder) : HookOrder[k] = h
    BY DEF Hooks
  <2>2. pc = "down" /\ UNCHANGED <<pins, hookMaps>>
    BY <1>1 DEF Boot, EnsureBpffsMounted
  <2>3. CASE pc' = "ensure" /\ todo' = HookOrder
    <3>1. \A h \in Hooks : Unopened(h)'
      BY <2>2
    <3>2. \A h \in Hooks : \E k \in 1..Len(todo') : todo'[k] = h
      BY <2>1, <2>3
    <3>3. \A h \in Hooks : KeepsPair(h)'
      BY <1>1, <2>2 DEF Boot
    <3> HIDE DEF Unopened, OpenOK, HalfPinned, Pinned, KeepsPair, Covered, EnsureOpens
    <3> QED
      BY <2>3, <3>1, <3>2, <3>3
  <2>4. CASE pc' = "down" /\ lastEnd' = "noBpffs"
    BY <2>2, <2>4
  <2> QED
    BY <1>1, <2>3, <2>4 DEF Boot
<1>2. ASSUME pc = "ensure", EnsureOpen(Head(todo)), Ensured, UNCHANGED initRest
      PROVE  StartInv'
  <2>0. PICK g \in Hooks : g = Head(todo)
    BY <1>2, HeadHook
  <2>1. /\ UNCHANGED pins /\ EnsureOpens(g)
        /\ hookMaps' = [hookMaps EXCEPT ![g] = [array |-> pins[ArrayOf(g)], ids |-> pins[IdsOf(g)]]]
    BY <1>2, <2>0 DEF EnsureOpen
  <2>2. OpenOK(g)'
    BY <2>1
  <2>3. \A h \in Hooks \ {g} : (Unopened(h)' <=> Unopened(h)) /\ (OpenOK(h)' <=> OpenOK(h))
    BY <2>1
  <2>4. todo' = Tail(todo) /\ pc' \in {"ensure", "klog"}
    BY <1>2 DEF Ensured
  <2>5. \A h \in Hooks : OpenOK(h) \/ \E k \in 1..Len(todo) : todo[k] = h
    BY <1>2
  <2>6. \A k \in 1..Len(todo) : todo[k] = g \/ \E j \in 1..Len(todo') : todo'[j] = todo[k]
    BY <1>2, <2>0, <2>4, HeadHook
  <2>7. \A h \in Hooks : Unopened(h) \/ OpenOK(h)
    BY <1>2
  <2>10. \A h \in Hooks : KeepsPair(h)'
    BY <1>2, <2>1 DEF initRest
  <2> HIDE DEF OpenOK, Unopened, Pinned, HalfPinned, KeepsPair, Covered, EnsureOpens
  <2>8. \A h \in Hooks : OpenOK(h)' \/ \E k \in 1..Len(todo') : todo'[k] = h
    <3> HIDE DEF TypeInv, PhaseInv, StartInv
    <3>1. ASSUME NEW h \in Hooks \ {g}
          PROVE  OpenOK(h)' \/ \E k \in 1..Len(todo') : todo'[k] = h
      <4>1. CASE OpenOK(h)
        BY <2>3, <4>1
      <4>2. CASE \E k \in 1..Len(todo) : todo[k] = h
        BY <2>6, <4>2
      <4> QED
        BY <2>5, <4>1, <4>2
    <3> QED
      BY <2>2, <3>1
  <2>9. \A h \in Hooks : Unopened(h)' \/ OpenOK(h)'
    BY <2>2, <2>3, <2>7
  <2> QED
    BY <2>4, <2>8, <2>9, <2>10
<1>3. ASSUME pc = "ensure", MapsLeft, EnsureCreate(Head(todo), Fresh), pc' = "pinArray",
             UNCHANGED <<initRest, todo>>
      PROVE  StartInv'
  <2>1. Fresh \in [Paths -> 1..MaxMaps] /\ Head(todo) \in Hooks
    BY <1>3, FreshMaps, HeadHook
  <2>2. /\ made' = [array |-> Fresh[ArrayOf(Head(todo))], ids |-> Fresh[IdsOf(Head(todo))]]
        /\ ~EnsureOpens(Head(todo)) /\ UNCHANGED <<pins, hookMaps, todo>> /\ pc' = "pinArray"
    BY <1>3 DEF EnsureCreate
  <2>3. /\ Fresh[ArrayOf(Head(todo))] \in 1..MaxMaps /\ Fresh[IdsOf(Head(todo))] \in 1..MaxMaps
        /\ NoMap \notin 1..MaxMaps
    <3> HIDE DEF TypeInv, PhaseInv, StartInv
    <3> QED
      BY <2>1, NoMapIsNone
  <2>4. made'.array # NoMap /\ made'.ids # NoMap
    <3> HIDE DEF TypeInv, PhaseInv, StartInv
    <3> QED
      BY <2>2, <2>3
  <2>5. UNCHANGED <<pins, hookMaps, todo, before>>
    BY <1>3, <2>2 DEF initRest
  <2>6. /\ \A h \in Hooks : Unopened(h) \/ OpenOK(h)
        /\ \A h \in Hooks : OpenOK(h) \/ \E k \in 1..Len(todo) : todo[k] = h
        /\ \A h \in Hooks : KeepsPair(h)
    BY <1>3
  <2>7. \A h \in Hooks : /\ Unopened(h)' <=> Unopened(h)
                         /\ OpenOK(h)' <=> OpenOK(h)
                         /\ KeepsPair(h)' <=> KeepsPair(h)
    BY <2>5
  <2>8. ~EnsureOpens(Head(todo))'
    BY <2>2
  <2> HIDE DEF OpenOK, Unopened, Pinned, HalfPinned, KeepsPair, Covered, EnsureOpens
  <2> QED
    BY <1>3, <2>2, <2>4, <2>5, <2>6, <2>7, <2>8
<1>4. ASSUME pc = "pinArray", PinArray(Head(todo)), pc' = "pinIds", UNCHANGED <<initRest, todo>>
      PROVE  StartInv'
  <2>0. PICK g \in Hooks : g = Head(todo)
    BY <1>4, HeadHook
  <2>1. /\ pins' = [pins EXCEPT ![ArrayOf(g)] = made.array] /\ ~Pinned(ArrayOf(g))
        /\ UNCHANGED <<hookMaps, made, todo, before>>
    BY <1>4, <2>0 DEF PinArray, initRest
  <2>2. /\ pins'[ArrayOf(g)] = made.array /\ pins'[IdsOf(g)] = pins[IdsOf(g)]
        /\ \A h \in Hooks \ {g} : /\ pins'[ArrayOf(h)] = pins[ArrayOf(h)]
                                  /\ pins'[IdsOf(h)] = pins[IdsOf(h)]
    <3> HIDE DEF TypeInv, PhaseInv, StartInv
    <3> QED
      BY <2>1, ArrayPinOnly
  <2>3. Unopened(g) /\ KeepsPair(g)
    BY <1>4, <2>0
  <2>4. Unopened(g)' /\ (Pinned(IdsOf(g))' => g \in before')
    BY <2>1, <2>2, <2>3
  <2>5. \A h \in Hooks \ {g} : /\ Unopened(h)' <=> Unopened(h)
                               /\ OpenOK(h)' <=> OpenOK(h)
                               /\ KeepsPair(h)' <=> KeepsPair(h)
    BY <2>1, <2>2
  <2>6. /\ \A h \in Hooks : Unopened(h) \/ OpenOK(h)
        /\ \A h \in Hooks : OpenOK(h) \/ \E k \in 1..Len(todo) : todo[k] = h
        /\ \A h \in Hooks : KeepsPair(h)
        /\ \E k \in 1..Len(todo) : todo[k] = g
        /\ made.array # NoMap /\ made.ids # NoMap
    BY <1>4, <2>0
  <2>7. pins'[ArrayOf(Head(todo'))] = made'.array /\ made'.array # NoMap /\ made'.ids # NoMap
    BY <2>0, <2>1, <2>2, <2>6
  <2>8. \A h \in Hooks : Unopened(h)' \/ OpenOK(h)'
    BY <2>4, <2>5, <2>6
  <2>9. \A h \in Hooks : OpenOK(h)' \/ \E k \in 1..Len(todo') : todo'[k] = h
    <3> HIDE DEF OpenOK, TypeInv, PhaseInv, StartInv
    <3> QED
      BY <2>1, <2>5, <2>6
  <2>10. \A h \in Hooks : KeepsPair(h)' \/ h = Head(todo')
    BY <2>0, <2>1, <2>5, <2>6
  <2>11. /\ Unopened(Head(todo))'
         /\ Pinned(IdsOf(Head(todo)))' => Head(todo') \in before'
    BY <2>0, <2>1, <2>4
  <2> HIDE DEF OpenOK, Unopened, Pinned, HalfPinned, KeepsPair, Covered, EnsureOpens
  <2> QED
    BY <1>4, <2>7, <2>8, <2>9, <2>10, <2>11
<1>5. ASSUME pc = "pinArray", PinArrayFails, pc' = "fail", UNCHANGED <<initRest, todo>>
      PROVE  StartInv'
  <2>1. UNCHANGED <<pins, hookMaps, before>>
    BY <1>5 DEF PinArrayFails, initRest
  <2>2. \A h \in Hooks : (Unopened(h) /\ KeepsPair(h)) \/ Covered(h)
    BY <1>5, <2>1
  <2> QED
    BY <1>5, <2>1, <2>2
<1>6. ASSUME pc = "pinIds", PinIds(Head(todo)), Ensured, UNCHANGED initRest
      PROVE  StartInv'
  <2>0. PICK g \in Hooks : g = Head(todo)
    BY <1>6, HeadHook
  <2>1. /\ pins' = [pins EXCEPT ![IdsOf(g)] = made.ids]
        /\ hookMaps' = [hookMaps EXCEPT ![g] = made]
        /\ pins[ArrayOf(g)] = made.array /\ made.array # NoMap /\ made.ids # NoMap
    BY <1>6, <2>0 DEF PinIds
  <2>a. /\ pins'[IdsOf(g)] = made.ids /\ pins'[ArrayOf(g)] = made.array /\ hookMaps'[g] = made
        /\ \A h \in Hooks \ {g} : /\ hookMaps'[h] = hookMaps[h]
                                  /\ pins'[ArrayOf(h)] = pins[ArrayOf(h)]
                                  /\ pins'[IdsOf(h)] = pins[IdsOf(h)]
    <3>1. hookMaps'[g] = made /\ \A h \in Hooks \ {g} : hookMaps'[h] = hookMaps[h]
      BY <2>1
    <3> HIDE DEF TypeInv, PhaseInv, StartInv
    <3> QED
      BY <2>1, <3>1, IdsPinOnly
  <2>2. OpenOK(g)'
    BY <2>1, <2>a
  <2>3. \A h \in Hooks \ {g} : (Unopened(h)' <=> Unopened(h)) /\ (OpenOK(h)' <=> OpenOK(h))
    BY <2>a
  <2>4. todo' = Tail(todo) /\ pc' \in {"ensure", "klog"}
    BY <1>6 DEF Ensured
  <2>5. \A h \in Hooks : OpenOK(h) \/ \E k \in 1..Len(todo) : todo[k] = h
    BY <1>6
  <2>6. \A k \in 1..Len(todo) : todo[k] = g \/ \E j \in 1..Len(todo') : todo'[j] = todo[k]
    BY <1>6, <2>0, <2>4, HeadHook
  <2>7. \A h \in Hooks : Unopened(h) \/ OpenOK(h)
    BY <1>6
  <2>10. \A h \in Hooks : KeepsPair(h)'
    <3>1. before' = before
      BY <1>6 DEF initRest
    <3>2. ~HalfPinned(g)'
      BY <2>1, <2>a
    <3>3. \A h \in Hooks \ {g} : KeepsPair(h)
      BY <1>6, <2>0
    <3>4. \A h \in Hooks \ {g} : HalfPinned(h)' <=> HalfPinned(h)
      BY <2>a
    <3> HIDE DEF HalfPinned, TypeInv, PhaseInv, StartInv
    <3> QED
      BY <3>1, <3>2, <3>3, <3>4
  <2> HIDE DEF OpenOK, Unopened, Pinned, HalfPinned, KeepsPair, Covered, EnsureOpens
  <2>8. \A h \in Hooks : OpenOK(h)' \/ \E k \in 1..Len(todo') : todo'[k] = h
    <3> HIDE DEF TypeInv, PhaseInv, StartInv
    <3>1. ASSUME NEW h \in Hooks \ {g}
          PROVE  OpenOK(h)' \/ \E k \in 1..Len(todo') : todo'[k] = h
      <4>1. CASE OpenOK(h)
        BY <2>3, <4>1
      <4>2. CASE \E k \in 1..Len(todo) : todo[k] = h
        BY <2>6, <4>2
      <4> QED
        BY <2>5, <4>1, <4>2
    <3> QED
      BY <2>2, <3>1
  <2>9. \A h \in Hooks : Unopened(h)' \/ OpenOK(h)'
    BY <2>2, <2>3, <2>7
  <2> QED
    BY <2>4, <2>8, <2>9, <2>10
<1>7. ASSUME pc = "pinIds", PinIdsFails(Head(todo)), pc' = "fail", UNCHANGED <<initRest, todo>>
      PROVE  StartInv'
  <2>0. PICK g \in Hooks : g = Head(todo)
    BY <1>7, HeadHook
  <2>1. pins' = [pins EXCEPT ![ArrayOf(g)] = NoMap] /\ UNCHANGED <<hookMaps, before>>
    BY <1>7, <2>0 DEF PinIdsFails, initRest
  <2>2. /\ pins'[ArrayOf(g)] = NoMap /\ pins'[IdsOf(g)] = pins[IdsOf(g)]
        /\ \A h \in Hooks \ {g} : /\ pins'[ArrayOf(h)] = pins[ArrayOf(h)]
                                  /\ pins'[IdsOf(h)] = pins[IdsOf(h)]
    <3> HIDE DEF TypeInv, PhaseInv, StartInv
    <3> QED
      BY <2>1, ArrayPinOnly
  <2>3. Unopened(g) /\ (Pinned(IdsOf(g)) => g \in before)
    BY <1>7, <2>0
  <2>4. Unopened(g)' /\ KeepsPair(g)'
    BY <2>1, <2>2, <2>3
  <2>5. \A h \in Hooks \ {g} : (Unopened(h) /\ KeepsPair(h)) \/ Covered(h)
    BY <1>7, <2>0
  <2>6. \A h \in Hooks \ {g} : /\ Unopened(h)' <=> Unopened(h)
                               /\ KeepsPair(h)' <=> KeepsPair(h)
                               /\ Covered(h)' <=> Covered(h)
    BY <2>1, <2>2
  <2> HIDE DEF OpenOK, Unopened, Pinned, HalfPinned, KeepsPair, Covered, EnsureOpens
  <2> QED
    BY <1>7, <2>4, <2>5, <2>6
<1>8. ASSUME InitKlog
      PROVE  StartInv'
  BY <1>8 DEF InitKlog, RingInit, initRest, mapVars, netVars
<1>9. ASSUME FirstUpdateDone
      PROVE  StartInv'
  BY <1>9 DEF FirstUpdateDone, initRest, mapVars, netVars
<1>10. ASSUME Unpin
      PROVE  StartInv'
  BY <1>10 DEF Unpin, RingCleanup, initRest, mapVars, netVars
<1>11. ASSUME NEW h \in Hooks, pc \in {"cleanup", "fail"}, UnlinkArray(h),
             UNCHANGED <<initRest, pc, todo>>
      PROVE  StartInv'
  <2>1. /\ pins' = [pins EXCEPT ![ArrayOf(h)] = NoMap]
        /\ hookMaps[h].array # NoMap /\ pc' = pc
    BY <1>11 DEF UnlinkArray
  <2>2. \A g \in Hooks \ {h} : /\ pins'[ArrayOf(g)] = pins[ArrayOf(g)]
                               /\ pins'[IdsOf(g)] = pins[IdsOf(g)]
    <3> HIDE DEF TypeInv, PhaseInv, StartInv
    <3> QED
      BY <2>1, ArrayPinOnly, IdsPinOnly
  <2>3. \A g \in Hooks \ {h} : hookMaps'[g] = hookMaps[g]
    BY <1>11, Zenon DEF UnlinkArray, TypeInv
  <2>6. /\ before' = before
        /\ pins'[ArrayOf(h)] = NoMap /\ pins'[IdsOf(h)] = pins[IdsOf(h)]
        /\ hookMaps'[h].ids = hookMaps[h].ids
    <3>1. before' = before /\ hookMaps'[h].ids = hookMaps[h].ids
      BY <1>11 DEF UnlinkArray, initRest
    <3> HIDE DEF TypeInv, PhaseInv, StartInv
    <3> QED
      BY <2>1, <3>1, ArrayPinOnly, IdsPinOnly
  <2>4. CASE pc = "cleanup"
    BY <2>1, <2>4
  <2>5. CASE pc = "fail"
    <3>1. \A g \in Hooks : (Unopened(g) /\ KeepsPair(g)) \/ Covered(g)
      BY <2>5
    <3>2. Covered(h)'
      BY <2>1, <2>6, <3>1
    <3>3. \A g \in Hooks \ {h} : /\ Unopened(g)' <=> Unopened(g)
                                 /\ KeepsPair(g)' <=> KeepsPair(g)
                                 /\ Covered(g)' <=> Covered(g)
      BY <2>2, <2>3, <2>6
    <3> HIDE DEF OpenOK, Unopened, Pinned, HalfPinned, KeepsPair, Covered, EnsureOpens
    <3> QED
      BY <2>1, <2>5, <3>1, <3>2, <3>3
  <2> QED
    BY <1>11, <2>4, <2>5
<1>12. ASSUME NEW h \in Hooks, pc \in {"cleanup", "fail"}, UnlinkIds(h),
             UNCHANGED <<initRest, pc, todo>>
      PROVE  StartInv'
  <2>1. /\ pins' = [pins EXCEPT ![IdsOf(h)] = NoMap]
        /\ hookMaps[h].ids # NoMap /\ pc' = pc
    BY <1>12 DEF UnlinkIds
  <2>2. \A g \in Hooks \ {h} : /\ pins'[ArrayOf(g)] = pins[ArrayOf(g)]
                               /\ pins'[IdsOf(g)] = pins[IdsOf(g)]
    <3> HIDE DEF TypeInv, PhaseInv, StartInv
    <3> QED
      BY <2>1, ArrayPinOnly, IdsPinOnly
  <2>3. \A g \in Hooks \ {h} : hookMaps'[g] = hookMaps[g]
    BY <1>12, Zenon DEF UnlinkIds, TypeInv
  <2>6. /\ before' = before
        /\ pins'[IdsOf(h)] = NoMap /\ pins'[ArrayOf(h)] = pins[ArrayOf(h)]
        /\ hookMaps'[h].array = hookMaps[h].array
    <3>1. before' = before /\ hookMaps'[h].array = hookMaps[h].array
      BY <1>12 DEF UnlinkIds, initRest
    <3> HIDE DEF TypeInv, PhaseInv, StartInv
    <3> QED
      BY <2>1, <3>1, ArrayPinOnly, IdsPinOnly
  <2>4. CASE pc = "cleanup"
    BY <2>1, <2>4
  <2>5. CASE pc = "fail"
    <3>1. \A g \in Hooks : (Unopened(g) /\ KeepsPair(g)) \/ Covered(g)
      BY <2>5
    <3>2. Covered(h)'
      BY <2>1, <2>6, <3>1
    <3>3. \A g \in Hooks \ {h} : /\ Unopened(g)' <=> Unopened(g)
                                 /\ KeepsPair(g)' <=> KeepsPair(g)
                                 /\ Covered(g)' <=> Covered(g)
      BY <2>2, <2>3, <2>6
    <3> HIDE DEF OpenOK, Unopened, Pinned, HalfPinned, KeepsPair, Covered, EnsureOpens
    <3> QED
      BY <2>1, <2>5, <3>1, <3>2, <3>3
  <2> QED
    BY <1>12, <2>4, <2>5
<1>13. ASSUME Exit
      PROVE  StartInv'
  <2>1. /\ pc' = "down" /\ UNCHANGED pins
        /\ \A h \in Hooks : Unopened(h)'
    BY <1>13 DEF Exit, DropMaps, NoMaps
  <2>2. lastEnd' = "failed" => \A h \in Hooks : KeepsPair(h)'
    <3>1. before' = before /\ \A h \in Hooks : hookMaps[h].array = NoMap /\ hookMaps[h].ids = NoMap
      BY <1>13 DEF Exit, NoMaps
    <3>2. lastEnd' = "failed" => pc = "fail"
      BY <1>13 DEF Exit
    <3>3. pc = "fail" => \A h \in Hooks : KeepsPair(h)
      BY <3>1
    <3> QED
      BY <2>1, <3>1, <3>2, <3>3
  <2> QED
    BY <2>1, <2>2
<1>14. ASSUME NEW how \in {"crash", "abort"}, Up, Die(how)
      PROVE  StartInv'
  BY <1>14 DEF Die, DropMaps, DropHooks, NoMaps, NoHook, mapVars, netVars
<1>15. ASSUME NEW s \in Slots, UnloadCase(s)
      PROVE  StartInv'
  BY <1>15 DEF UnloadCase, Unload, Detach, HookDetach, TcDoDetach, XdpDoDetach, mapVars, netVars
<1>16. ASSUME NEW s \in Slots, NEW ok \in BOOLEAN, Load(s, ok)
      PROVE  StartInv'
  BY <1>16 DEF Load, BindMaps, Attach, HookAttach, PreAttachCheck, TcDoAttach, XdpDoAttach, mapVars, netVars
<1>17. ASSUME NEW want \in SUBSET Slots, Update(want)
      PROVE  StartInv'
  BY <1>17 DEF Update, mapVars, netVars
<1>18. ASSUME Stop
      PROVE  StartInv'
  BY <1>18 DEF Stop, mapVars, netVars
<1>19. ASSUME NEW i \in Nics, pc \in {"run", "stop"}, NicGone(i),
             UNCHANGED <<mapVars, pc, todo, run, loaded, loading, leaving, updates, toStop, late,
                         crashes, lastEnd, before>>
      PROVE  StartInv'
  BY <1>19 DEF NicGone, mapVars, netVars
<1>20. ASSUME NEW i \in Nics, pc \in {"run", "stop"}, ForeignFilter(i),
             UNCHANGED <<mapVars, pc, todo, run, loaded, loading, leaving, updates, toStop, late,
                         crashes, lastEnd, before>>
      PROVE  StartInv'
  BY <1>20 DEF ForeignFilter, mapVars, netVars
<1>21. ASSUME UNCHANGED processVars
      PROVE  StartInv'
  BY <1>21 DEF processVars, mapVars, netVars
<1>22. ASSUME pc = "ensure", EnsureRefused, pc' = "fail", UNCHANGED <<initRest, todo>>
      PROVE  StartInv'
  <2>1. UNCHANGED <<pins, hookMaps, before>>
    BY <1>22 DEF EnsureRefused, mapVars, initRest
  <2>2. \A h \in Hooks : (Unopened(h) /\ KeepsPair(h)) \/ Covered(h)
    BY <1>22, <2>1
  <2> QED
    BY <1>22, <2>1, <2>2
<1>23. ASSUME pc = "klog", RingRefused, pc' = "fail", UNCHANGED <<initRest, todo>>
      PROVE  StartInv'
  <2>1. UNCHANGED <<pins, hookMaps, before>>
    BY <1>23 DEF RingRefused, initRest
  <2>2. \A h \in Hooks : (Unopened(h) /\ KeepsPair(h)) \/ Covered(h)
    BY <1>23, <2>1
  <2> QED
    BY <1>23, <2>1, <2>2
<1>24. ASSUME pc = "watch", updates = 0, pc' = "fail", UNCHANGED <<mapVars, initRest, todo>>
      PROVE  StartInv'
  <2>1. UNCHANGED <<pins, hookMaps, before>>
    BY <1>24 DEF mapVars, initRest
  <2>2. \A h \in Hooks : OpenOK(h)
    BY <1>24 DEF RunInv
  <2>3. \A h \in Hooks : Covered(h)
    BY <2>2
  <2> QED
    BY <1>24, <2>1, <2>3
<1>25. ASSUME MoveCase
      PROVE  StartInv'
  BY <1>25 DEF MoveCase, initRest, mapVars, netVars
<1>26. ASSUME DestroyCase
      PROVE  StartInv'
  BY <1>26 DEF DestroyCase, DropHooks, NoHook, mapVars, netVars
<1> HIDE DEF TypeInv, PhaseInv, StartInv, Initialising, Ending, Up, Unopened, OpenOK, Pinned, HalfPinned,
        KeepsPair, Covered, EnsureOpens, MapPairs, Maps
<1> QED
  BY StepCases, <1>1, <1>2, <1>3, <1>4, <1>5, <1>6, <1>7, <1>8, <1>9, <1>10, <1>11,
    <1>12, <1>13, <1>14, <1>15, <1>16, <1>17, <1>18, <1>19, <1>20, <1>21,
    <1>22, <1>23, <1>24, <1>25, <1>26
  DEF StepCase, InitMaps, InitMapsFails, InitThrows, Cleanup, Environment

(* The maps of a running process, and their end.                           *)
LEMMA RunInvStep ==
  ASSUME TypeInv, PhaseInv, StartInv, RunInv, [ProcessNext]_processVars
  PROVE  RunInv'
<1> USE MapAssumption, ProcessAssumption, PathFacts
    DEF TypeInv, PhaseInv, RunInv, Initialising, Ending, Up, OpenOK, Covered, Pinned, MapPairs, Maps
<1>1. ASSUME NEW ok \in BOOLEAN, Boot(ok)
      PROVE  RunInv'
  BY <1>1 DEF Boot, EnsureBpffsMounted, mapVars, netVars
<1>2. ASSUME pc = "ensure", EnsureOpen(Head(todo)), Ensured, UNCHANGED initRest
      PROVE  RunInv'
  BY <1>2, HeadHook DEF EnsureOpen, EnsureOpens, Ensured, initRest, mapVars, netVars
<1>3. ASSUME pc = "ensure", MapsLeft, EnsureCreate(Head(todo), Fresh), pc' = "pinArray",
             UNCHANGED <<initRest, todo>>
      PROVE  RunInv'
  BY <1>3 DEF EnsureCreate, initRest, mapVars, netVars
<1>4. ASSUME pc = "pinArray", PinArray(Head(todo)), pc' = "pinIds", UNCHANGED <<initRest, todo>>
      PROVE  RunInv'
  BY <1>4, HeadHook DEF PinArray, initRest, mapVars, netVars
<1>5. ASSUME pc = "pinArray", PinArrayFails, pc' = "fail", UNCHANGED <<initRest, todo>>
      PROVE  RunInv'
  BY <1>5, HeadHook DEF PinArrayFails, initRest, NoMaps, mapVars, netVars
<1>6. ASSUME pc = "pinIds", PinIds(Head(todo)), Ensured, UNCHANGED initRest
      PROVE  RunInv'
  BY <1>6, HeadHook DEF PinIds, Ensured, initRest, NoMaps, mapVars, netVars
<1>7. ASSUME pc = "pinIds", PinIdsFails(Head(todo)), pc' = "fail", UNCHANGED <<initRest, todo>>
      PROVE  RunInv'
  BY <1>7, HeadHook DEF PinIdsFails, initRest, NoMaps, mapVars, netVars
<1>8. ASSUME InitKlog
      PROVE  RunInv'
  <2>1. \A h \in Hooks : OpenOK(h)
    BY <1>8 DEF InitKlog, StartInv
  <2>2. Fresh[Ring] \in 1..MaxMaps /\ Fresh[Ring] # NoMap
    BY <1>8, FreshMaps, NoMapIsNone DEF InitKlog
  <2>3. /\ pins'[Ring] # NoMap /\ ringFd' = pins'[Ring]
        /\ \A p \in Paths \ {Ring} : pins'[p] = pins[p]
    <3>1. CASE Pinned(Ring)
      BY <1>8, <3>1 DEF InitKlog, RingInit
    <3>2. CASE ~Pinned(Ring)
      BY <1>8, <2>2, <3>2 DEF InitKlog, RingInit
    <3> QED
      BY <3>1, <3>2
  <2>4. \A h \in Hooks : OpenOK(h)'
    <3>1. UNCHANGED hookMaps
      BY <1>8 DEF InitKlog, RingInit
    <3> HIDE DEF TypeInv, PhaseInv, RunInv
    <3> QED
      BY <2>1, <2>3, <3>1
  <2>5. \A s \in Slots : bound'[s] = NoProg
    BY <1>8 DEF InitKlog, initRest, netVars
  <2> QED
    BY <1>8, <2>3, <2>4, <2>5 DEF InitKlog
<1>9. ASSUME FirstUpdateDone
      PROVE  RunInv'
  BY <1>9 DEF FirstUpdateDone, initRest, mapVars, netVars
<1>10. ASSUME Unpin
      PROVE  RunInv'
  BY <1>10 DEF Unpin, RingCleanup, initRest, mapVars, netVars
<1>11. ASSUME NEW h \in Hooks, pc \in {"cleanup", "fail"}, UnlinkArray(h),
             UNCHANGED <<initRest, pc, todo>>
      PROVE  RunInv'
  BY <1>11 DEF UnlinkArray, initRest, mapVars, netVars
<1>12. ASSUME NEW h \in Hooks, pc \in {"cleanup", "fail"}, UnlinkIds(h),
             UNCHANGED <<initRest, pc, todo>>
      PROVE  RunInv'
  BY <1>12 DEF UnlinkIds, initRest, mapVars, netVars
<1>13. ASSUME Exit
      PROVE  RunInv'
  <2>1. pc' = "down" /\ UNCHANGED pins
    BY <1>13 DEF Exit, DropMaps
  <2>2. ASSUME lastEnd' = "exit"
        PROVE  \A p \in Paths : pins[p] = NoMap
    <3>1. pc = "cleanup" /\ ~late
      BY <1>13, <2>2 DEF Exit
    <3>2. \A h \in Hooks : pins[ArrayOf(h)] = NoMap /\ pins[IdsOf(h)] = NoMap
      BY <1>13, <3>1 DEF Exit, NoMaps
    <3>3. pins[Ring] = NoMap
      BY <3>1
    <3> HIDE PathFacts, MapAssumption, ProcessAssumption DEF TypeInv, PhaseInv, RunInv
    <3> QED
      <4>1. ASSUME NEW p \in Paths
            PROVE  pins[p] = NoMap
        <5>1. CASE p = Ring
          BY <3>2, <3>3, <5>1
        <5>2. ASSUME NEW h \in Hooks, p = ArrayOf(h) \/ p = IdsOf(h)
              PROVE  pins[p] = NoMap
          BY <3>2, <3>3, <5>2
        <5> QED
          BY <5>1, <5>2, PathCases
      <4> QED
        BY <4>1
  <2> QED
    BY <2>1, <2>2
<1>14. ASSUME NEW how \in {"crash", "abort"}, Up, Die(how)
      PROVE  RunInv'
  BY <1>14 DEF Die, DropMaps, DropHooks, NoMaps, NoHook, mapVars, netVars
<1>15. ASSUME NEW s \in Slots, UnloadCase(s)
      PROVE  RunInv'
  BY <1>15 DEF UnloadCase, Unload, Detach, HookDetach, TcDoDetach, XdpDoDetach, mapVars, netVars
<1>16. ASSUME NEW s \in Slots, NEW ok \in BOOLEAN, Load(s, ok)
      PROVE  RunInv'
  <2>1. /\ pins' = BoundMaps(Fresh) /\ UNCHANGED <<hookMaps, ringFd, pc>>
        /\ late' = (late \/ pc \notin {"watch", "run"}) /\ pc # "down"
    BY <1>16 DEF Load, BindMaps
  <2>2. \A t \in Slots : bound'[t] = bound[t] \/ bound'[t] = NoProg \/ bound'[t].maps = BoundMaps(Fresh)
    BY <1>16 DEF Load, Attach
  <2>3. CASE pc \in {"watch", "run"}
    <3>0. /\ \A h \in Hooks : pins[ArrayOf(h)] # NoMap /\ pins[IdsOf(h)] # NoMap
          /\ pins[Ring] # NoMap
      BY <2>3
    <3>1. \A p \in Paths : pins[p] # NoMap
      <4>1. ASSUME NEW p \in Paths
            PROVE  pins[p] # NoMap
        <5>1. CASE p = Ring
          BY <3>0, <5>1
        <5>2. ASSUME NEW h \in Hooks, p = ArrayOf(h) \/ p = IdsOf(h)
              PROVE  pins[p] # NoMap
          BY <3>0, <5>2
        <5> QED
          BY <5>1, <5>2, PathCases
      <4> QED
        BY <4>1
    <3>2. BoundMaps(Fresh) = pins
      BY <3>1 DEF BoundMaps
    <3> QED
      BY <2>1, <2>2, <2>3, <3>2
  <2>4. CASE pc \notin {"watch", "run"}
    BY <2>1, <2>4
  <2> QED
    BY <2>3, <2>4
<1>17. ASSUME NEW want \in SUBSET Slots, Update(want)
      PROVE  RunInv'
  BY <1>17 DEF Update, mapVars, netVars
<1>18. ASSUME Stop
      PROVE  RunInv'
  BY <1>18 DEF Stop, mapVars, netVars
<1>19. ASSUME NEW i \in Nics, pc \in {"run", "stop"}, NicGone(i),
             UNCHANGED <<mapVars, pc, todo, run, loaded, loading, leaving, updates, toStop, late,
                         crashes, lastEnd, before>>
      PROVE  RunInv'
  BY <1>19 DEF NicGone, mapVars, netVars
<1>20. ASSUME NEW i \in Nics, pc \in {"run", "stop"}, ForeignFilter(i),
             UNCHANGED <<mapVars, pc, todo, run, loaded, loading, leaving, updates, toStop, late,
                         crashes, lastEnd, before>>
      PROVE  RunInv'
  BY <1>20 DEF ForeignFilter, mapVars, netVars
<1>21. ASSUME UNCHANGED processVars
      PROVE  RunInv'
  BY <1>21 DEF processVars, mapVars, netVars
<1>22. ASSUME pc = "ensure", EnsureRefused, pc' = "fail", UNCHANGED <<initRest, todo>>
      PROVE  RunInv'
  BY <1>22 DEF EnsureRefused, initRest, mapVars, netVars
<1>23. ASSUME pc = "klog", RingRefused, pc' = "fail", UNCHANGED <<initRest, todo>>
      PROVE  RunInv'
  BY <1>23 DEF RingRefused, initRest, netVars
<1>24. ASSUME pc = "watch", updates = 0, pc' = "fail", UNCHANGED <<mapVars, initRest, todo>>
      PROVE  RunInv'
  BY <1>24 DEF initRest, mapVars, netVars
<1>25. ASSUME MoveCase
      PROVE  RunInv'
  BY <1>25 DEF MoveCase, initRest, mapVars, netVars
<1>26. ASSUME DestroyCase
      PROVE  RunInv'
  BY <1>26 DEF DestroyCase, DropHooks, NoHook, mapVars, netVars
<1> HIDE DEF TypeInv, PhaseInv, RunInv, Initialising, Ending, Up, OpenOK, Covered, Pinned, MapPairs, Maps
<1> QED
  BY StepCases, <1>1, <1>2, <1>3, <1>4, <1>5, <1>6, <1>7, <1>8, <1>9, <1>10, <1>11,
    <1>12, <1>13, <1>14, <1>15, <1>16, <1>17, <1>18, <1>19, <1>20, <1>21,
    <1>22, <1>23, <1>24, <1>25, <1>26
  DEF StepCase, InitMaps, InitMapsFails, InitThrows, Cleanup, Environment

-----------------------------------------------------------------------------
(* The invariant holds at first, ...                                       *)
LEMMA PInvInit == ProcessInit => PInv
<1> SUFFICES ASSUME ProcessInit
             PROVE  PInv
  OBVIOUS
<1> USE MapAssumption, ProcessAssumption, PathFacts
        DEF ProcessInit, MapInit, NetInit, NoMaps, NoHook
<1>1. TypeInv
  BY DEF TypeInv, Maps, MapPairs, Initialising, Ending
<1>2. PhaseInv
  BY DEF PhaseInv, Initialising, Ending, Up, Pinned
<1>3. NetInv
  BY DEF NetInv, Up
<1>4. StartInv
  BY DEF StartInv, Initialising, Unopened
<1>5. RunInv
  BY DEF RunInv, Ending
<1> QED
  BY <1>1, <1>2, <1>3, <1>4, <1>5 DEF PInv

(* ... every step keeps it, ...                                            *)
LEMMA PInvStep ==
  ASSUME PInv, [ProcessNext]_processVars
  PROVE  PInv'
BY TypeInvStep, PhaseInvStep, NetInvStep, StartInvStep, RunInvStep DEF PInv

(* ... and so every reachable state has it.                                *)
LEMMA PInvHolds == ProcessSpec => []PInv
BY PInvInit, PInvStep, PTL DEF ProcessSpec

-----------------------------------------------------------------------------
(* An XDP hook has one program at most, also when runs died; what a        *)
(* scheduler believes to be attached the kernel runs; nothing is pinned    *)
(* without bpffs (ebpf_with_net_hook.tpp 22-93).                           *)
THEOREM ProcessSafety == ProcessSpec => []ProcessInv
<1>1. ASSUME PInv
      PROVE  ProcessInv
  <2>1. ASSUME NEW s \in Slots, Cardinality(attached[s]) > 1
        PROVE  IsTc(s)
    <3>1. SUFFICES ASSUME ~IsTc(s)
                   PROVE  FALSE
      OBVIOUS
    <3>2. \A p, q \in attached[s] : p = q
      BY <1>1, <3>1 DEF PInv, NetInv
    <3>3. CASE attached[s] = {}
      BY <2>1, <3>3, FS_EmptySet
    <3>4. CASE attached[s] # {}
      <4>1. PICK p \in attached[s] : TRUE
        BY <3>4
      <4>2. attached[s] = {p}
        BY <3>2, <4>1
      <4>3. Cardinality({p}) = 1
        BY FS_Singleton
      <4> QED
        BY <2>1, <4>2, <4>3
    <3> QED
      BY <3>3, <3>4
  <2>2. AttachedInKernel
    BY <1>1 DEF PInv, NetInv, AttachedInKernel
  <2>3. /\ pins \in [Paths -> 1..MaxMaps \cup {NoMap}]
        /\ loaded \subseteq Slots /\ toStop \subseteq Slots /\ run \in 0..MaxRuns
    BY <1>1 DEF PInv, TypeInv, Maps
  <2>4. /\ (\E p \in Paths : Pinned(p)) => bpffs
        /\ \A s \in Slots : bound[s] # NoProg => s \in loaded
    BY <1>1 DEF PInv, PhaseInv
  <2>5. \A s \in Slots : attached[s] # {} => s[2] \in nics
    BY <1>1 DEF PInv, NetInv
  <2> QED
    BY <2>1, <2>2, <2>3, <2>4, <2>5 DEF ProcessInv, ProcessTypeOK
<1> QED
  BY <1>1, PInvHolds, PTL

(* The programs and the process meet in the same maps, whatever pins       *)
(* earlier runs left behind (pinned_prog_map.cc 460-504,                   *)
(* pinned_ringbuffer_map.cc 19-51).                                        *)
THEOREM MapsAreShared == ProcessSpec => []MapsShared
<1>1. ASSUME PInv
      PROVE  MapsShared
  <2>1. SUFFICES ASSUME pc \in {"watch", "run"}, NEW s \in Slots, bound[s] # NoProg, NEW p \in Paths
                 PROVE  bound[s].maps[p] = Opened(p)
    BY DEF MapsShared
  <2>2. /\ \A h \in Hooks : OpenOK(h)
        /\ ringFd = pins[Ring] /\ bound[s].maps = pins
    BY <1>1, <2>1 DEF PInv, RunInv
  <2>3. CASE p = Ring
    BY <2>2, <2>3, OpenedFacts
  <2>4. ASSUME NEW h \in Hooks, p = ArrayOf(h) \/ p = IdsOf(h)
        PROVE  bound[s].maps[p] = Opened(p)
    BY <2>2, <2>4, OpenedFacts DEF OpenOK
  <2> QED
    BY <2>3, <2>4, PathCases
<1> QED
  BY <1>1, PInvHolds, PTL

(* What is left in the kernel of a run is there because it died, of a      *)
(* signal or of the abort a late load or a vanished interface ends in; a   *)
(* stop without a late load has detached all by the time Daemon::stop is   *)
(* through its services (daemon.cc 43-56, loader.cc 128-172, 436-458).     *)
THEOREM OnlyDeathLeavesPrograms == ProcessSpec => []LeftByDeathOnly
<1>1. ASSUME PInv
      PROVE  LeftByDeathOnly
  <2>1. SUFFICES ASSUME NEW s \in Slots, NEW p \in attached[s], p.run \notin crashes
                 PROVE  Up /\ p.run = run /\ (pc \in {"join", "unpin", "destroy", "cleanup"} => late)
    BY DEF LeftByDeathOnly
  <2>2. Up /\ p.run = run /\ p = bound[s]
    BY <1>1, <2>1 DEF PInv, NetInv
  <2>3. p # NoProg
    BY <1>1, <2>1, ProcessAssumption DEF PInv, TypeInv
  <2>4. s \in loaded
    BY <1>1, <2>2, <2>3 DEF PInv, PhaseInv
  <2>5. pc \in {"join", "unpin", "destroy", "cleanup"} /\ ~late => loaded \subseteq toStop /\ toStop = {}
    BY <1>1 DEF PInv, PhaseInv, Ending
  <2> QED
    BY <2>2, <2>4, <2>5
<1> QED
  BY <1>1, PInvHolds, PTL

(* A run that ends in order, with no program loaded behind its back,       *)
(* leaves no pin (main.cc 170-177).                                        *)
THEOREM ExitRemovesPins == ProcessSpec => []ExitLeavesNoPin
<1>1. ASSUME PInv
      PROVE  ExitLeavesNoPin
  BY <1>1 DEF PInv, RunInv, ExitLeavesNoPin
<1> QED
  BY <1>1, PInvHolds, PTL

(* However a start fails, a hook it leaves half-pinned was so when the run *)
(* began (pinned_prog_map.cc 74-90, 463-503).                              *)
THEOREM FailedStartsUndoPins == ProcessSpec => []FailedStartKeepsPairs
<1>1. ASSUME PInv
      PROVE  FailedStartKeepsPairs
  BY <1>1 DEF PInv, StartInv, KeepsPair, FailedStartKeepsPairs
<1> QED
  BY <1>1, PInvHolds, PTL
=============================================================================
