------------------------------- MODULE Process -------------------------------
(***************************************************************************)
(* The process from main() (src/main.cc) to its end, again and again: the  *)
(* maps it pins (MapPinning), the schedulers it attaches (NetHook) and     *)
(* what the next run finds of them.  It may die at any step; it may be     *)
(* asked to stop while an update of the configuration is under way on the  *)
(* io thread.                                                              *)
(***************************************************************************)
EXTENDS MapPinning, NetHook

CONSTANTS
  MaxRuns,     \* bound: how often the process is started
  MaxUpdates,  \* bound: updates of the configuration after the first, per run
  MaxMaps      \* bound: maps of a path in use at a time

(* A program: the run that loaded it, its slot, the maps it is bound to.   *)
Programs == [run : 1..MaxRuns, slot : Slots, maps : [Paths -> 1..MaxMaps]]

ASSUME ProcessAssumption ==
  /\ MaxRuns \in Nat /\ MaxUpdates \in Nat /\ MaxMaps \in Nat
  /\ \A s \in Slots : Len(s) = 2
  /\ NoProg \notin Programs

VARIABLES
  pc,       \* where main() is; "down" when there is no process
  todo,     \* hooks whose maps init has still to ensure
  run,      \* number of this run
  loaded,   \* schedulers in the Loader's services_
  loading,  \* slots the update under way has still to load
  leaving,  \* slots it has still to unload
  updates,  \* updates of this run
  toStop,   \* services Daemon::stop has found and not unloaded yet
  late,     \* a service was loaded after Daemon::stop had looked
  crashes,  \* the runs that died
  lastEnd,  \* how the last run ended, while there is no other
  before    \* hooks that were half-pinned when the run began

processVars ==
  <<mapVars, netVars, pc, todo, run, loaded, loading, leaving, updates, toStop, late, crashes, lastEnd, before>>

(* The map the chain manager or Klog has open for a path, and one that     *)
(* nothing refers to.                                                      *)
Opened(p) ==
  IF p = Ring THEN ringFd
  ELSE IF p = ArrayOf(p[1]) THEN hookMaps[p[1]].array ELSE hookMaps[p[1]].ids

InUse(p) ==
  {pins[p], Opened(p)} \cup
    {prog.maps[p] : prog \in UNION {attached[s] \cup ({bound[s]} \ {NoProg}) : s \in Slots}}

Unused(p) == (1..MaxMaps) \ InUse(p)
MapsLeft == \A p \in Paths : Unused(p) # {}    \* MaxMaps is not reached
Fresh == [p \in Paths |-> CHOOSE n \in Unused(p) : TRUE]

Updating == loading \cup leaving # {}
Up == pc # "down"

-----------------------------------------------------------------------------
(* main() begins; bpffs is mounted, or the exception ends it.              *)
Boot(ok) ==
  /\ pc = "down" /\ run < MaxRuns
  /\ run' = run + 1
  /\ before' = {h \in Hooks : HalfPinned(h)}
  /\ EnsureBpffsMounted(ok)
  /\ IF bpffs'
     THEN pc' = "ensure" /\ todo' = HookOrder /\ lastEnd' = "none"
     ELSE pc' = "down" /\ UNCHANGED todo /\ lastEnd' = "noBpffs"
  /\ UNCHANGED <<netVars, loaded, loading, leaving, updates, toStop, late, crashes>>

initRest == <<netVars, run, loaded, loading, leaving, updates, toStop, late, crashes, lastEnd, before>>

(* PinnedProgMap::init, hook by hook; when it returns false main() throws. *)
Ensured ==
  /\ todo' = Tail(todo)
  /\ pc' = IF Tail(todo) = <<>> THEN "klog" ELSE "ensure"

InitMaps ==
  \/ pc = "ensure" /\ EnsureOpen(Head(todo)) /\ Ensured /\ UNCHANGED initRest
  \/ pc = "ensure" /\ MapsLeft /\ EnsureCreate(Head(todo), Fresh) /\ pc' = "pinArray"
     /\ UNCHANGED <<initRest, todo>>
  \/ pc = "pinArray" /\ PinArray(Head(todo)) /\ pc' = "pinIds" /\ UNCHANGED <<initRest, todo>>
  \/ pc = "pinIds" /\ PinIds(Head(todo)) /\ Ensured /\ UNCHANGED initRest

InitMapsFails ==
  /\ \/ pc = "ensure" /\ EnsureRefused
     \/ pc = "pinArray" /\ PinArrayFails
     \/ pc = "pinIds" /\ PinIdsFails(Head(todo))
  /\ pc' = "fail"
  /\ UNCHANGED <<initRest, todo>>

(* Klog's constructor, with its ring.                                      *)
InitKlog ==
  /\ pc = "klog" /\ MapsLeft
  /\ RingInit(Fresh)
  /\ pc' = "watch"
  /\ UNCHANGED <<initRest, todo>>

(* Other exceptions that end main(): of the monitor or the debug server,   *)
(* if it is enabled, or of a ring that is refused; and, with the ring      *)
(* pinned, of Ringbuffer::init or of startWatching before it loads the     *)
(* configuration.                                                          *)
InitThrows ==
  /\ \/ pc = "klog" /\ RingRefused
     \/ pc = "watch" /\ updates = 0 /\ UNCHANGED mapVars
  /\ pc' = "fail"
  /\ UNCHANGED <<initRest, todo>>

(* An update gives the Daemon a configuration with schedulers for other    *)
(* slots: the first on the main thread, the others on the io thread.       *)
Update(want) ==
  /\ pc = "run" \/ (pc = "watch" /\ updates = 0)
  /\ ~Updating /\ updates <= MaxUpdates
  /\ leaving' = loaded \ want /\ loading' = want \ loaded
  /\ updates' = updates + 1
  /\ UNCHANGED <<mapVars, netVars, pc, todo, run, loaded, toStop, late, crashes, lastEnd, before>>

FirstUpdateDone ==
  /\ pc = "watch" /\ updates > 0 /\ ~Updating
  /\ pc' = "run"
  /\ UNCHANGED <<mapVars, initRest, todo>>

-----------------------------------------------------------------------------
(* The process dies: of a signal, or of a pure virtual call.               *)
Die(how) ==
  /\ DropMaps /\ DropHooks
  /\ pc' = "down" /\ todo' = <<>>
  /\ loaded' = {} /\ loading' = {} /\ leaving' = {} /\ toStop' = {}
  /\ crashes' = crashes \cup {run}
  /\ lastEnd' = how
  /\ updates' = 0 /\ late' = FALSE
  /\ UNCHANGED <<run, before>>

Crash == Up /\ Die("crash")

(* Loader::unloadServices of a scheduler: it is stopped and destroyed.     *)
Unload(s) ==
  /\ Detach(s)
  /\ loaded' = loaded \ {s}
  /\ UNCHANGED <<mapVars, pc, todo, run, updates, late, crashes, lastEnd, before>>

UnloadOrDie(s, rest) ==
  IF s \in loaded /\ bound[s] # NoProg /\ s[2] \notin nics
  THEN Die("abort")
  ELSE Unload(s) /\ rest

(* Loader::loadService of a scheduler: its program is bound to the pinned  *)
(* maps and attached to the hook, if the kernel takes it.                  *)
Load(s, ok) ==
  /\ Up /\ s \in loading /\ leaving = {} /\ MapsLeft
  /\ BindMaps(Fresh)
  /\ Attach(s, [run |-> run, slot |-> s, maps |-> BoundMaps(Fresh)], ok)
  /\ loaded' = loaded \cup {s}
  /\ loading' = loading \ {s}
  /\ late' = (late \/ pc \notin {"watch", "run"})
  /\ UNCHANGED <<pc, todo, run, leaving, updates, toStop, crashes, lastEnd, before>>

UpdateStep ==
  \/ \E s \in leaving : Up /\ UnloadOrDie(s, leaving' = leaving \ {s} /\ UNCHANGED <<loading, toStop>>)
  \/ \E s \in loading, ok \in BOOLEAN : Load(s, ok)

-----------------------------------------------------------------------------
(* A signal: inotify is destroyed, so that no update begins any more, and  *)
(* Daemon::stop takes the services that are loaded now ...                 *)
Stop ==
  /\ pc = "run"
  /\ pc' = "stop"
  /\ toStop' = loaded
  /\ UNCHANGED <<mapVars, netVars, todo, run, loaded, loading, leaving, updates, late, crashes, lastEnd, before>>


(* ... and unloads them.                                                   *)
StopService ==
  \E s \in toStop :
    pc = "stop" /\ UnloadOrDie(s, toStop' = toStop \ {s} /\ UNCHANGED <<loading, leaving>>)

StopServicesDone ==
  /\ pc = "stop" /\ toStop = {}
  /\ pc' = "join"
  /\ UNCHANGED <<mapVars, initRest, todo>>

(* Daemon::stop joins the producer with queue_mutex_ in hand, and then     *)
(* MonitorSubscriber::stop joins the consumer with mutex_ in hand.  Either *)
(* may never return (TelemetryStop.cfg): nothing makes this step happen.   *)
Join ==
  /\ pc = "join"
  /\ pc' = "unpin"
  /\ UNCHANGED <<mapVars, initRest, todo>>

(* klog.unpin().                                                           *)
Unpin ==
  /\ pc = "unpin"
  /\ RingCleanup
  /\ pc' = "destroy"
  /\ UNCHANGED <<initRest, todo>>

(* main() leaves its scope.  The last owner of the Daemon destroys it with *)
(* its Loader, whose clear() stops none of the services that are left:     *)
(* main(), or the io thread when an update is over.                        *)
DestroyServices ==
  /\ pc = "destroy" \/ (pc = "cleanup" /\ loaded # {})
  /\ ~Updating
  /\ IF \E s \in loaded : DestructorAborts(s)
     THEN Die("abort")
     ELSE /\ loaded' = {} /\ DropHooks
          /\ pc' = "cleanup"
          /\ UNCHANGED <<mapVars, todo, run, loading, leaving, updates, toStop, late, crashes, lastEnd, before>>

(* An update that is under way, or that loads late and has not returned,   *)
(* owns the Daemon too: main() goes on.                                    *)
ReleaseDaemon ==
  /\ pc = "destroy" /\ (Updating \/ late)
  /\ pc' = "cleanup"
  /\ UNCHANGED <<mapVars, initRest, todo>>

(* ~PinnedProgMap; after a failed start it has the hooks init got to.      *)
Cleanup ==
  /\ pc \in {"cleanup", "fail"}
  /\ \E h \in Hooks : UnlinkArray(h) \/ UnlinkIds(h)
  /\ UNCHANGED <<initRest, pc, todo>>

(* The io thread is joined, and the process ends.                          *)
Exit ==
  /\ pc \in {"cleanup", "fail"} /\ ~Updating /\ loaded = {}
  /\ \A h \in Hooks : hookMaps[h] = NoMaps
  /\ DropMaps /\ DropHooks
  /\ pc' = "down" /\ todo' = <<>>
  /\ lastEnd' = IF pc = "fail" THEN "failed" ELSE IF late THEN "lateExit" ELSE "exit"
  /\ updates' = 0 /\ late' = FALSE
  /\ UNCHANGED <<run, loaded, loading, leaving, toStop, crashes, before>>

-----------------------------------------------------------------------------
Environment ==
  /\ pc \in {"run", "stop"}    \* where it makes a difference
  /\ \E i \in Nics : NicGone(i) \/ ForeignFilter(i)
  /\ UNCHANGED <<mapVars, pc, todo, run, loaded, loading, leaving, updates, toStop, late, crashes, lastEnd, before>>

ProcessInit ==
  /\ MapInit /\ NetInit
  /\ pc = "down" /\ todo = <<>> /\ run = 0
  /\ loaded = {} /\ loading = {} /\ leaving = {} /\ updates = 0 /\ toStop = {}
  /\ late = FALSE /\ crashes = {} /\ lastEnd = "none" /\ before = {}

MainStep ==
  \/ InitMaps \/ InitMapsFails \/ InitKlog \/ InitThrows \/ FirstUpdateDone
  \/ StopService \/ StopServicesDone \/ Unpin \/ DestroyServices \/ ReleaseDaemon
  \/ Cleanup \/ Exit

ProcessNext ==
  \/ \E ok \in BOOLEAN : Boot(ok)
  \/ MainStep \/ Join \/ UpdateStep
  \/ \E want \in SUBSET Slots : Update(want)
  \/ Stop \/ Crash \/ Environment

(* The threads run; nothing starts, stops or configures the process, and   *)
(* nothing lets the joins return.                                          *)
ProcessSpec ==
  /\ ProcessInit /\ [][ProcessNext]_processVars
  /\ WF_processVars(MainStep) /\ WF_processVars(UpdateStep)

-----------------------------------------------------------------------------

(* The types of the state, and the kernel's rules: nothing is pinned       *)
(* without bpffs, and XDP has one program.                                 *)
ProcessTypeOK ==
  /\ pins \in [Paths -> 1..MaxMaps \cup {NoMap}]
  /\ (\E p \in Paths : Pinned(p)) => bpffs
  /\ \A s \in Slots : Cardinality(attached[s]) > 1 => IsTc(s)
  /\ \A s \in Slots : attached[s] # {} => s[2] \in nics
  /\ loaded \subseteq Slots /\ toStop \subseteq Slots /\ run \in 0..MaxRuns
  /\ \A s \in Slots : bound[s] # NoProg => s \in loaded

(* While the process runs, every program it attached tail-calls through    *)
(* the maps the chain manager writes, and logs into the ring Klog reads:   *)
(* the two sides meet through the names of the pins only, whatever an      *)
(* earlier run left of them (pinned_prog_map.cc 460-504,                   *)
(* pinned_ringbuffer_map.cc 19-51, ebpf_chain.h 20-50).                    *)
MapsShared ==
  pc \in {"watch", "run"} => \A s \in Slots : bound[s] # NoProg => \A p \in Paths : bound[s].maps[p] = Opened(p)

(* A scheduler that says it is attached is the program the kernel runs, as *)
(* long as there is the interface (ebpf_with_net_hook.tpp 22-93).          *)
AttachedInKernel ==
  \A s \in Slots : bound[s] # NoProg /\ s[2] \in nics => bound[s] \in attached[s]

(* The kernel's rules, and the process's view of what it has attached      *)
(* (ebpf_with_net_hook.tpp 22-93).                                         *)
ProcessInv == ProcessTypeOK /\ AttachedInKernel

(* When the process is gone, what is left of its programs in the kernel is *)
(* of runs that died: of a signal, or of the abort that main() itself ends *)
(* in when a scheduler was loaded after Daemon::stop had looked, or when   *)
(* an interface is gone.  A stop that met no such late load has detached   *)
(* all that the run attached by the time its services are unloaded,        *)
(* whatever update is still unloading beside it (daemon.cc 43-56,          *)
(* loader.cc 128-172, 436-458).                                            *)
LeftByDeathOnly ==
  \A s \in Slots : \A p \in attached[s] :
    \/ p.run \in crashes
    \/ /\ Up /\ p.run = run
       /\ pc \in {"join", "unpin", "destroy", "cleanup"} => late

(* A run that ends through main() leaves no pin, unless an update loaded a *)
(* program after the pins were gone (main.cc 170-177).                     *)
ExitLeavesNoPin == pc = "down" /\ lastEnd = "exit" => \A p \in Paths : ~Pinned(p)

(* A start that fails, at whatever place and for whatever reason, leaves   *)
(* no hook with one of its two maps pinned that was not so before:         *)
(* ensureMaps takes its first pin back, ~PinnedProgMap the pins of the     *)
(* hooks before (pinned_prog_map.cc 74-90, 463-503).                       *)
FailedStartKeepsPairs ==
  pc = "down" /\ lastEnd = "failed" => \A h \in Hooks : HalfPinned(h) => h \in before


-----------------------------------------------------------------------------
(* Properties the code does not have.                                      *)

(* "若已存在则打开，否则创建并 pin" (pinned_prog_map.cc 30): init finds or *)
(* makes the maps, so what a process that died has left is not in the way  *)
(* of the next one's pins.                                                 *)
RestartWorks ==
  /\ pc = "pinArray" => ~Pinned(ArrayOf(Head(todo)))
  /\ pc = "pinIds" => ~Pinned(IdsOf(Head(todo)))

(* A hook runs one scheduler: what a dead run left is replaced.            *)
OneSchedulerPerSlot == \A s \in Slots : Cardinality(attached[s]) <= 1

(* An interface that vanishes does not take the process with it.           *)
OutlivesInterface == lastEnd # "abort"

(* Filters of other tools go with the interface only                       *)
(* ("取消绑定后检查 clsact qdisc 是否需要清理", tc_hook.cc 73).            *)
ForeignFiltersKept == [][\A i \in foreign : i \in foreign' \/ i \notin nics']_foreign
=============================================================================
