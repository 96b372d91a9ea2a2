---------------------------- MODULE ControlPlane ----------------------------
(***************************************************************************)
(* From the configuration file to the subscribers: ConfigWatcher and       *)
(* DebugServer under main() (src/main.cc) and the io loop (src/src/io).    *)
(* Daemon and MonitorSubscriber are subscribers whose update either        *)
(* returns or throws (modules Daemon and Telemetry); the update of the     *)
(* debug server is the one of DebugServer, step by step.                   *)
(***************************************************************************)
EXTENDS ConfigWatcher, DebugServer

CONSTANTS
  AttachOrder,      \* the subscribers main() attaches, in order
  DebugSub,         \* the debug server among them
  DaemonSub,        \* the daemon, which also answers the debug server
  LateSubs,         \* subscribers attached while the program runs: none in
                    \* main(), but attach provides for them
  CmdFile,          \* what the file of the option -c says, or NoOption
  NoOption,
  EditDuringStart,  \* the file may be edited before startWatching returns
  MayEnd            \* a signal may end the process

ASSUME ControlAssumption ==
  /\ Callers = Threads
  /\ Subscribers = {AttachOrder[k] : k \in 1..Len(AttachOrder)} \cup LateSubs
  /\ AttachOrder \in Seq(Subscribers)
  /\ LateSubs \cap {AttachOrder[k] : k \in 1..Len(AttachOrder)} = {}
  /\ Error \notin Clients
  /\ DaemonSub \in DebugSubs
  /\ DebugSub \in Subscribers \ LateSubs
  /\ EditDuringStart \in BOOLEAN /\ MayEnd \in BOOLEAN

VARIABLES
  mainAt,     \* where main() is
  ioAlive,    \* io_ctx_.run() has not returned
  toCome      \* late subscribers that have not been attached yet

controlVars == <<watcherVars, debugVars, mainAt, ioAlive, toCome>>

Running == mainAt \notin {"exit", "failed"}
Alive == Running /\ ioAlive    \* nothing is modelled beyond the end of the io thread
IoFree == ioAlive /\ At(Io, "idle")

-----------------------------------------------------------------------------
(* main(), up to its loop *)

MainAttach ==
  /\ mainAt = "attach" /\ Len(subscribers) < Len(AttachOrder)
  /\ Attach(AttachOrder[Len(subscribers) + 1])
  /\ UNCHANGED <<debugVars, mainAt, ioAlive, toCome>>

(* http_debug->attach(daemon).                                             *)
MainDebugAttach ==
  /\ mainAt = "attach" /\ Len(subscribers) = Len(AttachOrder)
  /\ DebugAttach(DaemonSub)
  /\ mainAt' = "debug"
  /\ UNCHANGED <<watcherVars, ioAlive, toCome>>

(* If the configuration of the command line says so, the debug server is   *)
(* started; its exceptions end main().                                     *)
MainDebugStart ==
  /\ mainAt = "debug"
  /\ starting' = [starting EXCEPT ![Main] =
       IF @.pc = "planned" THEN [@ EXCEPT !.pc = "replace"] ELSE NotStarting]
  /\ mainAt' = "starting"
  /\ UNCHANGED <<watcherVars, running, address, listening, accepts, handlers, conn, debugSubs,
                 acceptFailed, ioAlive, toCome>>

MainDebugThrows ==
  /\ mainAt = "starting" /\ DebugListenThrows(Main)
  /\ mainAt' = "failed"
  /\ UNCHANGED <<watcherVars, ioAlive, toCome>>

MainWatch(ok) ==
  /\ mainAt = "starting" /\ starting[Main] = NotStarting
  /\ StartWatching(ok)
  /\ mainAt' = IF ok THEN "loading" ELSE "failed"
  /\ UNCHANGED <<debugVars, ioAlive, toCome>>

MainRun ==
  /\ mainAt = "loading" /\ At(Main, "idle")
  /\ mainAt' = "run"
  /\ UNCHANGED <<watcherVars, debugVars, ioAlive, toCome>>

(* A subscriber comes while the program runs and goes when it ends.        *)
LateAttach(s) ==
  /\ mainAt = "run" /\ s \in toCome
  /\ Attach(s)
  /\ toCome' = toCome \ {s}
  /\ UNCHANGED <<debugVars, mainAt, ioAlive>>

LateDetach(s) ==
  /\ mainAt = "stopDebug" /\ \E k \in 1..Len(subscribers) : subscribers[k] = s
  /\ Detach(s)
  /\ UNCHANGED <<debugVars, mainAt, ioAlive, toCome>>

(* The loop has seen shouldStop.                                           *)
MainDetach ==
  /\ MayEnd /\ mainAt = "run" /\ At(Main, "idle")
  /\ DebugDetach(DaemonSub)
  /\ mainAt' = "stopDebug"
  /\ UNCHANGED <<watcherVars, ioAlive, toCome>>

MainDebugStop ==
  /\ mainAt = "stopDebug"
  /\ DebugStop
  /\ mainAt' = "unwatch"
  /\ UNCHANGED <<watcherVars, ioAlive, toCome>>

MainUnwatch ==
  /\ mainAt = "unwatch"
  /\ Unwatch
  /\ mainAt' = "ending"
  /\ UNCHANGED <<debugVars, ioAlive, toCome>>

(* ~IoContext stops the loop after the handler that is running.            *)
MainExit ==
  /\ mainAt = "ending" /\ At(Io, "idle")
  /\ ioAlive' = FALSE
  /\ mainAt' = "exit"
  /\ UNCHANGED <<watcherVars, debugVars, toCome>>

MainStep ==
  \/ MainAttach \/ MainDebugAttach \/ MainDebugStart \/ MainDebugThrows
  \/ MainWatch(TRUE) \/ MainRun
  \/ MainDebugStop \/ MainUnwatch \/ MainExit

-----------------------------------------------------------------------------
(* notify calls update; the one of the debug server takes its own steps    *)
(* and may throw out of them.                                              *)
DeliverUpdate(t) ==
  /\ CallUpdate(t)
  /\ IF Head(job[t].active) = DebugSub THEN DebugUpdate(t, job[t].cfg) ELSE UNCHANGED debugVars
  /\ UNCHANGED <<mainAt, ioAlive, toCome>>

DeliveryReturns(t) ==
  /\ UpdateReturns(t)
  /\ starting[t] = NotStarting
  /\ UNCHANGED <<debugVars, mainAt, ioAlive, toCome>>

DeliveryThrows(t) ==
  /\ UpdateThrows(t)
  /\ IF Head(job[t].active) = DebugSub THEN DebugListenThrows(t) ELSE UNCHANGED debugVars
  /\ UNCHANGED <<mainAt, ioAlive, toCome>>

ThreadStep(t) ==
  \/ LoadStep(t) /\ UNCHANGED <<debugVars, mainAt, ioAlive, toCome>>
  \/ DeliverUpdate(t) \/ DeliveryReturns(t) \/ DeliveryThrows(t)
  \/ StartStep(t) /\ UNCHANGED <<watcherVars, mainAt, ioAlive, toCome>>

LateStep ==
  (AttachCopy \/ AttachUpdate) /\ UNCHANGED <<debugVars, mainAt, ioAlive, toCome>>

(* The io loop between two handlers *)
IoStep ==
  \/ IoFree /\ OnChange /\ UNCHANGED <<debugVars, mainAt, ioAlive, toCome>>
  \/ IoFree /\ DebugHandler /\ UNCHANGED <<watcherVars, mainAt, ioAlive, toCome>>

(* The file of a service has a value of the wrong type: onConfigUpdate     *)
(* throws through the inotify callback, and run() with it.                 *)
ServiceFileThrows ==
  /\ mainAt = "run" /\ IoFree
  /\ ioAlive' = FALSE
  /\ UNCHANGED <<watcherVars, debugVars, mainAt, toCome>>

EnvironmentStep ==
  \/ /\ EditDuringStart \/ mainAt = "run"
     /\ EditStep
     /\ UNCHANGED <<debugVars, mainAt, ioAlive, toCome>>
  \/ /\ \/ \E c \in Clients : (mainAt = "run" /\ Connect(c)) \/ Request(c)
        \/ mainAt = "run" /\ AcceptFails
     /\ UNCHANGED <<watcherVars, mainAt, ioAlive, toCome>>

KernelStep ==
  /\ \E c \in Clients : AcceptCompletes(c)
  /\ UNCHANGED <<watcherVars, mainAt, ioAlive, toCome>>

-----------------------------------------------------------------------------
(* Cmdline::parse: the Configs of the command line is read before anything *)
(* is started; a malformed file does not get this far.  The file that is   *)
(* watched is the default one, whatever the option -c says.                *)
CmdConfig == LoadFromConfig(IF CmdFile = NoOption THEN file ELSE CmdFile)

ControlInit ==
  /\ WatcherInit /\ file # Malformed
  /\ DebugInit([t \in Callers |->
       IF t = Main /\ CmdConfig.dbgEnabled
       THEN [pc |-> "planned", addr |-> Listen(CmdConfig)] ELSE NotStarting])
  /\ mainAt = "attach"
  /\ ioAlive = TRUE
  /\ toCome = LateSubs

ControlNext ==
  /\ Alive
  /\ \/ MainStep \/ MainWatch(FALSE) \/ MainDetach
     \/ \E s \in LateSubs : LateAttach(s) \/ LateDetach(s)
     \/ LateStep
     \/ \E t \in Threads : ThreadStep(t)
     \/ IoStep \/ ServiceFileThrows
     \/ EnvironmentStep \/ KernelStep

(* Threads that can run do run, and the kernel completes accepts.  A file  *)
(* may stay open for ever, and nobody has to edit, connect or signal.      *)
ControlFairness ==
  /\ WF_controlVars(Alive /\ (MainStep \/ LateStep))
  /\ \A t \in Threads : WF_controlVars(Alive /\ ThreadStep(t))
  /\ WF_controlVars(Alive /\ IoStep)
  /\ WF_controlVars(Alive /\ KernelStep)

ControlSpec == ControlInit /\ [][ControlNext]_controlVars /\ ControlFairness

-----------------------------------------------------------------------------
(* The types of the state.                                                 *)
ControlTypeOK ==
  /\ file \in Files \cup {<<>>, EmptyConfigFile} /\ writing \in BOOLEAN
  /\ edits \in 0..MaxEdits /\ events \in 0..MaxEdits
  /\ watched \in BOOLEAN /\ configPath \in BOOLEAN
  /\ DOMAIN lastConfig = DOMAIN DefaultConfig /\ version \in 0..(2 * MaxEdits + 1)
  /\ subscribers \in Seq(Subscribers) /\ subMutex \in {Main, Nobody}
  /\ \A t \in Threads :
       /\ job[t].pc \in {"idle", "load", "compare", "copy", "current", "notify", "update",
                        "attached", "attachUpdate"}
       /\ starting[t].pc \in {"no", "planned", "replace", "listen", "accept"}
  /\ subMutex = Main <=> job[Main].pc \in {"attached", "attachUpdate"}
  /\ running \in BOOLEAN /\ accepts \in Nat /\ debugSubs \subseteq DebugSubs
  /\ \A k \in 1..Len(handlers) : handlers[k] = Error \/ conn[handlers[k]] = "accepted"
  /\ ioAlive \in BOOLEAN /\ toCome \subseteq LateSubs

(* What encode writes of a configuration decode reads back                 *)
(* (configs.hpp 120-211).  An empty map of programs is not written and     *)
(* comes back as the default one.                                          *)
SavedConfigLoads ==
  DOMAIN lastConfig.ebpfs # {} => LoadFromConfig(Encode(lastConfig)) = lastConfig

(* The types, and that the configuration in use can be saved and loaded    *)
(* (configs.hpp 120-211).                                                  *)
ControlInv == ControlTypeOK /\ SavedConfigLoads

(* A subscriber never gets a configuration older than one it already has:  *)
(* notify and attach may run on two threads, and each copies last_config_  *)
(* before it calls update (config_watcher.cc 27-40, 65-82).                *)
NeverBackwards ==
  [][\A s \in Subscribers : seen'[s].ver >= seen[s].ver]_seen

(* The configuration of the file is in force: last_config_ is what it      *)
(* says, and the subscribers have been called with it, up to the first     *)
(* whose update may throw: loadConfig swallows the exception and the ones  *)
(* attached after it hear nothing (config_watcher.cc 80-82, 137-139).      *)
InForce ==
  /\ file # Malformed => lastConfig = LoadFromConfig(file)
  /\ \A k \in 1..Len(subscribers) :
       (\A j \in 1..(k - 1) : subscribers[j] \notin Throwing)
         => seen[subscribers[k]].cfg = lastConfig

Quiet ==
  /\ mainAt = "run" /\ ioAlive /\ ~writing /\ events = 0
  /\ \A t \in Threads : At(t, "idle")

(* With nothing left to do the configuration of the file is in force: no   *)
(* event, half-written file, late attach or exception loses a change       *)
(* (config_watcher.cc 119-140).                                            *)
QuietMeansApplied == Quiet => InForce

(* Stronger: nothing keeps a change from any subscriber.                   *)
QuietMeansAppliedToAll ==
  Quiet => \A k \in 1..Len(subscribers) : seen[subscribers[k]].cfg = lastConfig

(* Every change of the file comes into force, unless the process ends, the *)
(* io thread is gone or the editor never closes the file.                  *)
EditsTakeEffect == <>[](mainAt # "run" \/ ~ioAlive \/ writing \/ file = Malformed \/ InForce)

(* The debug server listens on the address of the last configuration it    *)
(* was called with, if that one enables it and the address can be bound    *)
(* (debug_server.cc 172-200).  A subscriber in front of it that throws     *)
(* keeps later configurations from it; which ones reach it is InForce.     *)
ListensAsConfigured ==
  LET told == seen[DebugSub].cfg IN
    Quiet /\ told.dbgEnabled /\ Listen(told) \notin BadAddresses \cup BusyAddresses
      => listening = Listen(told)

(* A listening acceptor is served: an accept is pending on it, or the      *)
(* handler that starts the next one is about to run.  Replacing the        *)
(* acceptor under pending accepts and handlers must not end the chain      *)
(* (debug_server.cc 219-257).  An accept that fails does end it.           *)
ListenerServed ==
  listening # NoAddress /\ ~acceptFailed /\ (\A t \in Threads : starting[t] = NotStarting)
    => accepts > 0 \/ \E k \in 1..Len(handlers) : handlers[k] # Error

(* A request that has been sent is answered, while the io thread lives.    *)
RequestsAnswered ==
  \A c \in Clients :
    conn[c] \in {"debug", "other"} ~> conn[c] = "answered" \/ ~Alive

(* -c is "配置文件路径" (cmdline.cc 64): the subscribers get the           *)
(* configuration of the file it names.                                     *)
CommandLineInForce ==
  Quiet /\ CmdFile # NoOption /\ edits = 0 => seen[DaemonSub].cfg = LoadFromConfig(CmdFile)

(* "1-2. 配置禁用，关闭当前服务" (debug_server.cc 177): a configuration    *)
(* that disables the debug server closes it.                               *)
DisabledMeansClosed == Quiet /\ ~lastConfig.dbgEnabled => listening = NoAddress

(* The io thread serves inotify, the debug server and the ring buffers of  *)
(* everybody; it ends with the process only (io.cc 73-79).                 *)
IoSurvives == Running => ioAlive

(* A failing accept is logged and followed by the next one                 *)
(* (debug_server.cc 224-230).                                              *)
AcceptSurvives ==
  listening # NoAddress /\ (\A t \in Threads : starting[t] = NotStarting)
    => accepts > 0 \/ handlers # <<>>
=============================================================================
