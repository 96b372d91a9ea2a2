----------------------------- MODULE Telemetry -----------------------------
(***************************************************************************)
(* The threads around the status queue: the producer of Daemon             *)
(* (produceLoop), the consumer of MonitorSubscriber (consumeLoop), the io  *)
(* thread that delivers a new configuration to MonitorSubscriber::update,  *)
(* and the main thread that ends the process with Daemon::stop and then    *)
(* MonitorSubscriber::stop.  The queue is the one of StatusQueue.          *)
(***************************************************************************)
EXTENDS StatusQueue

CONSTANTS
  Producer, Consumer, Io, Main,  \* the threads
  Addresses,    \* listen addresses of the Prometheus endpoint
  Off,          \* the monitor is disabled; also: no address is bound
  Updates,      \* settings the io thread may deliver: Off or an address
  NServices,    \* services that have something to report, per round
  MayFailToBind,  \* addresses the endpoint may fail to listen on
  MayShutDown   \* a signal may end the process

ASSUME TelemetryAssumption ==
  /\ Users = {Producer, Consumer, Io, Main}
  /\ Producer \notin {Consumer, Io, Main} /\ Consumer \notin {Io, Main} /\ Io # Main
  /\ Off \notin Addresses
  /\ Updates \subseteq Addresses \cup {Off}
  /\ MayFailToBind \subseteq Addresses
  /\ NServices \in Nat \ {0}
  /\ MayShutDown \in BOOLEAN

VARIABLES
  daemonRunning,  \* Daemon::running_
  queueMutex,     \* holder of Daemon::queue_mutex_
  hasQueue,       \* Daemon::status_queue_ is set
  configured,     \* Daemon::current_ebpf_ is not empty
  loaded,         \* the services of it that the Loader holds, numbered
  producer,       \* where produceLoop is
  todo,           \* services left in the round
  monitorRunning, \* MonitorSubscriber::running_
  monitorMutex,   \* holder of MonitorSubscriber::mutex_
  monitor,        \* monitor_: the address it listens on, or Off
  bindAddress,    \* bind_address_, Off when empty
  consumer,       \* where consumeLoop is, "none" without a thread
  ctl,            \* [{Io, Main} -> where the controlling thread is]
  want,           \* the setting the io thread is applying
  threw           \* an exception has ended the last update

daemonSide ==
  <<daemonRunning, queueMutex, hasQueue, configured, loaded, producer, todo>>
monitorSide ==
  <<monitorRunning, monitorMutex, monitor, bindAddress, consumer>>
controlSide == <<ctl, want, threw>>
telemetryVars == <<queueVars, daemonSide, monitorSide, controlSide>>
daemonState == <<daemonRunning, queueMutex, hasQueue, configured, loaded>>

Controllers == {Io, Main}

-----------------------------------------------------------------------------
(* Daemon::produceLoop *)

(* A round begins while running_ holds, with a copy of current_ebpf_; else *)
(* the loop and the thread end.                                            *)
ProducerRound ==
  /\ producer = "loop"
  /\ \/ ~daemonRunning /\ producer' = "ended" /\ UNCHANGED todo
     \/ daemonRunning /\ configured /\ producer' = "service" /\ todo' = NServices
     \/ daemonRunning /\ ~configured /\ UNCHANGED <<producer, todo>>
  /\ UNCHANGED <<queueVars, daemonState, monitorSide, controlSide>>

(* getService, under the mutex of the Loader, returns a plain pointer ...   *)
ProducerService ==
  /\ producer = "service"
  /\ producer' = IF todo \in loaded THEN "status" ELSE "next"
  /\ UNCHANGED <<queueVars, daemonState, todo, monitorSide, controlSide>>

(* ... through which the status is asked for with no mutex.  By then the   *)
(* service may be gone: the call finds something to report, or nothing, or *)
(* throws, which ends the thread, or the process dies.                     *)
ProducerStatus ==
  /\ producer = "status"
  /\ producer' \in {"copyQueue", "next", "ended"} \cup (IF todo \in loaded THEN {} ELSE {"dead"})
  /\ UNCHANGED <<queueVars, daemonState, todo, monitorSide, controlSide>>

(* status_queue_ is copied under queue_mutex_.                             *)
ProducerCopyQueue ==
  /\ producer = "copyQueue" /\ queueMutex = Nobody
  /\ producer' = IF hasQueue THEN "full" ELSE "next"
  /\ UNCHANGED <<queueVars, daemonState, todo, monitorSide, controlSide>>

(* Mutant: a full queue is not seen.                                       *)
ProducerPushOffByOne ==
  /\ producer = "full" /\ mutex = Nobody
  /\ \/ Len(queue) > Capacity /\ producer' = "next" /\ UNCHANGED queueVars
     \/ Len(queue) <= Capacity /\ producer' = "push" /\ \E v \in Values : Push(Producer, v)
  /\ UNCHANGED <<daemonState, todo, monitorSide, controlSide>>

(* full(), under the mutex of the queue, and push if there is room.        *)
ProducerPush ==
  /\ producer = "full" /\ mutex = Nobody
  /\ \/ Len(queue) >= Capacity /\ producer' = "next" /\ UNCHANGED queueVars
     \/ Len(queue) < Capacity /\ producer' = "push" /\ \E v \in Values : Push(Producer, v)
  /\ UNCHANGED <<daemonState, todo, monitorSide, controlSide>>

ProducerPushed ==
  /\ producer = "push" /\ at[Producer] = "out"
  /\ producer' = "next"
  /\ UNCHANGED <<queueVars, daemonState, todo, monitorSide, controlSide>>

ProducerNextService ==
  /\ producer = "next"
  /\ todo' = todo - 1
  /\ producer' = IF todo = 1 THEN "loop" ELSE "service"
  /\ UNCHANGED <<queueVars, daemonState, monitorSide, controlSide>>

ProducerStep ==
  \/ ProducerRound \/ ProducerService \/ ProducerStatus \/ ProducerCopyQueue \/ ProducerPush
  \/ ProducerPushed \/ ProducerNextService
  \/ CallStep(Producer) /\ UNCHANGED <<daemonSide, monitorSide, controlSide>>

-----------------------------------------------------------------------------
(* MonitorSubscriber::consumeLoop *)

ConsumerRound ==
  /\ consumer = "loop"
  /\ IF monitorRunning
     THEN consumer' = "pop" /\ Pop(Consumer)
     ELSE consumer' = "ended" /\ UNCHANGED queueVars
  /\ UNCHANGED <<daemonSide, monitorRunning, monitorMutex, monitor, bindAddress, controlSide>>

ConsumerPopped ==
  /\ consumer = "pop" /\ at[Consumer] = "out"
  /\ consumer' = IF val[Consumer] = NoValue THEN "loop" ELSE "report"
  /\ UNCHANGED <<queueVars, daemonSide, monitorRunning, monitorMutex, monitor, bindAddress, controlSide>>

(* monitor_ is copied under mutex_ and its counter incremented, for every  *)
(* metric of the element.                                                  *)
ConsumerReport ==
  /\ consumer = "report" /\ monitorMutex = Nobody
  /\ consumer' = "loop"
  /\ UNCHANGED <<queueVars, daemonSide, monitorRunning, monitorMutex, monitor, bindAddress, controlSide>>

(* The conversions to Metrics and KernelData and the counter may throw,    *)
(* the first of them before mutex_ is asked for.  The thread ends, and     *)
(* running_ and monitor_ stay as they are.                                 *)
ConsumerThrow ==
  /\ consumer = "report"
  /\ consumer' = "failed"
  /\ UNCHANGED <<queueVars, daemonSide, monitorRunning, monitorMutex, monitor, bindAddress, controlSide>>

ConsumerStep ==
  \/ ConsumerRound \/ ConsumerPopped \/ ConsumerReport
  \/ CallStep(Consumer) /\ UNCHANGED <<daemonSide, monitorSide, controlSide>>

-----------------------------------------------------------------------------
(* MonitorSubscriber::stop, on thread c; AfterStop is where c goes on.     *)

Control(c, place) == ctl' = [ctl EXCEPT ![c] = place]
AfterStop(c) == IF c = Main THEN "exit" ELSE IF want = Off THEN "idle" ELSE "run"

MonitorStop(c) ==
  /\ ctl[c] = "stop"
  /\ monitorRunning' = FALSE
  /\ Control(c, IF monitorRunning THEN "stopLock" ELSE AfterStop(c))
  /\ UNCHANGED <<queueVars, daemonSide, monitorMutex, monitor, bindAddress, consumer, want, threw>>

MonitorStopLock(c) ==
  /\ ctl[c] = "stopLock" /\ monitorMutex = Nobody
  /\ monitorMutex' = c
  /\ Stop(c)
  /\ Control(c, "stopJoin")
  /\ UNCHANGED <<daemonSide, monitorRunning, monitor, bindAddress, consumer, want, threw>>

(* join returns when consumeLoop has ended, in whichever way.              *)
MonitorStopJoin(c) ==
  /\ ctl[c] = "stopJoin" /\ at[c] = "out"
  /\ consumer \in {"none", "ended", "failed"}
  /\ consumer' = "none"
  /\ monitor' = Off
  /\ bindAddress' = Off
  /\ monitorMutex' = Nobody
  /\ Control(c, AfterStop(c))
  /\ UNCHANGED <<queueVars, daemonSide, monitorRunning, want, threw>>

(* MonitorSubscriber::run, on the io thread.                               *)
MonitorRun ==
  /\ ctl[Io] = "run"
  /\ monitorRunning' = TRUE
  /\ Control(Io, IF monitorRunning THEN "idle" ELSE "runLock")
  /\ UNCHANGED <<queueVars, daemonSide, monitorMutex, monitor, bindAddress, consumer, want, threw>>

(* The endpoint is created, or the factory throws and leaves running_ and  *)
(* bind_address_ set.                                                      *)
MonitorRunLock ==
  /\ ctl[Io] = "runLock" /\ monitorMutex = Nobody
  /\ bindAddress' = want
  /\ \/ /\ monitorMutex' = Io
        /\ monitor' = want
        /\ Control(Io, "runThread")
        /\ UNCHANGED threw
     \/ /\ want \in MayFailToBind
        /\ threw' = TRUE
        /\ Control(Io, "idle")
        /\ UNCHANGED <<monitorMutex, monitor>>
  /\ UNCHANGED <<queueVars, daemonSide, monitorRunning, consumer, want>>

(* The consumer thread starts.  A Thread object that is still there is     *)
(* destroyed first, and its destructor joins.                              *)
MonitorRunThread ==
  /\ ctl[Io] = "runThread"
  /\ consumer \in {"none", "ended", "failed"}
  /\ consumer' = "loop"
  /\ Control(Io, "runStart")
  /\ UNCHANGED <<queueVars, daemonSide, monitorRunning, monitorMutex, monitor, bindAddress,
                 want, threw>>

(* Mutant: the queue is not opened again.                                  *)
MonitorRunNoStart ==
  /\ ctl[Io] = "runStart"
  /\ monitorMutex' = Nobody
  /\ Control(Io, "idle")
  /\ UNCHANGED <<queueVars, daemonSide, monitorRunning, monitor, bindAddress, consumer,
                 want, threw>>

MonitorRunStart ==
  /\ ctl[Io] = "runStart"
  /\ Start(Io)
  /\ monitorMutex' = Nobody
  /\ Control(Io, "idle")
  /\ UNCHANGED <<daemonSide, monitorRunning, monitor, bindAddress, consumer, want, threw>>

(* MonitorSubscriber::update on the io thread: nothing when the monitor is *)
(* already as wanted, else stop if it must go or change its address, and   *)
(* run if it must be on.                                                   *)
AfterUpdate(setting) ==
  LET enabled == setting # Off
      lastEnabled == monitor # Off
      needRestart == bindAddress # setting
      unchanged == (~enabled /\ ~lastEnabled) \/ (enabled /\ lastEnabled /\ ~needRestart)
  IN  CASE unchanged -> "idle"
        [] ~unchanged /\ (~enabled \/ needRestart) -> "stop"
        [] ~unchanged /\ enabled /\ ~needRestart -> "run"

MonitorUpdate(setting) ==
  /\ ctl[Io] = "idle" /\ ctl[Main] = "wait"
  /\ want' = setting
  /\ threw' = FALSE
  /\ Control(Io, AfterUpdate(setting))
  /\ UNCHANGED <<queueVars, daemonSide, monitorSide>>

-----------------------------------------------------------------------------
(* Daemon::stop on the main thread, followed by MonitorSubscriber::stop    *)

DaemonStop ==
  /\ MayShutDown /\ ctl[Main] = "wait"
  /\ daemonRunning' = FALSE
  /\ Control(Main, "daemonUnload")
  /\ UNCHANGED <<queueVars, queueMutex, hasQueue, configured, loaded, producer, todo,
                 monitorSide, want, threw>>

(* Every service is unloaded, one at a time, and current_ebpf_ cleared.    *)
DaemonStopUnload ==
  /\ ctl[Main] = "daemonUnload"
  /\ \/ /\ \E s \in loaded : loaded' = loaded \ {s}
        /\ UNCHANGED <<configured, ctl>>
     \/ /\ loaded = {}
        /\ configured' = FALSE
        /\ Control(Main, "daemonLock")
        /\ UNCHANGED loaded
  /\ UNCHANGED <<queueVars, daemonRunning, queueMutex, hasQueue, producer, todo,
                 monitorSide, want, threw>>

DaemonStopLock ==
  /\ ctl[Main] = "daemonLock" /\ queueMutex = Nobody
  /\ queueMutex' = Main
  /\ Control(Main, "daemonJoin")
  /\ UNCHANGED <<queueVars, daemonRunning, hasQueue, configured, loaded, producer, todo,
                 monitorSide, want, threw>>

DaemonStopJoin ==
  /\ ctl[Main] = "daemonJoin" /\ producer = "ended"
  /\ Stop(Main)
  /\ Control(Main, "daemonReset")
  /\ UNCHANGED <<daemonSide, monitorSide, want, threw>>

DaemonStopReset ==
  /\ ctl[Main] = "daemonReset" /\ at[Main] = "out"
  /\ hasQueue' = FALSE
  /\ queueMutex' = Nobody
  /\ Control(Main, "stop")
  /\ UNCHANGED <<queueVars, daemonRunning, configured, loaded, producer, todo,
                 monitorSide, want, threw>>

ControlStep(c) ==
  \/ MonitorStop(c) \/ MonitorStopLock(c) \/ MonitorStopJoin(c)
  \/ CallStep(c) /\ UNCHANGED <<daemonSide, monitorSide, controlSide>>

IoStep ==
  \/ ControlStep(Io)
  \/ MonitorRun \/ MonitorRunLock \/ MonitorRunThread \/ MonitorRunStart

MainStep ==
  \/ ControlStep(Main) \/ DaemonStopUnload \/ DaemonStopLock \/ DaemonStopJoin
  \/ DaemonStopReset

(* The process has ended.                                                  *)
Exited == ctl[Main] = "exit" /\ UNCHANGED telemetryVars

-----------------------------------------------------------------------------
(* main() has started the daemon, and the monitor if it is enabled.        *)
TelemetryInit ==
  /\ QueueInit
  /\ daemonRunning = TRUE
  /\ queueMutex = Nobody
  /\ hasQueue = TRUE
  /\ configured = TRUE
  /\ loaded = 1..NServices
  /\ producer = "loop"
  /\ todo = 0
  /\ monitor \in Addresses \cup {Off}
  /\ monitorRunning = (monitor # Off)
  /\ monitorMutex = Nobody
  /\ consumer = IF monitor = Off THEN "none" ELSE "loop"
  /\ ctl = [c \in Controllers |-> IF c = Main THEN "wait" ELSE "idle"]
  /\ bindAddress = monitor
  /\ want = monitor
  /\ threw = FALSE

Alive == producer # "dead"    \* nothing is modelled beyond the death of the process

TelemetryNext ==
  /\ Alive
  /\ \/ ProducerStep
     \/ ConsumerStep
     \/ ConsumerThrow
     \/ IoStep
     \/ \E setting \in Updates : MonitorUpdate(setting)
     \/ DaemonStop
     \/ MainStep
     \/ Exited

(* Every thread that can go on again and again does go on: the loops sleep *)
(* between rounds (1 s, 100 ms), so no mutex is taken without a pause.     *)
(* No exception has to be thrown: ConsumerThrow is under no fairness.      *)
TelemetrySpec ==
  /\ TelemetryInit /\ [][TelemetryNext]_telemetryVars
  /\ SF_telemetryVars(Alive /\ ProducerStep)
  /\ SF_telemetryVars(Alive /\ ConsumerStep)
  /\ SF_telemetryVars(Alive /\ IoStep)
  /\ SF_telemetryVars(Alive /\ MainStep)

-----------------------------------------------------------------------------
(* The types of the state of the two loops, their mutexes and the two      *)
(* threads that control them.                                              *)
TelemetryTypeOK ==
  /\ QueueTypeOK
  /\ daemonRunning \in BOOLEAN /\ hasQueue \in BOOLEAN /\ monitorRunning \in BOOLEAN
  /\ configured \in BOOLEAN /\ loaded \subseteq 1..NServices
  /\ queueMutex \in {Main, Nobody}
  /\ monitorMutex \in Controllers \cup {Nobody}
  /\ producer \in {"loop", "service", "status", "copyQueue", "full", "push", "next", "ended", "dead"}
  /\ todo \in 0..NServices
  /\ {monitor, bindAddress, want} \subseteq Addresses \cup {Off}
  /\ threw \in BOOLEAN
  /\ consumer \in {"none", "loop", "pop", "report", "ended", "failed"}
  /\ ctl \in [Controllers -> {"idle", "wait", "stop", "stopLock", "stopJoin", "run",
                "runLock", "runThread", "runStart", "daemonUnload", "daemonLock", "daemonJoin",
                "daemonReset", "exit"}]

(* The producer looks at full() first and is the only one to push, so it   *)
(* never sleeps in push, where a stopped daemon could not end it           *)
(* (daemon.cc 255-257).                                                    *)
ProducerNeverSleeps == at[Producer] \notin {"pushDoze", "pushAsleep"}

(* The queue within its capacity although full() and push are two calls,   *)
(* and a producer that is never asleep (daemon.cc 255-257).                *)
TelemetryInv == TelemetryTypeOK /\ ProducerNeverSleeps

(* What an endpoint that could not be bound leaves behind: running_ and    *)
(* bind_address_ set, no monitor and no thread.                            *)
BindFailed ==
  /\ monitorRunning /\ monitor = Off /\ consumer = "none"
  /\ bindAddress \in MayFailToBind

(* After an update that threw nothing the monitor is as the configuration  *)
(* says ("启动 prometheus 监控", monitor_subscriber.cc 44; 48-100): on     *)
(* exactly if running_ is set, and then its queue is open and it has its   *)
(* own consumer thread, running or ended by an exception (145-149); off,   *)
(* there is no thread left.  A restart on another address leaves no queue  *)
(* stopped and no thread behind, and it repairs a bind that has failed.    *)
(* The one state beside these is the one that a failed bind leaves: it     *)
(* stays through updates that switch the monitor off or name the same      *)
(* address once more.                                                      *)
MonitorAsConfigured ==
  ctl[Io] = "idle" /\ ctl[Main] = "wait" /\ ~threw =>
    \/ /\ monitor = want
       /\ monitorRunning = (monitor # Off)
       /\ monitorRunning => consumer \notin {"none", "ended"} /\ ~stopped
       /\ ~monitorRunning => consumer = "none"
    \/ BindFailed /\ want \in {Off, bindAddress}

(* What the services report reaches the monitor: a queue that is full does *)
(* not stay full while the monitor is on, unless an exception has ended    *)
(* the consumer or its endpoint could not be bound.                        *)
QueueDrains ==
  (Len(queue) = Capacity /\ monitorRunning)
    ~> (Len(queue) < Capacity \/ ~monitorRunning \/ consumer = "failed" \/ BindFailed)

(* A monitor that is configured serves: after an update that threw nothing *)
(* it listens and a thread feeds it (monitor_subscriber.cc 38-40).  Not so *)
(* after a failed bind, nor when an exception has ended the thread.        *)
MonitorServes ==
  ctl[Io] = "idle" /\ ctl[Main] = "wait" /\ ~threw /\ want # Off =>
    monitor = want /\ consumer \in {"loop", "pop", "report"}

(* Daemon::stop ("停止 daemon", daemon.cc 39) comes to its end.            *)
DaemonStopReturns == ctl[Main] = "daemonLock" ~> (ctl[Main] = "stop" \/ ~Alive)

(* MonitorSubscriber::stop ("停止 prometheus 监控", monitor_subscriber.cc  *)
(* 75) comes to its end when it finds the consumer reporting an element.   *)
MonitorStopReturns ==
  (ctl[Io] = "stopJoin" /\ consumer = "report") ~> (ctl[Io] # "stopJoin" \/ ~Alive)

(* Queue::stop ("停止队列", queue.tpp 107) lets a thread that waits in pop *)
(* go.                                                                     *)
StopReleasesConsumer ==
  (stopped /\ consumer = "pop") ~> (consumer # "pop" \/ ~stopped \/ ~Alive)

(* produceLoop asks a service that is there: unloadServices, "卸载成功"    *)
(* (loader.cc 125), leaves no service in use behind (daemon.cc 246-248).   *)
ServiceInUseIsLoaded == producer = "status" => todo \in loaded
=============================================================================
