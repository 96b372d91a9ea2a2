-------------------------- MODULE TelemetryProofs --------------------------
(* Theorems about Telemetry, for every capacity, every set of addresses    *)
(* and any number of services.                                             *)
EXTENDS Telemetry, TLAPS

-----------------------------------------------------------------------------
(* The inductive invariant.                                                *)

Pushing == {"push", "pushCheck", "pushGo", "pushStore"}
Popping ==
  {"pop", "popCheck", "popDoze", "popAsleep", "tryPop", "tryPopCheck", "take",
   "undefined"}

MutexInv == \A u \in Users : at[u] \in Locked <=> mutex = u

(* The producer is in push only, and as long as it is, there is room: it   *)
(* has seen it, and nobody else can fill it.                               *)
PushInv ==
  /\ at[Producer] \in {"out"} \cup Pushing
  /\ at[Producer] # "out" =>
       producer = "push" /\ Len(queue) < Capacity /\ val[Producer] \in Values

(* The consumer is in pop only, and a new thread finds the old one gone.   *)
PopInv ==
  /\ at[Consumer] \in {"out"} \cup Popping
  /\ at[Consumer] # "out" => consumer = "pop"

(* The io and the main thread are in stop only.                            *)
StopInv ==
  \A c \in Controllers :
    /\ at[c] \in {"out", "stopNotify"}
    /\ at[c] # "out" => ctl[c] \in {"stopJoin", "daemonReset"}

(* A service that the producer is at is one of the round.                  *)
TodoInv ==
  producer \in {"service", "status", "copyQueue", "full", "push", "next"} => todo # 0

(* The types beside those of the queue.                                    *)
LoopTypeOK ==
  /\ daemonRunning \in BOOLEAN /\ hasQueue \in BOOLEAN /\ monitorRunning \in BOOLEAN
  /\ configured \in BOOLEAN /\ loaded \subseteq 1..NServices
  /\ queueMutex \in {Main, Nobody}
  /\ monitorMutex \in Controllers \cup {Nobody}
  /\ producer \in {"loop", "service", "status", "copyQueue", "full", "push", "next",
                   "ended", "dead"}
  /\ todo \in 0..NServices
  /\ {monitor, bindAddress, want} \subseteq Addresses \cup {Off}
  /\ threw \in BOOLEAN
  /\ consumer \in {"none", "loop", "pop", "report", "ended", "failed"}
CtlPlaces ==
  {"idle", "wait", "stop", "stopLock", "stopJoin", "run", "runLock", "runThread",
   "runStart", "daemonUnload", "daemonLock", "daemonJoin", "daemonReset", "exit"}
CtlTypeOK == ctl \in [Controllers -> CtlPlaces]

CallInv == QueueTypeOK /\ MutexInv /\ PushInv /\ PopInv /\ StopInv
LoopInv == LoopTypeOK /\ CtlTypeOK /\ TodoInv
TInv == CallInv /\ LoopInv

(* The monitor as it is between two updates.                               *)
Settled ==
  /\ bindAddress = monitor
  /\ monitorRunning <=> monitor # Off
  /\ monitorRunning => consumer \notin {"none", "ended"} /\ ~stopped
  /\ ~monitorRunning => consumer = "none"

(* What an update leaves behind at each of its places, while no shutdown   *)
(* is under way.  The state of a failed bind is met again at "idle", by an *)
(* update for the same address at "run", and by any other at "stop".       *)
UpdateInv ==
  ctl[Main] = "wait" =>
    /\ ctl[Io] \in {"idle", "stop", "stopLock", "stopJoin", "run", "runLock",
                    "runThread", "runStart"}
    /\ ctl[Io] = "idle" => \/ monitor = want /\ Settled
                           \/ BindFailed /\ (threw \/ want \in {Off, bindAddress})
    /\ ctl[Io] = "stop" => Settled \/ BindFailed
    /\ ctl[Io] \in {"stopLock", "stopJoin"} => ~monitorRunning
    /\ ctl[Io] = "run" =>
         /\ want # Off
         /\ \/ monitor = Off /\ ~monitorRunning /\ consumer = "none"
            \/ BindFailed /\ want = bindAddress
    /\ ctl[Io] = "runLock" =>
         want # Off /\ monitor = Off /\ monitorRunning /\ consumer = "none"
    /\ ctl[Io] = "runThread" =>
         /\ want # Off /\ monitor = want /\ bindAddress = want
         /\ monitorRunning /\ consumer = "none"
    /\ ctl[Io] = "runStart" =>
         /\ want # Off /\ monitor = want /\ bindAddress = want
         /\ monitorRunning /\ consumer \notin {"none", "ended"}

-----------------------------------------------------------------------------
(* The four threads.                                                       *)
LEMMA ThreadFacts ==
  /\ Producer \in Users /\ Consumer \in Users /\ Controllers \subseteq Users
  /\ Io \in Controllers /\ Main \in Controllers /\ Io # Main
  /\ Producer # Consumer /\ Producer \notin Controllers /\ Consumer \notin Controllers
  /\ \A u \in Users : u = Producer \/ u = Consumer \/ u \in Controllers
  /\ Nobody \notin Users
BY TelemetryAssumption, QueueAssumption DEF Controllers

(* The state the program starts in.                                        *)
LEMMA TInvInit == TelemetryInit => TInv
<1> SUFFICES ASSUME TelemetryInit PROVE TInv
  OBVIOUS
<1>1. QueueTypeOK
  <2>1. queue \in Seq(Values) /\ Len(queue) = 0
    BY DEF TelemetryInit, QueueInit
  <2>2. at \in [Users -> Places] /\ val \in [Users -> Values \cup {NoValue}]
    BY DEF TelemetryInit, QueueInit, Places
  <2>3. stopped \in BOOLEAN /\ mutex \in Users \cup {Nobody}
    BY DEF TelemetryInit, QueueInit
  <2>4. Len(queue) <= Capacity
    BY <2>1, QueueAssumption
  <2> QED
    BY <2>1, <2>2, <2>3, <2>4 DEF QueueTypeOK
<1>2. MutexInv /\ PushInv /\ PopInv /\ StopInv
  BY ThreadFacts DEF TelemetryInit, QueueInit, MutexInv, PushInv, PopInv, StopInv, Locked
<1>3. CtlTypeOK /\ TodoInv
  BY ThreadFacts DEF TelemetryInit, CtlTypeOK, CtlPlaces, TodoInv
<1>4. LoopTypeOK
  <2>1. todo \in 0..NServices
    BY TelemetryAssumption DEF TelemetryInit
  <2>2. monitorRunning \in BOOLEAN
    BY Zenon DEF TelemetryInit
  <2> QED
    BY <2>1, <2>2 DEF TelemetryInit, LoopTypeOK
<1> QED
  BY <1>1, <1>2, <1>3, <1>4 DEF TInv, CallInv, LoopInv

-----------------------------------------------------------------------------
(* A step that leaves the queue alone, and the place of every thread that  *)
(* is inside one of its calls.                                             *)
LEMMA OutsideQueue ==
  ASSUME CallInv, UNCHANGED queueVars,
         at[Producer] # "out" => producer' = producer,
         at[Consumer] # "out" => consumer' = consumer,
         \A c \in Controllers : at[c] # "out" => ctl'[c] = ctl[c]
  PROVE  CallInv'
<1>1. QueueTypeOK' /\ MutexInv'
  BY DEF CallInv, queueVars, QueueTypeOK, MutexInv
<1>2. PushInv' /\ PopInv' /\ StopInv'
  BY DEF CallInv, queueVars, PushInv, PopInv, StopInv
<1> QED
  BY <1>1, <1>2 DEF CallInv

(* A step of a call under way leaves everything but the queue alone.       *)
LEMMA InsideQueue ==
  ASSUME LoopInv, UNCHANGED <<daemonSide, monitorSide, controlSide>>
  PROVE  LoopInv'
<1>1. LoopTypeOK'
  BY DEF LoopInv, LoopTypeOK, daemonSide, monitorSide, controlSide
<1>2. CtlTypeOK' /\ TodoInv'
  BY DEF LoopInv, CtlTypeOK, TodoInv, daemonSide, controlSide
<1> QED
  BY <1>1, <1>2 DEF LoopInv

(* A step inside push: only the producer takes it.                         *)
LEMMA ProducerInQueue ==
  ASSUME TInv, CallStep(Producer), UNCHANGED <<daemonSide, monitorSide, controlSide>>
  PROVE  TInv'
<1> USE ThreadFacts, QueueAssumption DEF Goto
<1>0. UNCHANGED <<producer, consumer, ctl>> /\ at[Producer] \in {"out"} \cup Pushing
  BY DEF daemonSide, monitorSide, controlSide, TInv, CallInv, PushInv
<1>1. LoopInv'
  BY InsideQueue DEF TInv
<1>2. CASE TakeMutex(Producer)
  <2>1. QueueTypeOK' /\ MutexInv'
    BY <1>0, <1>2 DEF TakeMutex, TInv, CallInv, QueueTypeOK, MutexInv, Locked, Places, Pushing
  <2>2. PushInv' /\ PopInv' /\ StopInv'
    BY <1>0, <1>2 DEF TakeMutex, TInv, CallInv, QueueTypeOK, PushInv, PopInv, StopInv, Pushing
  <2> QED
    BY <2>1, <2>2, <1>1 DEF TInv, CallInv
<1>3. CASE PushCheck(Producer)
  <2>0. at' = [at EXCEPT ![Producer] = "pushGo"] /\ UNCHANGED <<queue, stopped, mutex, val>>
        /\ at[Producer] = "pushCheck"
    BY <1>3 DEF PushCheck, TInv, CallInv, PushInv
  <2>1. QueueTypeOK' /\ MutexInv'
    BY <2>0 DEF TInv, CallInv, QueueTypeOK, MutexInv, Locked, Places
  <2>2. PushInv' /\ PopInv' /\ StopInv'
    BY <1>0, <2>0 DEF TInv, CallInv, QueueTypeOK, PushInv, PopInv, StopInv, Pushing
  <2> QED
    BY <2>1, <2>2, <1>1 DEF TInv, CallInv
<1>4. CASE PushGo(Producer)
  <2>1. QueueTypeOK' /\ MutexInv'
    BY <1>4 DEF PushGo, TInv, CallInv, QueueTypeOK, MutexInv, Locked, Places
  <2>2. PushInv' /\ PopInv' /\ StopInv'
    BY <1>0, <1>4 DEF PushGo, TInv, CallInv, QueueTypeOK, PushInv, PopInv, StopInv, Pushing
  <2> QED
    BY <2>1, <2>2, <1>1 DEF TInv, CallInv
<1>5. CASE PushStore(Producer)
  <2>1. queue' \in Seq(Values) /\ Len(queue') <= Capacity
    <3>1. val[Producer] \in Values /\ Len(queue) < Capacity /\ queue \in Seq(Values)
      BY <1>5 DEF PushStore, TInv, CallInv, PushInv, QueueTypeOK
    <3> QED
      BY <1>5, <3>1 DEF PushStore
  <2>2. /\ at[Producer] = "pushStore" /\ mutex' = Nobody /\ UNCHANGED <<stopped, val>>
        /\ at \in [Users -> Places] /\ mutex = Producer
    BY <1>5 DEF PushStore, TInv, CallInv, QueueTypeOK, MutexInv, Locked
  <2>3. \E w \in Users :
          /\ w = Producer \/ at[w] = "popAsleep"
          /\ at' = [at EXCEPT ![w] = "pop", ![Producer] = "out"]
    BY <1>5, <2>2 DEF PushStore, NotifyOneAndLeave
  <2>4. PICK w \in Users :
          /\ w = Producer \/ at[w] = "popAsleep"
          /\ at' = [at EXCEPT ![w] = "pop", ![Producer] = "out"]
    BY <2>3
  <2>5. QueueTypeOK' /\ MutexInv'
    BY <2>1, <2>2, <2>4 DEF TInv, CallInv, QueueTypeOK, MutexInv, Locked, Places
  <2>6. PushInv' /\ PopInv' /\ StopInv'
    BY <1>0, <2>2, <2>4 DEF TInv, CallInv, PushInv, PopInv, StopInv, Popping
  <2> QED
    BY <2>5, <2>6, <1>1 DEF TInv, CallInv
<1>6. ~PopCheck(Producer) /\ ~Sleep(Producer) /\ ~TryPop(Producer) /\ ~TryPopCheck(Producer)
      /\ ~TryPopTake(Producer)
  BY <1>0 DEF Pushing, PopCheck, Sleep, TryPop, TryPopCheck, TryPopTake
<1>7. ~StopNotify(Producer)
  <2>1. at[Producer] # "stopNotify"
    BY <1>0 DEF Pushing
  <2> QED
    BY <2>1, Zenon DEF StopNotify
<1> QED
  BY <1>2, <1>3, <1>4, <1>5, <1>6, <1>7 DEF CallStep

(* A step inside pop: only the consumer takes it.                          *)
LEMMA ConsumerInQueue ==
  ASSUME TInv, CallStep(Consumer), UNCHANGED <<daemonSide, monitorSide, controlSide>>
  PROVE  TInv'
<1> USE ThreadFacts, QueueAssumption DEF Goto
<1>0. UNCHANGED <<producer, consumer, ctl>> /\ at[Consumer] \in {"out"} \cup Popping
  BY DEF daemonSide, monitorSide, controlSide, TInv, CallInv, PopInv
<1>1. LoopInv'
  BY InsideQueue DEF TInv
<1>2. CASE \/ TakeMutex(Consumer) \/ PopCheck(Consumer) \/ Sleep(Consumer) \/ TryPop(Consumer)
           \/ TryPopCheck(Consumer)
  <2>1. UNCHANGED <<queue, stopped, val>>
    BY <1>2 DEF TakeMutex, PopCheck, Sleep, TryPop, TryPopCheck
  <2>2. PICK place \in {"out"} \cup Popping : at' = [at EXCEPT ![Consumer] = place]
    BY <1>0, <1>2 DEF TakeMutex, PopCheck, Sleep, TryPop, TryPopCheck, Popping
  <2>3. at[Consumer] # "out"
    BY <1>2 DEF TakeMutex, PopCheck, Sleep, TryPop, TryPopCheck
  <2>4. mutex' \in Users \cup {Nobody} /\ MutexInv'
    BY <1>0, <1>2 DEF TakeMutex, PopCheck, Sleep, TryPop, TryPopCheck, TInv, CallInv,
                 QueueTypeOK, MutexInv, Locked, Popping
  <2>5. QueueTypeOK'
    BY <2>1, <2>2, <2>4 DEF TInv, CallInv, QueueTypeOK, Places, Popping
  <2>6. PushInv' /\ PopInv' /\ StopInv'
    BY <1>0, <2>1, <2>2, <2>3 DEF TInv, CallInv, QueueTypeOK, PushInv, PopInv, StopInv
  <2> QED
    BY <2>4, <2>5, <2>6, <1>1 DEF TInv, CallInv
<1>3. CASE TryPopTake(Consumer) /\ queue = <<>>
  <2>1. /\ UNCHANGED <<queue, stopped, mutex, val>> /\ at[Consumer] = "take"
        /\ at' = [at EXCEPT ![Consumer] = "undefined"]
    BY <1>3 DEF TryPopTake
  <2>2. QueueTypeOK' /\ MutexInv'
    BY <2>1 DEF TInv, CallInv, QueueTypeOK, MutexInv, Locked, Places
  <2>3. PushInv' /\ PopInv' /\ StopInv'
    BY <1>0, <2>1 DEF TInv, CallInv, QueueTypeOK, PushInv, PopInv, StopInv, Popping
  <2> QED
    BY <2>2, <2>3, <1>1 DEF TInv, CallInv
<1>4. CASE TryPopTake(Consumer) /\ queue # <<>>
  <2>1. /\ queue' = Tail(queue) /\ val' = [val EXCEPT ![Consumer] = Head(queue)]
        /\ mutex' = Nobody /\ stopped' = stopped /\ at[Consumer] = "take" /\ mutex = Consumer
    BY <1>4 DEF TryPopTake, TInv, CallInv, MutexInv, Locked
  <2>2. /\ Tail(queue) \in Seq(Values) /\ Len(Tail(queue)) = Len(queue) - 1
        /\ Len(queue) \in Nat /\ Head(queue) \in Values
    BY <1>4 DEF TInv, CallInv, QueueTypeOK
  <2>3. \A w \in Users : at[w] # "pushAsleep"
    BY DEF TInv, CallInv, PushInv, PopInv, StopInv, Pushing, Popping
  <2>4. at' = [at EXCEPT ![Consumer] = "out"]
    BY <1>4, <2>3 DEF TryPopTake, NotifyOneAndLeave
  <2>5. QueueTypeOK' /\ MutexInv'
    BY <2>1, <2>2, <2>4 DEF TInv, CallInv, QueueTypeOK, MutexInv, Locked, Places
  <2>6. PushInv' /\ PopInv' /\ StopInv'
    BY <1>0, <2>1, <2>2, <2>4 DEF TInv, CallInv, QueueTypeOK, PushInv, PopInv, StopInv
  <2> QED
    BY <2>5, <2>6, <1>1 DEF TInv, CallInv
<1>5. ~PushCheck(Consumer) /\ ~PushGo(Consumer) /\ ~PushStore(Consumer)
  BY <1>0 DEF Popping, PushCheck, PushGo, PushStore
<1>6. ~StopNotify(Consumer)
  <2>1. at[Consumer] # "stopNotify"
    BY <1>0 DEF Popping
  <2> QED
    BY <2>1, Zenon DEF StopNotify
<1> QED
  BY <1>2, <1>3, <1>4, <1>5, <1>6 DEF CallStep

(* A step inside stop, which is notify_all: the io or the main thread.     *)
LEMMA ControlInQueue ==
  ASSUME TInv, NEW c \in Controllers, CallStep(c),
         UNCHANGED <<daemonSide, monitorSide, controlSide>>
  PROVE  TInv' /\ UNCHANGED stopped
<1> USE ThreadFacts, QueueAssumption
<1>0. UNCHANGED <<producer, consumer, ctl>> /\ at[c] \in {"out", "stopNotify"}
  BY DEF daemonSide, monitorSide, controlSide, TInv, CallInv, StopInv
<1>1. LoopInv'
  BY InsideQueue DEF TInv
<1>2. StopNotify(c)
  BY <1>0 DEF CallStep, TakeMutex, PushCheck, PushGo, PushStore, PopCheck, Sleep, TryPop,
              TryPopCheck, TryPopTake
<1>3. UNCHANGED <<queue, stopped, mutex, val>> /\ at[c] = "stopNotify"
  BY <1>2, Zenon DEF StopNotify
<1>4. at' = [w \in Users |->
               CASE w = c -> "out"
                 [] at[w] = "popAsleep" -> "pop"
                 [] at[w] = "pushAsleep" -> "push"
                 [] OTHER -> at[w]]
  BY <1>2, Zenon DEF StopNotify
<1>5. at'[c] = "out"
  <2>1. at[c] # "popAsleep" /\ at[c] # "pushAsleep"
    BY <1>3
  <2> QED
    BY <1>4, <2>1, Zenon
<1>6. ASSUME NEW w \in Users, w # c
      PROVE  at'[w] = at[w] \/ (w = Consumer /\ at[w] = "popAsleep" /\ at'[w] = "pop")
  <2>1. at[w] # "pushAsleep"
    BY DEF TInv, CallInv, PushInv, PopInv, StopInv, Pushing, Popping
  <2>2. CASE at[w] = "popAsleep"
    <3>1. w = Consumer
      BY <2>2 DEF TInv, CallInv, PushInv, PopInv, StopInv, Pushing, Popping
    <3>2. at'[w] = "pop"
      BY <1>4, <1>6, <2>1, <2>2, Zenon
    <3> QED
      BY <2>2, <3>1, <3>2
  <2>3. CASE at[w] # "popAsleep"
    <3>1. at'[w] = at[w]
      BY <1>4, <1>6, <2>1, <2>3, Zenon
    <3> QED
      BY <3>1, Zenon
  <2> QED
    BY <2>2, <2>3
<1>7. at' \in [Users -> Places]
  BY <1>4 DEF TInv, CallInv, QueueTypeOK, Places
<1>8. QueueTypeOK'
  BY <1>3, <1>7 DEF TInv, CallInv, QueueTypeOK
<1>9. MutexInv'
  BY <1>3, <1>5, <1>6 DEF TInv, CallInv, MutexInv, Locked
<1>10. PushInv' /\ PopInv' /\ StopInv'
  BY <1>0, <1>3, <1>5, <1>6 DEF TInv, CallInv, PushInv, PopInv, StopInv, Popping
<1> QED
  BY <1>1, <1>3, <1>8, <1>9, <1>10 DEF TInv, CallInv

-----------------------------------------------------------------------------
(* The beginnings of calls.                                                *)

(* push begins when full() has found room.                                 *)
LEMMA PushBegins ==
  ASSUME TInv, NEW v \in Values, Push(Producer, v), Len(queue) < Capacity,
         producer' = "push", UNCHANGED <<consumer, ctl>>
  PROVE  CallInv'
<1> USE ThreadFacts, QueueAssumption
<1>1. /\ UNCHANGED <<queue, stopped, mutex>> /\ at[Producer] = "out"
      /\ at' = [at EXCEPT ![Producer] = "push"] /\ val' = [val EXCEPT ![Producer] = v]
  BY DEF Push, Goto
<1>2. QueueTypeOK' /\ MutexInv'
  BY <1>1 DEF TInv, CallInv, QueueTypeOK, MutexInv, Locked, Places
<1>3. PushInv' /\ PopInv' /\ StopInv'
  BY <1>1 DEF TInv, CallInv, QueueTypeOK, PushInv, PopInv, StopInv, Pushing
<1> QED
  BY <1>2, <1>3 DEF CallInv

(* pop begins.                                                             *)
LEMMA PopBegins ==
  ASSUME TInv, Pop(Consumer), consumer' = "pop", UNCHANGED <<producer, ctl>>
  PROVE  CallInv'
<1> USE ThreadFacts, QueueAssumption
<1>1. /\ UNCHANGED <<queue, stopped, mutex>> /\ at[Consumer] = "out"
      /\ at' = [at EXCEPT ![Consumer] = "pop"] /\ val' = [val EXCEPT ![Consumer] = NoValue]
  BY DEF Pop, Goto
<1>2. QueueTypeOK' /\ MutexInv'
  BY <1>1 DEF TInv, CallInv, QueueTypeOK, MutexInv, Locked, Places
<1>3. PushInv' /\ PopInv' /\ StopInv'
  BY <1>1 DEF TInv, CallInv, QueueTypeOK, PushInv, PopInv, StopInv, Popping
<1> QED
  BY <1>2, <1>3 DEF CallInv

(* stop begins, on the io or on the main thread.                           *)
LEMMA StopBegins ==
  ASSUME TInv, NEW c \in Controllers, Stop(c),
         NEW place \in {"stopJoin", "daemonReset"}, Control(c, place),
         UNCHANGED <<producer, consumer>>
  PROVE  CallInv'
<1> USE ThreadFacts, QueueAssumption
<1>1. /\ UNCHANGED <<queue, mutex, val>> /\ at[c] = "out" /\ stopped' = TRUE
      /\ at' = [at EXCEPT ![c] = "stopNotify"]
  BY DEF Stop, Goto
<1>2. \A d \in Controllers : ctl'[d] = IF d = c THEN place ELSE ctl[d]
  BY DEF Control, TInv, LoopInv, CtlTypeOK
<1>3. QueueTypeOK' /\ MutexInv'
  BY <1>1 DEF TInv, CallInv, QueueTypeOK, MutexInv, Locked, Places
<1>4. PushInv' /\ PopInv'
  BY <1>1 DEF TInv, CallInv, QueueTypeOK, PushInv, PopInv
<1>5. StopInv'
  BY <1>1, <1>2 DEF TInv, CallInv, QueueTypeOK, StopInv
<1> QED
  BY <1>3, <1>4, <1>5 DEF CallInv

(* start opens the queue again.                                            *)
LEMMA StartOpens ==
  ASSUME CallInv, Start(Io), UNCHANGED <<producer, consumer>>,
         \A c \in Controllers : at[c] # "out" => ctl'[c] = ctl[c]
  PROVE  CallInv'
<1>1. UNCHANGED <<queue, mutex, at, val>> /\ stopped' = FALSE
  BY DEF Start
<1>2. QueueTypeOK' /\ MutexInv'
  BY <1>1 DEF CallInv, QueueTypeOK, MutexInv
<1>3. PushInv' /\ PopInv' /\ StopInv'
  BY <1>1 DEF CallInv, PushInv, PopInv, StopInv
<1> QED
  BY <1>2, <1>3 DEF CallInv

(* Where a controlling thread goes.                                        *)
LEMMA ControlPlace ==
  ASSUME CtlTypeOK, NEW c \in Controllers, NEW place \in CtlPlaces, Control(c, place)
  PROVE  CtlTypeOK' /\ \A d \in Controllers : ctl'[d] = IF d = c THEN place ELSE ctl[d]
BY DEF CtlTypeOK, Control

(* Where stop leaves it.                                                   *)
LEMMA AfterStopPlace ==
  ASSUME NEW c
  PROVE  AfterStop(c) \in {"exit", "idle", "run"} /\ AfterStop(c) \in CtlPlaces
BY DEF AfterStop, CtlPlaces

(* What update decides, when the address is that of the monitor.           *)
LEMMA AfterUpdatePlace ==
  ASSUME NEW setting
  PROVE  /\ AfterUpdate(setting) \in {"idle", "stop", "run"}
         /\ bindAddress = monitor =>
              \/ AfterUpdate(setting) = "idle" /\ monitor = setting
              \/ AfterUpdate(setting) = "stop" /\ monitor # setting
         /\ monitor = Off =>
              /\ AfterUpdate(setting) = "idle" => setting = Off
              /\ AfterUpdate(setting) = "run" => setting # Off /\ bindAddress = setting
<1>1. CASE (setting = Off /\ monitor = Off) \/ (setting # Off /\ monitor # Off /\ bindAddress = setting)
  <2>1. AfterUpdate(setting) = "idle"
    BY <1>1, Zenon DEF AfterUpdate
  <2> QED
    BY <1>1, <2>1
<1>2. CASE /\ ~((setting = Off /\ monitor = Off) \/ (setting # Off /\ monitor # Off /\ bindAddress = setting))
           /\ setting = Off \/ bindAddress # setting
  <2>1. AfterUpdate(setting) = "stop"
    BY <1>2, Zenon DEF AfterUpdate
  <2> QED
    BY <1>2, <2>1
<1>3. CASE setting # Off /\ monitor = Off /\ bindAddress = setting
  <2>1. AfterUpdate(setting) = "run"
    BY <1>3, Zenon DEF AfterUpdate
  <2> QED
    BY <1>3, <2>1
<1> QED
  BY <1>1, <1>2, <1>3

-----------------------------------------------------------------------------
(* produceLoop *)
LEMMA ProducerKeeps ==
  ASSUME TInv, ProducerStep
  PROVE  TInv'
<1> USE ThreadFacts
<1>a. TInv = (CallInv /\ LoopTypeOK /\ CtlTypeOK /\ TodoInv)
  BY DEF TInv, LoopInv
<1>b. ASSUME UNCHANGED <<daemonState, monitorSide, controlSide>>,
             producer' \in {"loop", "service", "status", "copyQueue", "full", "push",
                           "next", "ended", "dead"},
             todo' \in 0..NServices, TodoInv'
      PROVE  LoopInv'
  BY <1>b DEF TInv, LoopInv, LoopTypeOK, CtlTypeOK, daemonState, monitorSide, controlSide
<1>c. ASSUME UNCHANGED <<queueVars, monitorSide, controlSide>>, producer # "push"
      PROVE  CallInv'
  <2>1. at[Producer] = "out"
    BY <1>c DEF TInv, CallInv, PushInv
  <2> QED
    BY <1>c, <2>1, OutsideQueue DEF TInv, monitorSide, controlSide
<1>d. todo \in 0..NServices /\ NServices \in Nat \ {0}
  BY TelemetryAssumption DEF TInv, LoopInv, LoopTypeOK
<1>1. CASE ProducerRound
  <2>1. producer' \in {"ended", "service", "loop"} /\ todo' \in 0..NServices /\ TodoInv'
    BY <1>1, <1>d DEF ProducerRound, TodoInv
  <2>2. /\ UNCHANGED <<queueVars, monitorSide, controlSide>> /\ producer # "push"
        /\ UNCHANGED <<daemonState, monitorSide, controlSide>>
    BY <1>1 DEF ProducerRound
  <2> QED
    BY <2>1, <2>2, <1>b, <1>c DEF TInv
<1>2. CASE ProducerService \/ ProducerStatus \/ ProducerCopyQueue
  <2>1. producer' \in {"status", "next", "copyQueue", "ended", "dead", "full"} /\ todo' = todo /\ TodoInv'
    BY <1>2 DEF ProducerService, ProducerStatus, ProducerCopyQueue, TodoInv, TInv, LoopInv
  <2>2. /\ UNCHANGED <<queueVars, monitorSide, controlSide>> /\ producer # "push"
        /\ UNCHANGED <<daemonState, monitorSide, controlSide>>
    BY <1>2 DEF ProducerService, ProducerStatus, ProducerCopyQueue
  <2> QED
    BY <2>1, <2>2, <1>b, <1>c, <1>d DEF TInv
<1>3. CASE ProducerPush
  <2>1. producer' \in {"next", "push"} /\ todo' = todo /\ TodoInv'
    BY <1>3 DEF ProducerPush, TodoInv, TInv, LoopInv
  <2>2. LoopInv'
    BY <1>3, <2>1, <1>b, <1>d DEF ProducerPush
  <2>3. CASE UNCHANGED queueVars
    BY <1>3, <2>2, <2>3, <1>c DEF ProducerPush, TInv
  <2>4. CASE Len(queue) < Capacity /\ producer' = "push" /\ \E v \in Values : Push(Producer, v)
    <3>1. UNCHANGED <<consumer, ctl>>
      BY <1>3 DEF ProducerPush, monitorSide, controlSide
    <3> QED
      BY <2>2, <2>4, <3>1, PushBegins DEF TInv
  <2> QED
    BY <1>3, <2>3, <2>4 DEF ProducerPush
<1>4. CASE ProducerPushed
  <2>1. producer' = "next" /\ todo' = todo /\ TodoInv' /\ at[Producer] = "out"
    BY <1>4 DEF ProducerPushed, TodoInv, TInv, LoopInv
  <2>2. /\ UNCHANGED <<queueVars, consumer, ctl>>
        /\ UNCHANGED <<daemonState, monitorSide, controlSide>>
    BY <1>4 DEF ProducerPushed, monitorSide, controlSide
  <2> QED
    BY <2>1, <2>2, <1>b, <1>d, OutsideQueue DEF TInv
<1>5. CASE ProducerNextService
  <2>1. producer = "next" /\ todo # 0 /\ todo' = todo - 1
    BY <1>5 DEF ProducerNextService, TodoInv, TInv, LoopInv
  <2>2. producer' \in {"loop", "service"} /\ (producer' = "service" => todo # 1)
    BY <1>5 DEF ProducerNextService
  <2>3. todo' \in 0..NServices /\ (todo # 1 => todo' # 0)
    BY <2>1, <1>d
  <2>4. /\ UNCHANGED <<queueVars, monitorSide, controlSide>> /\ producer # "push"
        /\ UNCHANGED <<daemonState, monitorSide, controlSide>>
    BY <1>5 DEF ProducerNextService
  <2>5. TodoInv'
    BY <2>2, <2>3 DEF TodoInv
  <2> QED
    BY <2>2, <2>3, <2>4, <2>5, <1>b, <1>c DEF TInv
<1>6. CASE CallStep(Producer) /\ UNCHANGED <<daemonSide, monitorSide, controlSide>>
  BY <1>6, ProducerInQueue
<1> QED
  BY <1>1, <1>2, <1>3, <1>4, <1>5, <1>6 DEF ProducerStep

(* consumeLoop *)
LEMMA ConsumerKeeps ==
  ASSUME TInv, ConsumerStep \/ ConsumerThrow
  PROVE  TInv'
<1> USE ThreadFacts
<1>a. ASSUME UNCHANGED <<daemonSide, monitorRunning, monitorMutex, monitor, bindAddress, controlSide>>,
             consumer' \in {"none", "loop", "pop", "report", "ended", "failed"}
      PROVE  LoopInv' /\ UNCHANGED <<producer, ctl>>
  BY <1>a DEF TInv, LoopInv, LoopTypeOK, CtlTypeOK, TodoInv, daemonSide, controlSide
<1>1. CASE ConsumerRound
  <2>1. consumer' \in {"pop", "ended"} /\ LoopInv' /\ UNCHANGED <<producer, ctl>>
    BY <1>1, <1>a DEF ConsumerRound
  <2>2. CASE consumer' = "pop" /\ Pop(Consumer)
    BY <2>1, <2>2, PopBegins DEF TInv
  <2>3. CASE UNCHANGED queueVars
    <3>1. at[Consumer] = "out"
      BY <1>1 DEF ConsumerRound, TInv, CallInv, PopInv
    <3> QED
      BY <2>1, <2>3, <3>1, OutsideQueue DEF TInv
  <2> QED
    BY <1>1, <2>2, <2>3 DEF ConsumerRound
<1>2. CASE ConsumerPopped \/ ConsumerReport \/ ConsumerThrow
  <2>1. consumer' \in {"loop", "report", "failed"} /\ UNCHANGED queueVars /\ LoopInv'
        /\ UNCHANGED <<producer, ctl>>
    BY <1>2, <1>a DEF ConsumerPopped, ConsumerReport, ConsumerThrow
  <2>2. at[Consumer] = "out"
    BY <1>2 DEF ConsumerPopped, ConsumerReport, ConsumerThrow, TInv, CallInv, PopInv
  <2> QED
    BY <2>1, <2>2, OutsideQueue DEF TInv
<1>3. CASE CallStep(Consumer) /\ UNCHANGED <<daemonSide, monitorSide, controlSide>>
  BY <1>3, ConsumerInQueue
<1> QED
  BY <1>1, <1>2, <1>3 DEF ConsumerStep

(* The daemon's side stays, and so do its types.                           *)
LEMMA DaemonSideKept ==
  ASSUME LoopTypeOK, TodoInv, UNCHANGED <<daemonSide, want, threw>>,
         monitorRunning' \in BOOLEAN, monitorMutex' \in Controllers \cup {Nobody},
         monitor' \in Addresses \cup {Off}, bindAddress' \in Addresses \cup {Off},
         consumer' \in {"none", "loop", "pop", "report", "ended", "failed"}
  PROVE  LoopTypeOK' /\ TodoInv'
<1>1. /\ daemonRunning' = daemonRunning /\ queueMutex' = queueMutex /\ hasQueue' = hasQueue
      /\ configured' = configured /\ loaded' = loaded /\ producer' = producer /\ todo' = todo
      /\ want' = want /\ threw' = threw
  BY DEF daemonSide
<1>2. LoopTypeOK'
  BY <1>1, Zenon DEF LoopTypeOK
<1>3. TodoInv'
  BY <1>1, Zenon DEF TodoInv
<1> QED BY <1>2, <1>3

(* MonitorSubscriber::stop, on either thread.                              *)
LEMMA ControlKeeps ==
  ASSUME TInv, NEW c \in Controllers, ControlStep(c)
  PROVE  TInv'
<1> USE ThreadFacts
<1>0. CtlTypeOK
  BY DEF TInv, LoopInv
<1>1. CASE MonitorStop(c)
  <2>1. \E place \in {"stopLock", "exit", "idle", "run"} : Control(c, place)
    BY <1>1, AfterStopPlace DEF MonitorStop
  <2>2. PICK place \in {"stopLock", "exit", "idle", "run"} : Control(c, place)
    BY <2>1
  <2>3. CtlTypeOK' /\ \A d \in Controllers : d # c => ctl'[d] = ctl[d]
    BY <1>0, <2>2, ControlPlace DEF CtlPlaces
  <2>4. at[c] = "out"
    BY <1>1 DEF MonitorStop, TInv, CallInv, StopInv
  <2>5. CallInv'
    BY <1>1, <2>3, <2>4, OutsideQueue DEF MonitorStop, TInv, daemonSide
  <2>6. LoopTypeOK' /\ TodoInv'
    <3>1. LoopTypeOK /\ TodoInv
      BY DEF TInv, LoopInv
    <3>2. /\ UNCHANGED <<daemonSide, want, threw, monitorMutex, monitor, bindAddress, consumer>>
          /\ monitorRunning' \in BOOLEAN
      BY <1>1 DEF MonitorStop
    <3> QED BY <3>1, <3>2, DaemonSideKept DEF LoopTypeOK
  <2> QED
    BY <2>3, <2>5, <2>6 DEF TInv, LoopInv
<1>2. CASE MonitorStopLock(c)
  <2>1. Control(c, "stopJoin") /\ Stop(c)
    BY <1>2 DEF MonitorStopLock
  <2>2. CtlTypeOK'
    BY <1>0, <2>1, ControlPlace DEF CtlPlaces
  <2>3. CallInv'
    BY <1>2, <2>1, StopBegins DEF MonitorStopLock, daemonSide
  <2>4. LoopTypeOK' /\ TodoInv'
    <3>1. LoopTypeOK /\ TodoInv
      BY DEF TInv, LoopInv
    <3>2. /\ UNCHANGED <<daemonSide, want, threw, monitorRunning, monitor, bindAddress, consumer>>
          /\ monitorMutex' = c
      BY <1>2 DEF MonitorStopLock
    <3> QED BY <3>1, <3>2, DaemonSideKept DEF LoopTypeOK
  <2> QED
    BY <2>2, <2>3, <2>4 DEF TInv, LoopInv
<1>3. CASE MonitorStopJoin(c)
  <2>1. Control(c, AfterStop(c)) /\ AfterStop(c) \in CtlPlaces
    BY <1>3, AfterStopPlace DEF MonitorStopJoin
  <2>2. CtlTypeOK' /\ \A d \in Controllers : d # c => ctl'[d] = ctl[d]
    BY <1>0, <2>1, ControlPlace
  <2>3. at[c] = "out" /\ at[Consumer] = "out"
    BY <1>3 DEF MonitorStopJoin, TInv, CallInv, PopInv
  <2>4. CallInv'
    BY <1>3, <2>2, <2>3, OutsideQueue DEF MonitorStopJoin, TInv, daemonSide
  <2>5. LoopTypeOK' /\ TodoInv'
    <3>1. LoopTypeOK /\ TodoInv
      BY DEF TInv, LoopInv
    <3>2. /\ UNCHANGED <<daemonSide, want, threw, monitorRunning>>
          /\ monitorMutex' = Nobody /\ monitor' = Off /\ bindAddress' = Off /\ consumer' = "none"
      BY <1>3 DEF MonitorStopJoin
    <3> QED BY <3>1, <3>2, DaemonSideKept DEF LoopTypeOK
  <2> QED
    BY <2>2, <2>4, <2>5 DEF TInv, LoopInv
<1>4. CASE CallStep(c) /\ UNCHANGED <<daemonSide, monitorSide, controlSide>>
  BY <1>4, ControlInQueue
<1> QED
  BY <1>1, <1>2, <1>3, <1>4 DEF ControlStep

(* MonitorSubscriber::run and update, on the io thread.                    *)
LEMMA MonitorKeeps ==
  ASSUME TInv,
         \/ MonitorRun \/ MonitorRunLock \/ MonitorRunThread \/ MonitorRunStart
         \/ \E setting \in Updates : MonitorUpdate(setting)
  PROVE  TInv'
<1> USE ThreadFacts
<1>0. CtlTypeOK
  BY DEF TInv, LoopInv
<1>a. ASSUME NEW place \in CtlPlaces, Control(Io, place), ctl[Io] \notin {"stopJoin", "daemonReset"}
      PROVE  CtlTypeOK' /\ \A d \in Controllers : at[d] # "out" => ctl'[d] = ctl[d]
  BY <1>0, <1>a, ControlPlace DEF TInv, CallInv, StopInv
<1>1. CASE MonitorRun
  <2>1. CtlTypeOK' /\ \A d \in Controllers : at[d] # "out" => ctl'[d] = ctl[d]
    BY <1>1, <1>a DEF MonitorRun, CtlPlaces
  <2>2. CallInv'
    BY <1>1, <2>1, OutsideQueue DEF MonitorRun, TInv, daemonSide
  <2>3. LoopTypeOK' /\ TodoInv'
    BY <1>1 DEF MonitorRun, TInv, LoopInv, LoopTypeOK, TodoInv, daemonSide
  <2> QED
    BY <2>1, <2>2, <2>3 DEF TInv, LoopInv
<1>2. CASE MonitorRunLock
  <2>1. CtlTypeOK' /\ \A d \in Controllers : at[d] # "out" => ctl'[d] = ctl[d]
    BY <1>2, <1>a DEF MonitorRunLock, CtlPlaces
  <2>2. CallInv'
    BY <1>2, <2>1, OutsideQueue DEF MonitorRunLock, TInv, daemonSide
  <2>3. LoopTypeOK' /\ TodoInv'
    <3>1. /\ {monitor', bindAddress', want'} \subseteq Addresses \cup {Off}
          /\ monitorMutex' \in Controllers \cup {Nobody}
      BY <1>2 DEF MonitorRunLock, TInv, LoopInv, LoopTypeOK
    <3>2. threw' \in BOOLEAN
      BY <1>2 DEF MonitorRunLock, TInv, LoopInv, LoopTypeOK
    <3>3. UNCHANGED <<daemonSide, monitorRunning, consumer>>
      BY <1>2 DEF MonitorRunLock
    <3> QED
      BY <3>1, <3>2, <3>3 DEF TInv, LoopInv, LoopTypeOK, TodoInv, daemonSide
  <2> QED
    BY <2>1, <2>2, <2>3 DEF TInv, LoopInv
<1>3. CASE MonitorRunThread
  <2>1. CtlTypeOK' /\ \A d \in Controllers : at[d] # "out" => ctl'[d] = ctl[d]
    BY <1>3, <1>a DEF MonitorRunThread, CtlPlaces
  <2>2. at[Consumer] = "out"
    BY <1>3 DEF MonitorRunThread, TInv, CallInv, PopInv
  <2>3. CallInv'
    BY <1>3, <2>1, <2>2, OutsideQueue DEF MonitorRunThread, TInv, daemonSide
  <2>4. LoopTypeOK' /\ TodoInv'
    BY <1>3 DEF MonitorRunThread, TInv, LoopInv, LoopTypeOK, TodoInv, daemonSide
  <2> QED
    BY <2>1, <2>3, <2>4 DEF TInv, LoopInv
<1>4. CASE MonitorRunStart
  <2>1. CtlTypeOK' /\ \A d \in Controllers : at[d] # "out" => ctl'[d] = ctl[d]
    BY <1>4, <1>a DEF MonitorRunStart, CtlPlaces
  <2>2. CallInv'
    BY <1>4, <2>1, StartOpens DEF MonitorRunStart, TInv, daemonSide
  <2>3. LoopTypeOK' /\ TodoInv'
    BY <1>4 DEF MonitorRunStart, TInv, LoopInv, LoopTypeOK, TodoInv, daemonSide
  <2> QED
    BY <2>1, <2>2, <2>3 DEF TInv, LoopInv
<1>5. ASSUME NEW setting \in Updates, MonitorUpdate(setting)
      PROVE  TInv'
  <2>1. AfterUpdate(setting) \in CtlPlaces
    BY AfterUpdatePlace DEF CtlPlaces
  <2>2. CtlTypeOK' /\ \A d \in Controllers : at[d] # "out" => ctl'[d] = ctl[d]
    BY <1>5, <2>1, <1>a DEF MonitorUpdate
  <2>3. CallInv'
    BY <1>5, <2>2, OutsideQueue DEF MonitorUpdate, TInv, daemonSide, monitorSide
  <2>4. LoopTypeOK' /\ TodoInv'
    <3>1. want' \in Addresses \cup {Off} /\ threw' \in BOOLEAN
      BY <1>5, TelemetryAssumption DEF MonitorUpdate
    <3>2. UNCHANGED <<daemonSide, monitorSide>>
      BY <1>5 DEF MonitorUpdate
    <3> QED
      BY <3>1, <3>2 DEF TInv, LoopInv, LoopTypeOK, TodoInv, daemonSide, monitorSide
  <2> QED
    BY <2>2, <2>3, <2>4 DEF TInv, LoopInv
<1> QED
  BY <1>1, <1>2, <1>3, <1>4, <1>5

(* Daemon::stop, on the main thread.                                       *)
LEMMA ShutdownKeeps ==
  ASSUME TInv,
         \/ DaemonStop \/ DaemonStopUnload \/ DaemonStopLock \/ DaemonStopJoin
         \/ DaemonStopReset
  PROVE  TInv'
<1> USE ThreadFacts
<1>0. CtlTypeOK
  BY DEF TInv, LoopInv
<1>a. ASSUME NEW place \in CtlPlaces, Control(Main, place), at[Main] = "out"
      PROVE  CtlTypeOK' /\ \A d \in Controllers : at[d] # "out" => ctl'[d] = ctl[d]
  BY <1>0, <1>a, ControlPlace
<1>b. ctl[Main] \notin {"stopJoin", "daemonReset"} => at[Main] = "out"
  BY DEF TInv, CallInv, StopInv
<1>1. CASE DaemonStop
  <2>1. CtlTypeOK' /\ \A d \in Controllers : at[d] # "out" => ctl'[d] = ctl[d]
    BY <1>1, <1>a, <1>b DEF DaemonStop, CtlPlaces
  <2>2. CallInv'
    BY <1>1, <2>1, OutsideQueue DEF DaemonStop, TInv, monitorSide
  <2>3. LoopTypeOK' /\ TodoInv'
    BY <1>1, ZenonT(40) DEF DaemonStop, TInv, LoopInv, LoopTypeOK, TodoInv, monitorSide
  <2> QED
    BY <2>1, <2>2, <2>3 DEF TInv, LoopInv
<1>2. CASE DaemonStopUnload
  <2>1. CtlTypeOK' /\ \A d \in Controllers : at[d] # "out" => ctl'[d] = ctl[d]
    BY <1>0, <1>2, <1>a, <1>b DEF DaemonStopUnload, CtlPlaces, CtlTypeOK
  <2>2. CallInv'
    BY <1>2, <2>1, OutsideQueue DEF DaemonStopUnload, TInv, monitorSide
  <2>3. LoopTypeOK' /\ TodoInv'
    <3>1. loaded' \subseteq 1..NServices /\ configured' \in BOOLEAN
      BY <1>2 DEF DaemonStopUnload, TInv, LoopInv, LoopTypeOK
    <3>2. UNCHANGED <<daemonRunning, queueMutex, hasQueue, producer, todo, monitorSide, want, threw>>
      BY <1>2 DEF DaemonStopUnload
    <3> QED
      BY <3>1, <3>2 DEF TInv, LoopInv, LoopTypeOK, TodoInv, monitorSide
  <2> QED
    BY <2>1, <2>2, <2>3 DEF TInv, LoopInv
<1>3. CASE DaemonStopLock
  <2>1. CtlTypeOK' /\ \A d \in Controllers : at[d] # "out" => ctl'[d] = ctl[d]
    BY <1>3, <1>a, <1>b DEF DaemonStopLock, CtlPlaces
  <2>2. CallInv'
    BY <1>3, <2>1, OutsideQueue DEF DaemonStopLock, TInv, monitorSide
  <2>3. LoopTypeOK' /\ TodoInv'
    BY <1>3 DEF DaemonStopLock, TInv, LoopInv, LoopTypeOK, TodoInv, monitorSide
  <2> QED
    BY <2>1, <2>2, <2>3 DEF TInv, LoopInv
<1>4. CASE DaemonStopJoin
  <2>1. CtlTypeOK'
    BY <1>0, <1>4, ControlPlace DEF DaemonStopJoin, CtlPlaces
  <2>2. CallInv'
    BY <1>4, StopBegins DEF DaemonStopJoin, daemonSide, monitorSide
  <2>3. LoopTypeOK' /\ TodoInv'
    BY <1>4 DEF DaemonStopJoin, TInv, LoopInv, LoopTypeOK, TodoInv, daemonSide, monitorSide
  <2> QED
    BY <2>1, <2>2, <2>3 DEF TInv, LoopInv
<1>5. CASE DaemonStopReset
  <2>1. CtlTypeOK' /\ \A d \in Controllers : at[d] # "out" => ctl'[d] = ctl[d]
    BY <1>5, <1>a DEF DaemonStopReset, CtlPlaces
  <2>2. CallInv'
    BY <1>5, <2>1, OutsideQueue DEF DaemonStopReset, TInv, monitorSide
  <2>3. LoopTypeOK' /\ TodoInv'
    BY <1>5, ZenonT(40) DEF DaemonStopReset, TInv, LoopInv, LoopTypeOK, TodoInv, monitorSide
  <2> QED
    BY <2>1, <2>2, <2>3 DEF TInv, LoopInv
<1> QED
  BY <1>1, <1>2, <1>3, <1>4, <1>5

(* Every step of every thread.                                             *)
LEMMA TInvStep ==
  ASSUME TInv, [TelemetryNext]_telemetryVars
  PROVE  TInv'
<1>1. CASE UNCHANGED telemetryVars
  <2>1. UNCHANGED queueVars /\ UNCHANGED <<daemonSide, monitorSide, controlSide>>
    BY <1>1 DEF telemetryVars
  <2>2. LoopInv'
    BY <2>1, InsideQueue DEF TInv
  <2>3. CallInv'
    BY <2>1, OutsideQueue DEF TInv, daemonSide, monitorSide, controlSide
  <2> QED
    BY <2>2, <2>3 DEF TInv
<1>2. ASSUME IoStep PROVE TInv'
  BY <1>2, ControlKeeps, MonitorKeeps, ThreadFacts DEF IoStep
<1>3. ASSUME MainStep PROVE TInv'
  BY <1>3, ControlKeeps, ShutdownKeeps, ThreadFacts DEF MainStep
<1> QED
  BY <1>1, <1>2, <1>3, ProducerKeeps, ConsumerKeeps, MonitorKeeps, ShutdownKeeps
  DEF TelemetryNext, Exited

(* TelemetrySpec without its fairness.                                     *)
LEMMA SpecSteps == TelemetrySpec => TelemetryInit /\ [][TelemetryNext]_telemetryVars
BY PTL DEF TelemetrySpec

(* The queue keeps within its capacity although full() and push are two    *)
(* calls, and the producer never sleeps in push, where a stopped daemon    *)
(* could not end it (daemon.cc 255-257): whatever the capacity, the        *)
(* addresses, the updates, the binds that fail, and the shutdown.          *)
THEOREM ProducerNeverBlocks == TelemetrySpec => []TelemetryInv
<1>1. TInv => TelemetryInv
  <2> SUFFICES ASSUME TInv PROVE TelemetryInv
    OBVIOUS
  <2>1. TelemetryTypeOK
    BY DEF TInv, CallInv, LoopInv, LoopTypeOK, CtlTypeOK, CtlPlaces, TelemetryTypeOK
  <2>2. ProducerNeverSleeps
    BY DEF TInv, CallInv, PushInv, Pushing, ProducerNeverSleeps
  <2> QED
    BY <2>1, <2>2 DEF TelemetryInv
<1> QED
  BY <1>1, SpecSteps, TInvInit, TInvStep, PTL

-----------------------------------------------------------------------------
(* The queue in the hands of its four threads, opened and closed again and *)
(* again, is still the bounded first-in first-out buffer: full() and the   *)
(* flag that start clears do not let an element past the capacity, and     *)
(* what was queued before a stop comes out in order after the next start   *)
(* (queue.tpp 24-114, monitor_subscriber.cc 48-100).                       *)
THEOREM RestartsKeepFifo == TelemetrySpec => ImplementsFifo
<1>1. TelemetryInit => Fifo!FifoInit
  BY DEF TelemetryInit, QueueInit, Fifo!FifoInit
<1>2. ASSUME TInv, [TelemetryNext]_telemetryVars
      PROVE  [Fifo!FifoNext]_(Fifo!fifoVars)
  <2> USE ThreadFacts
  <2>a. CASE UNCHANGED <<queue, stopped>>
    BY <2>a DEF Fifo!fifoVars
  <2>b. ASSUME UNCHANGED queueVars PROVE UNCHANGED <<queue, stopped>>
    BY <2>b DEF queueVars
  <2>c. ASSUME NEW c \in Users, Stop(c) PROVE Fifo!Switch(TRUE) \/ UNCHANGED <<queue, stopped>>
    BY <1>2, <2>c DEF Stop, Fifo!Switch, TInv, CallInv, QueueTypeOK
  <2>1. ASSUME CallStep(Producer)
        PROVE  [Fifo!FifoNext]_(Fifo!fifoVars)
    <3>1. CASE PushStore(Producer)
      <4>1. val[Producer] \in Values /\ Len(queue) < Capacity
        BY <1>2, <3>1 DEF PushStore, TInv, CallInv, PushInv
      <4>2. Fifo!Put(val[Producer])
        BY <3>1, <4>1 DEF PushStore, Fifo!Put
      <4> QED
        BY <4>1, <4>2 DEF Fifo!FifoNext
    <3>2. CASE ~PushStore(Producer)
      <4>1. at[Producer] \in {"out"} \cup Pushing
        BY <1>2 DEF TInv, CallInv, PushInv
      <4>2. ~StopNotify(Producer)
        <5>1. at[Producer] # "stopNotify"
          BY <4>1 DEF Pushing
        <5> QED
          BY <5>1, Zenon DEF StopNotify
      <4>3. UNCHANGED <<queue, stopped>>
        BY <2>1, <3>2, <4>1, <4>2
        DEF CallStep, TakeMutex, PushCheck, PushGo, PopCheck, Sleep, TryPop, TryPopCheck,
            TryPopTake, Pushing
      <4> QED
        BY <2>a, <4>3
    <3> QED
      BY <3>1, <3>2
  <2>2. ASSUME CallStep(Consumer)
        PROVE  [Fifo!FifoNext]_(Fifo!fifoVars)
    <3>1. CASE TryPopTake(Consumer) /\ queue # <<>>
      <4>1. Fifo!Take
        BY <3>1 DEF TryPopTake, Fifo!Take
      <4> QED
        BY <4>1 DEF Fifo!FifoNext
    <3>2. CASE ~(TryPopTake(Consumer) /\ queue # <<>>)
      <4>1. at[Consumer] \in {"out"} \cup Popping
        BY <1>2 DEF TInv, CallInv, PopInv
      <4>2. ~StopNotify(Consumer)
        <5>1. at[Consumer] # "stopNotify"
          BY <4>1 DEF Popping
        <5> QED
          BY <5>1, Zenon DEF StopNotify
      <4>3. UNCHANGED <<queue, stopped>>
        BY <2>2, <3>2, <4>1, <4>2
        DEF CallStep, TakeMutex, PushCheck, PushGo, PushStore, PopCheck, Sleep, TryPop,
            TryPopCheck, TryPopTake, Popping
      <4> QED
        BY <2>a, <4>3
    <3> QED
      BY <3>1, <3>2
  <2>3. ASSUME NEW c \in Controllers, CallStep(c)
        PROVE  UNCHANGED <<queue, stopped>>
    <3>1. at[c] \in {"out", "stopNotify"}
      BY <1>2 DEF TInv, CallInv, StopInv
    <3>2. StopNotify(c)
      BY <2>3, <3>1 DEF CallStep, TakeMutex, PushCheck, PushGo, PushStore, PopCheck, Sleep,
                        TryPop, TryPopCheck, TryPopTake
    <3> QED
      BY <3>2, Zenon DEF StopNotify
  <2>4. CASE ProducerStep
    <3>1. CASE ProducerPush
      BY <2>a, <2>b, <3>1 DEF ProducerPush, Push
    <3>2. CASE ~ProducerPush /\ ~CallStep(Producer)
      BY <2>a, <2>b, <2>4, <3>2 DEF ProducerStep, ProducerRound, ProducerService,
        ProducerStatus, ProducerCopyQueue, ProducerPushed, ProducerNextService
    <3> QED
      BY <2>1, <2>4, <3>1, <3>2 DEF ProducerStep
  <2>5. CASE ConsumerStep \/ ConsumerThrow
    <3>1. CASE ConsumerRound
      BY <2>a, <2>b, <3>1 DEF ConsumerRound, Pop
    <3>2. CASE ConsumerPopped \/ ConsumerReport \/ ConsumerThrow
      BY <2>a, <2>b, <3>2 DEF ConsumerPopped, ConsumerReport, ConsumerThrow
    <3> QED
      BY <2>2, <2>5, <3>1, <3>2 DEF ConsumerStep
  <2>6. ASSUME NEW c \in Controllers, ControlStep(c)
        PROVE  [Fifo!FifoNext]_(Fifo!fifoVars)
    <3>1. CASE MonitorStopLock(c)
      BY <2>a, <2>c, <3>1 DEF MonitorStopLock, Fifo!FifoNext
    <3>2. CASE MonitorStop(c) \/ MonitorStopJoin(c)
      BY <2>a, <2>b, <3>2 DEF MonitorStop, MonitorStopJoin
    <3> QED
      BY <2>a, <2>3, <2>6, <3>1, <3>2 DEF ControlStep
  <2>7. CASE MonitorRunStart
    <3>1. Fifo!Switch(FALSE) \/ UNCHANGED <<queue, stopped>>
      BY <1>2, <2>7 DEF MonitorRunStart, Start, Fifo!Switch, TInv, CallInv, QueueTypeOK
    <3> QED
      BY <2>a, <3>1 DEF Fifo!FifoNext
  <2>8. CASE DaemonStopJoin
    BY <2>a, <2>c, <2>8 DEF DaemonStopJoin, Fifo!FifoNext
  <2>9. CASE \/ MonitorRun \/ MonitorRunLock \/ MonitorRunThread \/ DaemonStop
             \/ DaemonStopUnload \/ DaemonStopLock \/ DaemonStopReset
             \/ \E setting \in Updates : MonitorUpdate(setting)
    BY <2>a, <2>b, <2>9 DEF MonitorRun, MonitorRunLock, MonitorRunThread, DaemonStop,
      DaemonStopUnload, DaemonStopLock, DaemonStopReset, MonitorUpdate
  <2>10. CASE UNCHANGED telemetryVars
    BY <2>a, <2>b, <2>10 DEF telemetryVars
  <2> QED
    BY <1>2, <2>4, <2>5, <2>6, <2>7, <2>8, <2>9, <2>10
    DEF TelemetryNext, IoStep, MainStep, Exited
<1> QED
  BY <1>1, <1>2, SpecSteps, TInvInit, TInvStep, PTL DEF ImplementsFifo, Fifo!FifoSpec

-----------------------------------------------------------------------------
(* Updates of the monitor, whether its addresses can be bound or not.      *)
LEMMA UpdateInvInit == TelemetryInit => UpdateInv
<1> SUFFICES ASSUME TelemetryInit PROVE UpdateInv
  OBVIOUS
<1>1. ctl[Io] = "idle" /\ threw = FALSE /\ bindAddress = monitor /\ want = monitor /\ ~stopped
  BY ThreadFacts DEF TelemetryInit, QueueInit
<1>2. /\ monitorRunning <=> monitor # Off
      /\ consumer = IF monitor = Off THEN "none" ELSE "loop"
  BY DEF TelemetryInit
<1>3. Settled
  BY <1>1, <1>2 DEF Settled
<1> QED
  BY <1>1, <1>3 DEF UpdateInv

(* Steps of the loops do not disturb an update.                            *)
LEMMA LoopsLeaveUpdate ==
  ASSUME TInv, UpdateInv,
         UNCHANGED <<stopped, monitorRunning, monitor, bindAddress, ctl, want, threw>>,
         \/ consumer' = consumer
         \/ {consumer, consumer'} \cap {"none", "ended"} = {}
         \/ consumer # "none" /\ ~monitorRunning
  PROVE  UpdateInv'
<1>1. ASSUME Settled
      PROVE  Settled'
  BY <1>1 DEF Settled
<1>2. ASSUME BindFailed
      PROVE  BindFailed'
  BY <1>2 DEF BindFailed
<1> QED
  BY <1>1, <1>2 DEF UpdateInv, Settled, BindFailed

(* One step of any thread.                                                 *)
LEMMA UpdateInvStep ==
  ASSUME TInv, UpdateInv, [TelemetryNext]_telemetryVars
  PROVE  UpdateInv'
<1> USE ThreadFacts
<1>0. CtlTypeOK
  BY DEF TInv, LoopInv
<1>a. ASSUME UNCHANGED <<stopped, monitorSide, controlSide>>
      PROVE  UpdateInv'
  BY <1>a, LoopsLeaveUpdate DEF monitorSide, controlSide
<1>b. ASSUME UNCHANGED queueVars PROVE UNCHANGED stopped
  BY <1>b DEF queueVars
<1>c. ASSUME NEW c \in Users \ Controllers, CallStep(c)
      PROVE  UNCHANGED stopped
  <2>1. ~StopNotify(c)
    <3>1. at[c] # "stopNotify"
      BY <1>c DEF TInv, CallInv, PushInv, PopInv, Pushing, Popping
    <3> QED
      BY <3>1, Zenon DEF StopNotify
  <2> QED
    BY <1>c, <2>1 DEF CallStep, TakeMutex, PushCheck, PushGo, PushStore, PopCheck, Sleep,
                      TryPop, TryPopCheck, TryPopTake
<1>1. CASE ProducerStep
  <2>1. UNCHANGED <<monitorSide, controlSide>>
    BY <1>1 DEF ProducerStep, ProducerRound, ProducerService, ProducerStatus,
      ProducerCopyQueue, ProducerPush, ProducerPushed, ProducerNextService
  <2>2. UNCHANGED stopped
    <3>1. CASE ProducerPush
      BY <1>b, <3>1 DEF ProducerPush, Push
    <3>2. CASE ~ProducerPush /\ ~CallStep(Producer)
      BY <1>b, <1>1, <3>2 DEF ProducerStep, ProducerRound, ProducerService, ProducerStatus,
        ProducerCopyQueue, ProducerPushed, ProducerNextService
    <3> QED
      BY <1>1, <1>c, <3>1, <3>2 DEF ProducerStep
  <2> QED
    BY <1>a, <2>1, <2>2
<1>2. CASE ConsumerStep \/ ConsumerThrow
  <2>1. CASE ConsumerRound
    <3>1. UNCHANGED <<stopped, monitorRunning, monitor, bindAddress, ctl, want, threw>>
      BY <1>b, <2>1 DEF ConsumerRound, Pop, controlSide
    <3>2. {consumer, consumer'} \cap {"none", "ended"} = {} \/ (consumer # "none" /\ ~monitorRunning)
      BY <2>1 DEF ConsumerRound
    <3> QED
      BY <3>1, <3>2, LoopsLeaveUpdate
  <2>2. CASE ConsumerPopped \/ ConsumerReport \/ ConsumerThrow
    <3>1. UNCHANGED <<stopped, monitorRunning, monitor, bindAddress, ctl, want, threw>>
      BY <1>b, <2>2 DEF ConsumerPopped, ConsumerReport, ConsumerThrow, controlSide
    <3>2. {consumer, consumer'} \cap {"none", "ended"} = {}
      BY <2>2 DEF ConsumerPopped, ConsumerReport, ConsumerThrow
    <3> QED
      BY <3>1, <3>2, LoopsLeaveUpdate
  <2>3. CASE CallStep(Consumer) /\ UNCHANGED <<daemonSide, monitorSide, controlSide>>
    BY <1>a, <1>c, <2>3
  <2> QED
    BY <1>2, <2>1, <2>2, <2>3 DEF ConsumerStep
<1>3. CASE DaemonStop \/ MainStep
  <2>1. ctl'[Main] # "wait"
    <3>1. CASE ControlStep(Main)
      <4>1. CASE CallStep(Main) /\ UNCHANGED <<daemonSide, monitorSide, controlSide>>
        <5>1. at[Main] # "out"
          <6>1. CASE StopNotify(Main)
            BY <6>1, Zenon DEF StopNotify
          <6>2. CASE ~StopNotify(Main)
            BY <4>1, <6>2 DEF CallStep, TakeMutex, PushCheck, PushGo, PushStore, PopCheck,
              Sleep, TryPop, TryPopCheck, TryPopTake
          <6> QED
            BY <6>1, <6>2
        <5> QED
          BY <4>1, <5>1 DEF TInv, CallInv, StopInv, controlSide
      <4>2. CASE MonitorStop(Main) \/ MonitorStopLock(Main) \/ MonitorStopJoin(Main)
        BY <1>0, <4>2, AfterStopPlace
        DEF MonitorStop, MonitorStopLock, MonitorStopJoin, Control, CtlTypeOK
      <4> QED
        BY <3>1, <4>1, <4>2 DEF ControlStep
    <3>2. CASE ~ControlStep(Main)
      BY <1>0, <1>3, <3>2 DEF MainStep, DaemonStop, DaemonStopUnload, DaemonStopLock,
        DaemonStopJoin, DaemonStopReset, Control, CtlTypeOK
    <3> QED
      BY <3>1, <3>2
  <2> QED
    BY <2>1 DEF UpdateInv
<1>4. CASE ControlStep(Io)
  <2>1. CASE CallStep(Io) /\ UNCHANGED <<daemonSide, monitorSide, controlSide>>
    BY <1>a, <2>1, ControlInQueue
  <2>2. CASE MonitorStop(Io)
    <3>1. ctl'[Main] = ctl[Main] /\ ctl[Io] = "stop"
      BY <1>0, <2>2 DEF MonitorStop, Control, CtlTypeOK
    <3>2. ctl'[Io] = IF monitorRunning THEN "stopLock" ELSE IF want = Off THEN "idle" ELSE "run"
      BY <1>0, <2>2 DEF MonitorStop, Control, CtlTypeOK, AfterStop
    <3>3. UNCHANGED <<monitor, bindAddress, consumer, want, threw>> /\ monitorRunning' = FALSE
      BY <2>2 DEF MonitorStop
    <3> QED
      BY <3>1, <3>2, <3>3 DEF UpdateInv, Settled, BindFailed
  <2>3. CASE MonitorStopLock(Io)
    <3>1. /\ ctl'[Main] = ctl[Main] /\ ctl[Io] = "stopLock" /\ ctl'[Io] = "stopJoin"
          /\ UNCHANGED <<monitorRunning, monitor, bindAddress, consumer, want, threw>>
      BY <1>0, <2>3 DEF MonitorStopLock, Control, CtlTypeOK
    <3> QED
      BY <3>1 DEF UpdateInv
  <2>4. CASE MonitorStopJoin(Io)
    <3>1. /\ ctl'[Main] = ctl[Main] /\ ctl[Io] = "stopJoin"
          /\ ctl'[Io] = IF want = Off THEN "idle" ELSE "run"
      BY <1>0, <2>4 DEF MonitorStopJoin, Control, CtlTypeOK, AfterStop
    <3>2. /\ monitor' = Off /\ bindAddress' = Off /\ consumer' = "none"
          /\ UNCHANGED <<monitorRunning, want, threw>>
      BY <2>4 DEF MonitorStopJoin
    <3> QED
      BY <3>1, <3>2 DEF UpdateInv, Settled
  <2> QED
    BY <1>4, <2>1, <2>2, <2>3, <2>4 DEF ControlStep
<1>5. CASE MonitorRun
  <2>1. /\ ctl'[Main] = ctl[Main] /\ ctl[Io] = "run"
        /\ ctl'[Io] = IF monitorRunning THEN "idle" ELSE "runLock"
    BY <1>0, <1>5 DEF MonitorRun, Control, CtlTypeOK
  <2>2. monitorRunning' = TRUE /\ UNCHANGED <<monitor, bindAddress, consumer, want, threw>>
    BY <1>5 DEF MonitorRun
  <2> QED
    BY <2>1, <2>2 DEF UpdateInv, BindFailed
<1>6. CASE MonitorRunLock
  <2>1. ctl'[Main] = ctl[Main] /\ ctl[Io] = "runLock"
    BY <1>0, <1>6 DEF MonitorRunLock, Control, CtlTypeOK
  <2>2. bindAddress' = want /\ UNCHANGED <<monitorRunning, consumer, want>>
    BY <1>6 DEF MonitorRunLock
  <2>3. \/ ctl'[Io] = "runThread" /\ monitor' = want
        \/ ctl'[Io] = "idle" /\ want \in MayFailToBind /\ threw' = TRUE /\ monitor' = monitor
    BY <1>0, <1>6 DEF MonitorRunLock, Control, CtlTypeOK
  <2> QED
    BY <2>1, <2>2, <2>3 DEF UpdateInv, BindFailed
<1>7. CASE MonitorRunThread
  <2>1. ctl'[Main] = ctl[Main] /\ ctl[Io] = "runThread" /\ ctl'[Io] = "runStart"
    BY <1>0, <1>7 DEF MonitorRunThread, Control, CtlTypeOK
  <2>2. /\ consumer' = "loop"
        /\ UNCHANGED <<monitorRunning, monitor, bindAddress, want, threw>>
    BY <1>7 DEF MonitorRunThread
  <2> QED
    BY <2>1, <2>2 DEF UpdateInv
<1>8. CASE MonitorRunStart
  <2>1. ctl'[Main] = ctl[Main] /\ ctl[Io] = "runStart" /\ ctl'[Io] = "idle"
    BY <1>0, <1>8 DEF MonitorRunStart, Control, CtlTypeOK
  <2>2. /\ stopped' = FALSE
        /\ UNCHANGED <<monitorRunning, monitor, bindAddress, consumer, want, threw>>
    BY <1>8 DEF MonitorRunStart, Start
  <2> QED
    BY <2>1, <2>2 DEF UpdateInv, Settled
<1>9. ASSUME NEW setting \in Updates, MonitorUpdate(setting)
      PROVE  UpdateInv'
  <2>1. /\ ctl'[Main] = ctl[Main] /\ ctl[Main] = "wait" /\ ctl[Io] = "idle"
        /\ ctl'[Io] = AfterUpdate(setting)
    BY <1>0, <1>9 DEF MonitorUpdate, Control, CtlTypeOK
  <2>2. UNCHANGED <<stopped, monitorRunning, monitor, bindAddress, consumer>>
        /\ want' = setting /\ threw' = FALSE
    BY <1>9 DEF MonitorUpdate, queueVars, monitorSide
  <2>3. (monitor = want /\ Settled) \/ BindFailed
    BY <2>1 DEF UpdateInv
  <2>4. CASE monitor = want /\ Settled
    <3>1. \/ AfterUpdate(setting) = "idle" /\ monitor = setting
          \/ AfterUpdate(setting) = "stop"
      BY <2>4, AfterUpdatePlace DEF Settled
    <3>2. Settled'
      BY <2>2, <2>4 DEF Settled
    <3> QED
      BY <2>1, <2>2, <3>1, <3>2 DEF UpdateInv
  <2>5. CASE BindFailed
    <3>1. BindFailed'
      BY <2>2, <2>5 DEF BindFailed
    <3>2. /\ AfterUpdate(setting) \in {"idle", "stop", "run"}
          /\ AfterUpdate(setting) = "idle" => setting = Off
          /\ AfterUpdate(setting) = "run" => setting # Off /\ bindAddress = setting
      BY <2>5, AfterUpdatePlace DEF BindFailed
    <3> QED
      BY <2>1, <2>2, <3>1, <3>2 DEF UpdateInv
  <2> QED
    BY <2>3, <2>4, <2>5
<1>10. CASE UNCHANGED telemetryVars
  BY <1>a, <1>b, <1>10 DEF telemetryVars
<1> QED
  BY <1>1, <1>2, <1>3, <1>4, <1>5, <1>6, <1>7, <1>8, <1>9, <1>10
  DEF TelemetryNext, IoStep, Exited

(* The monitor is as the last configuration says whenever the io thread is *)
(* done with an update that threw nothing, and on exactly if running_ is   *)
(* set, its queue is open and it has its own consumer thread, running or   *)
(* ended by an exception ("启动 prometheus 监控", monitor_subscriber.cc    *)
(* 44; 48-100, 145-149): after any sequence of settings, at any step of    *)
(* the producer and the consumer.  The one other state is that of a bind   *)
(* that has failed, met by updates that name its address or none.          *)
THEOREM MonitorFollowsConfig == TelemetrySpec => []MonitorAsConfigured
<1>1. TInv /\ UpdateInv => MonitorAsConfigured
  <2> SUFFICES ASSUME TInv, UpdateInv, ctl[Io] = "idle", ctl[Main] = "wait", ~threw,
                      ~(BindFailed /\ want \in {Off, bindAddress})
               PROVE  /\ monitor = want /\ Settled
                      /\ monitorRunning = (monitor # Off)
    BY DEF MonitorAsConfigured, Settled
  <2>1. monitor = want /\ Settled
    BY DEF UpdateInv
  <2>2. monitorRunning \in BOOLEAN
    BY DEF TInv, LoopInv, LoopTypeOK
  <2>3. monitorRunning <=> monitor # Off
    BY <2>1 DEF Settled
  <2>4. monitorRunning = (monitor # Off)
    BY <2>2, <2>3
  <2> QED
    BY <2>1, <2>4
<1>2. TInv /\ UpdateInv /\ [TelemetryNext]_telemetryVars => UpdateInv'
  BY UpdateInvStep
<1> QED
  BY <1>1, <1>2, UpdateInvInit, SpecSteps, TInvInit, TInvStep, PTL
=============================================================================
