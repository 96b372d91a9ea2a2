---------------------------- MODULE StatusQueue ----------------------------
(***************************************************************************)
(* Queue<T> (src/src/data/queue.tpp): a bounded queue with one mutex, two  *)
(* condition variables and an atomic flag that stop() sets without the     *)
(* mutex.  One step is what a thread does between two points where another *)
(* thread can see or change something: taking the mutex, evaluating the    *)
(* predicate of a wait, going to sleep (which frees the mutex), each       *)
(* reading of the flag, touching the container.                            *)
(***************************************************************************)
EXTENDS Naturals, Sequences, FiniteSets

CONSTANTS
  Users,     \* the threads that call the queue
  Pushers, Poppers, Stoppers,  \* the ones that call push, pop, stop
  Values,    \* elements
  Capacity,  \* capacity_
  Nobody,    \* the mutex is free
  NoValue    \* std::nullopt

ASSUME QueueAssumption ==
  /\ Capacity \in Nat \ {0}
  /\ IsFiniteSet(Users)
  /\ Pushers \cup Poppers \cup Stoppers \subseteq Users
  /\ Nobody \notin Users
  /\ NoValue \notin Values

VARIABLES
  queue,    \* queue_
  stopped,  \* stopped_
  mutex,    \* the holder of mutex_
  at,       \* [Users -> where the thread is in its call]
  val       \* [Users -> the element it pushes, or the one it popped]

queueVars == <<queue, stopped, mutex, at, val>>

Places ==
  {"out", "push", "pushCheck", "pushGo", "pushStore", "pushDoze", "pushAsleep",
   "pop", "popCheck", "popDoze", "popAsleep", "tryPop", "tryPopCheck", "take",
   "undefined", "stopNotify"}

(* Threads inside their critical section.                                  *)
Locked ==
  {"pushCheck", "pushGo", "pushStore", "pushDoze", "popCheck", "popDoze",
   "tryPopCheck", "take", "undefined"}

Goto(u, place) == at' = [at EXCEPT ![u] = place]

-----------------------------------------------------------------------------
(* notify_one: some thread asleep on the condition variable, if any, goes  *)
(* for the mutex again.  u is the caller, which leaves its call.           *)
NotifyOneAndLeave(u, asleep, woken) ==
  \/ /\ \A w \in Users : at[w] # asleep
     /\ Goto(u, "out")
  \/ \E w \in Users :
       /\ at[w] = asleep
       /\ at' = [at EXCEPT ![w] = woken, ![u] = "out"]

(* A call takes the mutex, at its start and again after a wait.            *)
TakeMutex(u) ==
  /\ mutex = Nobody
  /\ \/ at[u] = "push" /\ Goto(u, "pushCheck")
     \/ at[u] = "pop" /\ Goto(u, "popCheck")
  /\ mutex' = u
  /\ UNCHANGED <<queue, stopped, val>>

(* push *)
Push(u, v) ==
  /\ at[u] = "out"
  /\ val' = [val EXCEPT ![u] = v]
  /\ Goto(u, "push")
  /\ UNCHANGED <<queue, stopped, mutex>>

(* Mutant: the wait lets an element into a full queue.                     *)
PushCheckOffByOne(u) ==
  /\ at[u] = "pushCheck"
  /\ Goto(u, IF Len(queue) <= Capacity \/ stopped THEN "pushGo" ELSE "pushDoze")
  /\ UNCHANGED <<queue, stopped, mutex, val>>

(* The predicate of the wait reads the flag only when the queue is full.   *)
PushCheck(u) ==
  /\ at[u] = "pushCheck"
  /\ Goto(u, IF Len(queue) < Capacity \/ stopped THEN "pushGo" ELSE "pushDoze")
  /\ UNCHANGED <<queue, stopped, mutex, val>>

(* The flag is read again after the wait.                                  *)
PushGo(u) ==
  /\ at[u] = "pushGo"
  /\ \/ stopped /\ mutex' = Nobody /\ Goto(u, "out")
     \/ ~stopped /\ Goto(u, "pushStore") /\ UNCHANGED mutex
  /\ UNCHANGED <<queue, stopped, val>>

(* Mutants: the element comes in at the front; nobody is notified.         *)
PushStoreFront(u) ==
  /\ at[u] = "pushStore"
  /\ queue' = <<val[u]>> \o queue
  /\ mutex' = Nobody
  /\ NotifyOneAndLeave(u, "popAsleep", "pop")
  /\ UNCHANGED <<stopped, val>>
PushStoreSilent(u) ==
  /\ at[u] = "pushStore"
  /\ queue' = Append(queue, val[u])
  /\ mutex' = Nobody
  /\ Goto(u, "out")
  /\ UNCHANGED <<stopped, val>>

PushStore(u) ==
  /\ at[u] = "pushStore"
  /\ queue' = Append(queue, val[u])
  /\ mutex' = Nobody
  /\ NotifyOneAndLeave(u, "popAsleep", "pop")
  /\ UNCHANGED <<stopped, val>>

(* pop: wait, give the mutex back, and call tryPop *)
Pop(u) ==
  /\ at[u] = "out"
  /\ val' = [val EXCEPT ![u] = NoValue]
  /\ Goto(u, "pop")
  /\ UNCHANGED <<queue, stopped, mutex>>

(* Mutant: the wait has no predicate and may end without an element.       *)
PopCheckSpurious(u) ==
  /\ at[u] = "popCheck"
  /\ mutex' = Nobody /\ Goto(u, "tryPop")
  /\ UNCHANGED <<queue, stopped, val>>

PopCheck(u) ==
  /\ at[u] = "popCheck"
  /\ \/ /\ queue # <<>> \/ stopped
        /\ mutex' = Nobody /\ Goto(u, "tryPop")
     \/ /\ ~(queue # <<>> \/ stopped)
        /\ Goto(u, "popDoze") /\ UNCHANGED mutex
  /\ UNCHANGED <<queue, stopped, val>>

(* The wait has seen its predicate false and sleeps, freeing the mutex.    *)
Sleep(u) ==
  /\ \/ at[u] = "pushDoze" /\ Goto(u, "pushAsleep")
     \/ at[u] = "popDoze" /\ Goto(u, "popAsleep")
  /\ mutex' = Nobody
  /\ UNCHANGED <<queue, stopped, val>>

(* tryPop, at the end of pop: its condition reads the flag, and if it is   *)
(* clear reads it a second time before it looks at the container.          *)
TryPop(u) ==
  /\ at[u] = "tryPop" /\ mutex = Nobody
  /\ \/ stopped /\ Goto(u, "out") /\ UNCHANGED mutex
     \/ ~stopped /\ Goto(u, "tryPopCheck") /\ mutex' = u
  /\ UNCHANGED <<queue, stopped, val>>

TryPopCheck(u) ==
  /\ at[u] = "tryPopCheck"
  /\ \/ ~stopped /\ queue = <<>> /\ Goto(u, "out") /\ mutex' = Nobody
     \/ (stopped \/ queue # <<>>) /\ Goto(u, "take") /\ UNCHANGED mutex
  /\ UNCHANGED <<queue, stopped, val>>

(* Mutant: the pushers are not told that there is room.                    *)
TryPopTakeSilent(u) ==
  /\ at[u] = "take" /\ queue # <<>>
  /\ val' = [val EXCEPT ![u] = Head(queue)]
  /\ queue' = Tail(queue)
  /\ mutex' = Nobody
  /\ Goto(u, "out")
  /\ UNCHANGED stopped

(* front() and pop() of an empty container are undefined: nothing is said  *)
(* of what the thread does next.                                           *)
TryPopTake(u) ==
  /\ at[u] = "take"
  /\ \/ /\ queue # <<>>
        /\ val' = [val EXCEPT ![u] = Head(queue)]
        /\ queue' = Tail(queue)
        /\ mutex' = Nobody
        /\ NotifyOneAndLeave(u, "pushAsleep", "push")
     \/ /\ queue = <<>>
        /\ Goto(u, "undefined")
        /\ UNCHANGED <<queue, mutex, val>>
  /\ UNCHANGED stopped

(* start and stop, without the mutex *)
Start(u) ==
  /\ at[u] = "out"
  /\ stopped' = FALSE
  /\ UNCHANGED <<queue, mutex, at, val>>

Stop(u) ==
  /\ at[u] = "out"
  /\ stopped' = TRUE
  /\ Goto(u, "stopNotify")
  /\ UNCHANGED <<queue, mutex, val>>

StopNotify(u) ==
  /\ at[u] = "stopNotify"
  /\ at' = [w \in Users |->
              CASE w = u -> "out"
                [] at[w] = "popAsleep" -> "pop"
                [] at[w] = "pushAsleep" -> "push"
                [] OTHER -> at[w]]
  /\ UNCHANGED <<queue, stopped, mutex, val>>

-----------------------------------------------------------------------------
QueueInit ==
  /\ queue = <<>>
  /\ stopped = FALSE
  /\ mutex = Nobody
  /\ at = [u \in Users |-> "out"]
  /\ val = [u \in Users |-> NoValue]

(* start() is left to Telemetry, with the one caller it has.               *)
Call(u) ==
  \/ u \in Pushers /\ \E v \in Values : Push(u, v)
  \/ u \in Poppers /\ Pop(u)
  \/ u \in Stoppers /\ Stop(u)

(* The steps of a call that is under way.                                  *)
CallStep(u) ==
  \/ TakeMutex(u) \/ PushCheck(u) \/ PushGo(u) \/ PushStore(u) \/ PopCheck(u)
  \/ Sleep(u) \/ TryPop(u) \/ TryPopCheck(u) \/ TryPopTake(u) \/ StopNotify(u)

QueueNext == \E u \in Users : Call(u) \/ CallStep(u)

QueueSpec == QueueInit /\ [][QueueNext]_queueVars

-----------------------------------------------------------------------------
(* The types of the state; the container never holds more than capacity_   *)
(* (queue.tpp 26).                                                         *)
QueueTypeOK ==
  /\ queue \in Seq(Values) /\ Len(queue) <= Capacity
  /\ stopped \in BOOLEAN
  /\ mutex \in Users \cup {Nobody}
  /\ at \in [Users -> Places]
  /\ val \in [Users -> Values \cup {NoValue}]

(* The mutex is held by exactly the thread in a critical section, and the  *)
(* room that push has waited for is still there when it stores: the wait   *)
(* and the second reading of the flag are one critical section (queue.tpp  *)
(* 24-32), the wait of pop and tryPop are two (58-82).                     *)
RoomWhenStoring ==
  /\ \A u \in Users : at[u] \in Locked <=> mutex = u
  /\ \A u \in Users : at[u] = "pushStore" => Len(queue) < Capacity

(* The container within its capacity, and the room that push has seen      *)
(* still there when it stores (queue.tpp 24-32).                           *)
QueueInv == QueueTypeOK /\ RoomWhenStoring

(* tryPop takes an element only if there is one, and else returns nullopt  *)
(* ("队头有元素可以出队，没有返回空", queue.tpp 70).                       *)
TryPopFindsElement == \A u \in Users : at[u] = "take" => queue # <<>>

Fifo == INSTANCE BoundedFifo WITH items <- queue, off <- stopped

(* The queue is a bounded first-in first-out buffer: elements leave in the *)
(* order they came, none is lost or duplicated, however the calls of push, *)
(* pop and stop interleave (queue.tpp 24-114).                             *)
ImplementsFifo == Fifo!FifoSpec

(* Nobody sleeps on a condition that has come true with no one on the way: *)
(* a thread asleep in pop while there are elements, or in push while there *)
(* is room, means that another thread was woken for it, or is inside a     *)
(* call that will see the element or the room, or that stop is about to    *)
(* wake everyone (notify_one of queue.tpp 31 and 80).                      *)
NoForgottenSleeper ==
  /\ \A u \in Users :
       at[u] = "popAsleep" /\ queue # <<>> =>
         \E w \in Users : at[w] \in {"pop", "popCheck", "tryPop", "tryPopCheck",
                                     "take", "stopNotify"}
  /\ \A u \in Users :
       at[u] = "pushAsleep" /\ Len(queue) < Capacity =>
         \E w \in Users : at[w] \in {"push", "pushCheck", "pushGo", "pushStore",
                                     "stopNotify"}
=============================================================================
