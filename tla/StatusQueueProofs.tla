------------------------- MODULE StatusQueueProofs -------------------------
(* Theorems about StatusQueue, for every finite set of threads, every set  *)
(* of elements and every capacity.                                         *)
EXTENDS StatusQueue, FiniteSetTheorems, TLAPS

-----------------------------------------------------------------------------
(* The inductive invariant.                                                *)

PushPlaces ==
  {"push", "pushCheck", "pushGo", "pushStore", "pushDoze", "pushAsleep"}
PopPlaces ==
  {"pop", "popCheck", "popDoze", "popAsleep", "tryPop", "tryPopCheck", "take"}

MutexInv == \A u \in Users : at[u] \in Locked <=> mutex = u

(* What a thread in push carries, and the room it has seen: only stop can  *)
(* let it past a full queue, and then it does not store.                   *)
ValInv == \A u \in Users : at[u] \in PushPlaces => val[u] \in Values
RoomInv ==
  \A u \in Users :
    /\ at[u] = "pushGo" /\ ~stopped => Len(queue) < Capacity
    /\ at[u] = "pushStore" => Len(queue) < Capacity

(* A thread that is about to sleep has seen what it sleeps for, and it     *)
(* holds the mutex.                                                        *)
DozeInv ==
  \A u \in Users :
    /\ at[u] = "popDoze" => queue = <<>>
    /\ at[u] = "pushDoze" => Len(queue) = Capacity

(* The threads on their way to an element, and the ones on their way to    *)
(* room.                                                                   *)
PopBound ==
  {w \in Users : at[w] \in {"pop", "popCheck", "tryPop", "tryPopCheck", "take"}}
PushBound == {w \in Users : at[w] \in {"push", "pushCheck", "pushGo", "pushStore"}}

(* Before stop: while someone sleeps in pop there are no more elements     *)
(* than threads on their way to one, and the same for push and room.       *)
PopAwake ==
  ~stopped /\ (\E u \in Users : at[u] = "popAsleep") =>
    Len(queue) <= Cardinality(PopBound)
PushAwake ==
  ~stopped /\ (\E u \in Users : at[u] = "pushAsleep") =>
    Capacity <= Len(queue) + Cardinality(PushBound)

(* After stop and its notifications: at most one thread is still asleep,   *)
(* the one that had evaluated its predicate before the flag was set.       *)
Resting == {"popDoze", "popAsleep", "pushDoze", "pushAsleep"}
LastSleeper ==
  stopped /\ (\A w \in Users : at[w] # "stopNotify") =>
    /\ \A u, w \in Users : at[u] \in Resting /\ at[w] \in Resting => u = w
    /\ \A u \in Users : at[u] = "popAsleep" => queue = <<>>
    /\ \A u \in Users : at[u] = "pushAsleep" => Len(queue) = Capacity

QInv == QueueTypeOK /\ MutexInv /\ ValInv /\ RoomInv
WakeInv == DozeInv /\ PopAwake /\ PushAwake /\ LastSleeper

(* With one thread that pops: what it has seen in the queue stays there.   *)
PopperInv ==
  \A u \in Users :
    /\ at[u] \in PopPlaces => u \in Poppers
    /\ at[u] = "tryPop" /\ ~stopped => queue # <<>>
    /\ at[u] \in {"tryPopCheck", "take"} => queue # <<>>

-----------------------------------------------------------------------------
(* Types, the mutex and the room of push.                                  *)
LEMMA QInvInit == QueueInit => QInv
<1> SUFFICES ASSUME QueueInit PROVE QInv
  OBVIOUS
<1>1. QueueTypeOK
  <2>1. queue \in Seq(Values) /\ Len(queue) = 0
    BY DEF QueueInit
  <2>2. at \in [Users -> Places] /\ val \in [Users -> Values \cup {NoValue}]
    BY DEF QueueInit, Places
  <2>3. stopped \in BOOLEAN /\ mutex \in Users \cup {Nobody}
    BY DEF QueueInit
  <2>4. Len(queue) <= Capacity
    BY <2>1, QueueAssumption
  <2> QED
    BY <2>1, <2>2, <2>3, <2>4 DEF QueueTypeOK
<1>2. MutexInv /\ ValInv /\ RoomInv
  BY QueueAssumption DEF QueueInit, MutexInv, ValInv, RoomInv, Locked, PushPlaces
<1> QED
  BY <1>1, <1>2 DEF QInv

(* One step of one thread keeps them.                                      *)
LEMMA QInvStep ==
  ASSUME QInv, [QueueNext]_queueVars
  PROVE  QInv'
<1> USE QueueAssumption DEF QInv, QueueTypeOK, MutexInv, ValInv, RoomInv, Places,
        Locked, PushPlaces, Goto
<1>1. ASSUME NEW u \in Users, NEW v \in Values, Push(u, v)
      PROVE  QInv'
  BY <1>1 DEF Push
<1>2. ASSUME NEW u \in Users, TakeMutex(u)
      PROVE  QInv'
  BY <1>2 DEF TakeMutex
<1>3. ASSUME NEW u \in Users, PushCheck(u)
      PROVE  QInv'
  BY <1>3 DEF PushCheck
<1>4. ASSUME NEW u \in Users, PushGo(u)
      PROVE  QInv'
  BY <1>4 DEF PushGo
<1>5. ASSUME NEW u \in Users, PushStore(u)
      PROVE  QInv'
  BY <1>5 DEF PushStore, NotifyOneAndLeave
<1>6. ASSUME NEW u \in Users, Pop(u)
      PROVE  QInv'
  BY <1>6 DEF Pop
<1>7. ASSUME NEW u \in Users, PopCheck(u)
      PROVE  QInv'
  BY <1>7 DEF PopCheck
<1>8. ASSUME NEW u \in Users, Sleep(u)
      PROVE  QInv'
  BY <1>8 DEF Sleep
<1>9. ASSUME NEW u \in Users, TryPop(u)
      PROVE  QInv'
  BY <1>9 DEF TryPop
<1>10. ASSUME NEW u \in Users, TryPopCheck(u)
      PROVE  QInv'
  BY <1>10 DEF TryPopCheck
<1>11. ASSUME NEW u \in Users, TryPopTake(u)
      PROVE  QInv'
  <2>1. CASE queue = <<>>
    BY <1>11, <2>1 DEF TryPopTake
  <2>2. CASE queue # <<>>
    <3>1. Tail(queue) \in Seq(Values) /\ Len(Tail(queue)) = Len(queue) - 1
          /\ Len(queue) \in Nat /\ Head(queue) \in Values
      BY <2>2
    <3>2. /\ queue' = Tail(queue) /\ val' = [val EXCEPT ![u] = Head(queue)]
          /\ mutex' = Nobody /\ stopped' = stopped /\ mutex = u
      BY <1>11, <2>2 DEF TryPopTake
    <3>3. NotifyOneAndLeave(u, "pushAsleep", "push") /\ at[u] = "take"
      BY <1>11, <2>2 DEF TryPopTake
    <3>4. CASE \A w \in Users : at[w] # "pushAsleep"
      BY <3>1, <3>2, <3>3, <3>4 DEF NotifyOneAndLeave
    <3>5. CASE \E w \in Users : at[w] = "pushAsleep"
      <4>1. PICK w \in Users : /\ at[w] = "pushAsleep"
                               /\ at' = [at EXCEPT ![w] = "push", ![u] = "out"]
        BY <3>3, <3>5 DEF NotifyOneAndLeave
      <4> QED
        BY <3>1, <3>2, <3>3, <4>1
    <3> QED
      BY <3>4, <3>5
  <2> QED
    BY <2>1, <2>2
<1>12. ASSUME NEW u \in Users, Stop(u)
      PROVE  QInv'
  BY <1>12 DEF Stop
<1>13. ASSUME NEW u \in Users, StopNotify(u)
      PROVE  QInv'
  BY <1>13 DEF StopNotify
<1>14. CASE UNCHANGED queueVars
  BY <1>14 DEF queueVars
<1> QED
  BY <1>1, <1>2, <1>3, <1>4, <1>5, <1>6, <1>7, <1>8, <1>9, <1>10, <1>11, <1>12, <1>13,
    <1>14
  DEF QueueNext, Call, CallStep

(* The container never holds more than capacity_, the mutex is held by     *)
(* exactly the thread in a critical section, and the room push has waited  *)
(* for is still there when it stores (queue.tpp 24-32): for any number of  *)
(* threads that push, pop and stop.                                        *)
THEOREM QueueSafety == QueueSpec => []QueueInv
<1>1. QInv => QueueInv
  BY DEF QInv, MutexInv, RoomInv, QueueInv, RoomWhenStoring
<1> QED
  BY <1>1, QInvInit, QInvStep, PTL DEF QueueSpec

-----------------------------------------------------------------------------
(* What one step does to the container and the flag: an element comes in   *)
(* at the end where there is room, the first one goes out, the flag is     *)
(* set, or neither changes.                                                *)
LEMMA StepEffect ==
  ASSUME QInv, [QueueNext]_queueVars
  PROVE  \/ \E u \in Users : PushStore(u) /\ val[u] \in Values /\ Len(queue) < Capacity
         \/ \E u \in Users : TryPopTake(u) /\ queue # <<>>
         \/ \E u \in Stoppers : Stop(u)
         \/ UNCHANGED <<queue, stopped>>
<1>1. ASSUME NEW u \in Users, PushStore(u)
      PROVE  val[u] \in Values /\ Len(queue) < Capacity
  BY <1>1 DEF PushStore, QInv, ValInv, RoomInv, PushPlaces
<1>2. ASSUME NEW u \in Users, TryPopTake(u), queue = <<>>
      PROVE  UNCHANGED <<queue, stopped>>
  BY <1>2 DEF TryPopTake
<1>3. ASSUME NEW u \in Users,
             \/ \E v \in Values : Push(u, v)
             \/ TakeMutex(u) \/ PushCheck(u) \/ PushGo(u) \/ Pop(u) \/ PopCheck(u)
             \/ Sleep(u) \/ TryPop(u) \/ TryPopCheck(u) \/ StopNotify(u)
      PROVE  UNCHANGED <<queue, stopped>>
  <2>1. CASE StopNotify(u)
    BY <2>1, Zenon DEF StopNotify
  <2>2. CASE ~StopNotify(u)
    BY <1>3, <2>2 DEF Push, TakeMutex, PushCheck, PushGo, Pop, PopCheck, Sleep, TryPop,
                      TryPopCheck
  <2> QED
    BY <2>1, <2>2
<1>4. CASE UNCHANGED queueVars
  BY <1>4 DEF queueVars
<1> QED
  BY <1>1, <1>2, <1>3, <1>4 DEF QueueNext, Call, CallStep

(* The queue is a bounded first-in first-out buffer: every step of every   *)
(* thread puts an element in at the end while there is room, takes the     *)
(* oldest one, sets the flag, or is invisible (queue.tpp 24-114).          *)
THEOREM QueueImplementsFifo == QueueSpec => ImplementsFifo
<1>1. QueueInit => Fifo!FifoInit
  BY DEF QueueInit, Fifo!FifoInit
<1>2. ASSUME QInv, [QueueNext]_queueVars
      PROVE  [Fifo!FifoNext]_(Fifo!fifoVars)
  <2>1. ASSUME NEW u \in Users, PushStore(u), val[u] \in Values, Len(queue) < Capacity
        PROVE  Fifo!Put(val[u])
    BY <2>1 DEF PushStore, Fifo!Put
  <2>2. ASSUME NEW u \in Users, TryPopTake(u), queue # <<>>
        PROVE  Fifo!Take
    BY <2>2 DEF TryPopTake, Fifo!Take
  <2>3. ASSUME NEW u \in Users, Stop(u)
        PROVE  Fifo!Switch(TRUE) \/ UNCHANGED Fifo!fifoVars
    BY <1>2, <2>3 DEF Stop, Fifo!Switch, Fifo!fifoVars, QInv, QueueTypeOK
  <2>4. Stoppers \subseteq Users
    BY QueueAssumption
  <2>5. CASE UNCHANGED <<queue, stopped>>
    BY <2>5 DEF Fifo!fifoVars
  <2> QED
    BY <1>2, StepEffect, <2>1, <2>2, <2>3, <2>4, <2>5 DEF Fifo!FifoNext
<1> QED
  BY <1>1, <1>2, QInvInit, QInvStep, PTL DEF QueueSpec, ImplementsFifo, Fifo!FifoSpec

-----------------------------------------------------------------------------
(* A queue with one thread that pops, which is how the Daemon uses it.     *)
LEMMA PopperInvStep ==
  ASSUME \A p, q \in Poppers : p = q,
         QInv, PopperInv, [QueueNext]_queueVars
  PROVE  PopperInv'
<1> USE QueueAssumption DEF QInv, QueueTypeOK, MutexInv, PopperInv, Places, Locked,
        PopPlaces, Goto
<1>1. ASSUME NEW u \in Users, NEW v \in Values, Push(u, v)
      PROVE  PopperInv'
  BY <1>1 DEF Push
<1>2. ASSUME NEW u \in Users, TakeMutex(u)
      PROVE  PopperInv'
  BY <1>2 DEF TakeMutex
<1>3. ASSUME NEW u \in Users, PushCheck(u)
      PROVE  PopperInv'
  BY <1>3 DEF PushCheck
<1>4. ASSUME NEW u \in Users, PushGo(u)
      PROVE  PopperInv'
  BY <1>4 DEF PushGo
<1>5. ASSUME NEW u \in Users, PushStore(u)
      PROVE  PopperInv'
  BY <1>5 DEF PushStore, NotifyOneAndLeave
<1>6. ASSUME NEW u \in Poppers, Pop(u)
      PROVE  PopperInv'
  BY <1>6 DEF Pop
<1>7. ASSUME NEW u \in Users, PopCheck(u)
      PROVE  PopperInv'
  BY <1>7 DEF PopCheck
<1>8. ASSUME NEW u \in Users, Sleep(u)
      PROVE  PopperInv'
  BY <1>8 DEF Sleep
<1>9. ASSUME NEW u \in Users, TryPop(u)
      PROVE  PopperInv'
  BY <1>9 DEF TryPop
<1>10. ASSUME NEW u \in Users, TryPopCheck(u)
      PROVE  PopperInv'
  BY <1>10 DEF TryPopCheck
<1>11. ASSUME NEW u \in Users, TryPopTake(u)
      PROVE  PopperInv'
  BY <1>11 DEF TryPopTake, NotifyOneAndLeave
<1>12. ASSUME NEW u \in Stoppers, Stop(u)
      PROVE  PopperInv'
  BY <1>12 DEF Stop
<1>13. ASSUME NEW u \in Users, StopNotify(u)
      PROVE  PopperInv'
  BY <1>13 DEF StopNotify
<1>14. CASE UNCHANGED queueVars
  BY <1>14 DEF queueVars
<1> QED
  BY <1>1, <1>2, <1>3, <1>4, <1>5, <1>6, <1>7, <1>8, <1>9, <1>10, <1>11, <1>12, <1>13,
    <1>14
  DEF QueueNext, Call, CallStep

(* tryPop takes an element only if there is one (queue.tpp 70): true of    *)
(* every run in which one thread pops, whoever pushes and whoever stops    *)
(* the queue between its two readings of the flag.                         *)
THEOREM OnePopperFindsElement ==
  ASSUME \A p, q \in Poppers : p = q
  PROVE  QueueSpec => []TryPopFindsElement
<1>1. QueueInit => PopperInv
  BY DEF QueueInit, PopperInv, PopPlaces
<1>2. QInv /\ PopperInv /\ [QueueNext]_queueVars => PopperInv'
  BY PopperInvStep
<1>3. PopperInv => TryPopFindsElement
  BY DEF PopperInv, TryPopFindsElement
<1> QED
  BY <1>1, <1>2, <1>3, QInvInit, QInvStep, PTL DEF QueueSpec

-----------------------------------------------------------------------------
(* No wakeup is lost: who sleeps, and who is on the way.                   *)

(* What a thread has seen before it sleeps holds until it does.            *)
LEMMA DozeInvStep ==
  ASSUME QInv, DozeInv, [QueueNext]_queueVars
  PROVE  DozeInv'
<1> USE QueueAssumption DEF QInv, QueueTypeOK, MutexInv, DozeInv, Places, Locked, Goto
<1>1. ASSUME NEW u \in Users, NEW v \in Values, Push(u, v)
      PROVE  DozeInv'
  BY <1>1 DEF Push
<1>2. ASSUME NEW u \in Users, TakeMutex(u)
      PROVE  DozeInv'
  BY <1>2 DEF TakeMutex
<1>3. ASSUME NEW u \in Users, PushCheck(u)
      PROVE  DozeInv'
  BY <1>3 DEF PushCheck
<1>4. ASSUME NEW u \in Users, PushGo(u)
      PROVE  DozeInv'
  BY <1>4 DEF PushGo
<1>5. ASSUME NEW u \in Users, PushStore(u)
      PROVE  DozeInv'
  BY <1>5 DEF PushStore, NotifyOneAndLeave
<1>6. ASSUME NEW u \in Users, Pop(u)
      PROVE  DozeInv'
  BY <1>6 DEF Pop
<1>7. ASSUME NEW u \in Users, PopCheck(u)
      PROVE  DozeInv'
  BY <1>7 DEF PopCheck
<1>8. ASSUME NEW u \in Users, Sleep(u)
      PROVE  DozeInv'
  BY <1>8 DEF Sleep
<1>9. ASSUME NEW u \in Users, TryPop(u)
      PROVE  DozeInv'
  BY <1>9 DEF TryPop
<1>10. ASSUME NEW u \in Users, TryPopCheck(u)
      PROVE  DozeInv'
  BY <1>10 DEF TryPopCheck
<1>11. ASSUME NEW u \in Users, TryPopTake(u)
      PROVE  DozeInv'
  BY <1>11 DEF TryPopTake, NotifyOneAndLeave
<1>12. ASSUME NEW u \in Users, Stop(u)
      PROVE  DozeInv'
  BY <1>12 DEF Stop
<1>13. ASSUME NEW u \in Users, StopNotify(u)
      PROVE  DozeInv'
  BY <1>13 DEF StopNotify
<1>14. CASE UNCHANGED queueVars
  BY <1>14 DEF queueVars
<1> QED
  BY <1>1, <1>2, <1>3, <1>4, <1>5, <1>6, <1>7, <1>8, <1>9, <1>10, <1>11, <1>12, <1>13,
    <1>14
  DEF QueueNext, Call, CallStep

(* notify_all of both condition variables.                                 *)
LEMMA StopNotifyWakes ==
  ASSUME NEW u \in Users, StopNotify(u), at \in [Users -> Places]
  PROVE  /\ UNCHANGED <<queue, stopped, mutex>>
         /\ at[u] = "stopNotify" /\ at'[u] = "out"
         /\ \A w \in Users \ {u} :
              \/ at[w] = "popAsleep" /\ at'[w] = "pop"
              \/ at[w] = "pushAsleep" /\ at'[w] = "push"
              \/ at[w] \notin {"popAsleep", "pushAsleep"} /\ at'[w] = at[w]
<1>0. UNCHANGED <<queue, stopped, mutex>> /\ at[u] = "stopNotify"
  BY Zenon DEF StopNotify
<1>1. at' = [w \in Users |->
               CASE w = u -> "out"
                 [] at[w] = "popAsleep" -> "pop"
                 [] at[w] = "pushAsleep" -> "push"
                 [] OTHER -> at[w]]
  BY Zenon DEF StopNotify
<1>2. at'[u] = "out"
  <2>1. at[u] # "popAsleep" /\ at[u] # "pushAsleep"
    BY <1>0
  <2> QED
    BY <1>1, <2>1, Zenon
<1>3. ASSUME NEW w \in Users, w # u
      PROVE  \/ at[w] = "popAsleep" /\ at'[w] = "pop"
             \/ at[w] = "pushAsleep" /\ at'[w] = "push"
             \/ at[w] \notin {"popAsleep", "pushAsleep"} /\ at'[w] = at[w]
  <2>1. CASE at[w] = "popAsleep"
    <3>1. at'[w] = "pop"
      BY <1>1, <1>3, <2>1, Zenon
    <3> QED
      BY <3>1, <2>1
  <2>2. CASE at[w] = "pushAsleep"
    <3>1. at'[w] = "push"
      BY <1>1, <1>3, <2>2, Zenon
    <3> QED
      BY <3>1, <2>2
  <2>3. CASE at[w] # "popAsleep" /\ at[w] # "pushAsleep"
    <3>1. at'[w] = at[w]
      BY <1>1, <1>3, <2>3, Zenon
    <3> QED
      BY <3>1, <2>3
  <2> QED
    BY <2>1, <2>2, <2>3
<1> QED
  BY <1>0, <1>2, <1>3

(* After stop at most one thread sleeps on, and for a good reason.         *)
LEMMA LastSleeperStep ==
  ASSUME QInv, DozeInv, LastSleeper, [QueueNext]_queueVars
  PROVE  LastSleeper'
<1> USE QueueAssumption DEF QInv, QueueTypeOK, MutexInv, DozeInv, LastSleeper, Resting,
        Places, Locked, Goto
<1>1. ASSUME NEW u \in Users, NEW v \in Values, Push(u, v)
      PROVE  LastSleeper'
  BY <1>1 DEF Push
<1>2. ASSUME NEW u \in Users, TakeMutex(u)
      PROVE  LastSleeper'
  BY <1>2 DEF TakeMutex
<1>3. ASSUME NEW u \in Users, PushCheck(u)
      PROVE  LastSleeper'
  BY <1>3 DEF PushCheck
<1>4. ASSUME NEW u \in Users, PushGo(u)
      PROVE  LastSleeper'
  BY <1>4 DEF PushGo
<1>5. ASSUME NEW u \in Users, PushStore(u)
      PROVE  LastSleeper'
  <2>1. /\ at[u] = "pushStore" /\ stopped' = stopped
        /\ queue' = Append(queue, val[u])
        /\ NotifyOneAndLeave(u, "popAsleep", "pop")
        /\ Len(queue) < Capacity
    BY <1>5 DEF PushStore, RoomInv
  <2>2. CASE \A w \in Users : at[w] # "popAsleep"
    <3>1. at' = [at EXCEPT ![u] = "out"]
      BY <2>1, <2>2 DEF NotifyOneAndLeave
    <3> QED
      BY <2>1, <2>2, <3>1
  <2>3. CASE \E w \in Users : at[w] = "popAsleep"
    <3>1. PICK w \in Users : /\ at[w] = "popAsleep"
                             /\ at' = [at EXCEPT ![w] = "pop", ![u] = "out"]
      BY <2>1, <2>3 DEF NotifyOneAndLeave
    <3> QED
      BY <2>1, <3>1
  <2> QED
    BY <2>2, <2>3
<1>6. ASSUME NEW u \in Users, Pop(u)
      PROVE  LastSleeper'
  BY <1>6 DEF Pop
<1>7. ASSUME NEW u \in Users, PopCheck(u)
      PROVE  LastSleeper'
  BY <1>7 DEF PopCheck
<1>8. ASSUME NEW u \in Users, Sleep(u)
      PROVE  LastSleeper'
  BY <1>8 DEF Sleep
<1>9. ASSUME NEW u \in Users, TryPop(u)
      PROVE  LastSleeper'
  BY <1>9 DEF TryPop
<1>10. ASSUME NEW u \in Users, TryPopCheck(u)
      PROVE  LastSleeper'
  BY <1>10 DEF TryPopCheck
<1>11. ASSUME NEW u \in Users, TryPopTake(u)
      PROVE  LastSleeper'
  BY <1>11 DEF TryPopTake, NotifyOneAndLeave
<1>12. ASSUME NEW u \in Users, Stop(u)
      PROVE  LastSleeper'
  BY <1>12 DEF Stop
<1>13. ASSUME NEW u \in Users, StopNotify(u)
      PROVE  LastSleeper'
  <2>1. \A w \in Users : at'[w] \in Resting => at[w] \in {"popDoze", "pushDoze"}
    BY <1>13, StopNotifyWakes
  <2>2. \A w \in Users : at'[w] \notin {"popAsleep", "pushAsleep"}
    BY <1>13, StopNotifyWakes
  <2> QED
    BY <2>1, <2>2
<1>14. CASE UNCHANGED queueVars
  BY <1>14 DEF queueVars
<1> QED
  BY <1>1, <1>2, <1>3, <1>4, <1>5, <1>6, <1>7, <1>8, <1>9, <1>10, <1>11, <1>12, <1>13,
    <1>14
  DEF QueueNext, Call, CallStep

(* A set of threads has a size.                                            *)
LEMMA ThreadCount ==
  ASSUME NEW S \in SUBSET Users
  PROVE  /\ IsFiniteSet(S) /\ Cardinality(S) \in Nat
         /\ Cardinality(S) = 0 <=> S = {}
<1>1. IsFiniteSet(S)
  BY QueueAssumption, FS_Subset
<1> QED
  BY <1>1, FS_CardinalityType, FS_EmptySet

(* Adding a thread to a set of threads ...                                 *)
LEMMA OneThreadMore ==
  ASSUME NEW S \in SUBSET Users, NEW x \in Users \ S
  PROVE  Cardinality(S \cup {x}) = Cardinality(S) + 1
BY ThreadCount, FS_AddElement

(* ... and taking one out.                                                 *)
LEMMA OneThreadLess ==
  ASSUME NEW S \in SUBSET Users, NEW x \in S
  PROVE  Cardinality(S \ {x}) = Cardinality(S) - 1
BY ThreadCount, FS_RemoveElement

(* What a step does to the threads on their way to an element, and to the  *)
(* ones on their way to room.                                              *)
LEMMA PopAwakeStep ==
  ASSUME QInv, DozeInv, PopAwake, [QueueNext]_queueVars
  PROVE  PopAwake'
<1> USE QueueAssumption DEF QInv, QueueTypeOK, MutexInv, Places, Locked, Goto
<1>0. PopBound \in SUBSET Users /\ PopBound' \in SUBSET Users
  BY DEF PopBound
<1>a. ASSUME UNCHANGED <<queue, stopped>>, PopBound' = PopBound,
             \A w \in Users : at'[w] = "popAsleep" => at[w] = "popAsleep"
      PROVE  PopAwake'
  BY <1>a DEF PopAwake
<1>b. ASSUME queue' = <<>>
      PROVE  PopAwake'
  <2>1. Cardinality(PopBound') \in Nat
    BY <1>0, ThreadCount
  <2>2. Len(queue') = 0
    BY <1>b
  <2> QED
    BY <2>1, <2>2 DEF PopAwake
<1>1. ASSUME NEW u \in Users, NEW v \in Values, Push(u, v)
      PROVE  PopAwake'
  BY <1>1, <1>a DEF Push, PopBound
<1>2. ASSUME NEW u \in Users, TakeMutex(u)
      PROVE  PopAwake'
  BY <1>2, <1>a DEF TakeMutex, PopBound
<1>3. ASSUME NEW u \in Users, PushCheck(u)
      PROVE  PopAwake'
  BY <1>3, <1>a DEF PushCheck, PopBound
<1>4. ASSUME NEW u \in Users, PushGo(u)
      PROVE  PopAwake'
  BY <1>4, <1>a DEF PushGo, PopBound
<1>5. ASSUME NEW u \in Users, PushStore(u)
      PROVE  PopAwake'
  <2>1. /\ at[u] = "pushStore" /\ stopped' = stopped
        /\ Len(queue') = Len(queue) + 1 /\ Len(queue) \in Nat
        /\ NotifyOneAndLeave(u, "popAsleep", "pop")
    <3>1. val[u] \in Values
      BY <1>5 DEF PushStore, ValInv, PushPlaces
    <3> QED
      BY <1>5, <3>1 DEF PushStore
  <2>2. CASE \A w \in Users : at[w] # "popAsleep"
    BY <2>1, <2>2 DEF NotifyOneAndLeave, PopAwake
  <2>3. CASE \E w \in Users : at[w] = "popAsleep"
    <3>1. PICK w \in Users : /\ at[w] = "popAsleep"
                             /\ at' = [at EXCEPT ![w] = "pop", ![u] = "out"]
      BY <2>1, <2>3 DEF NotifyOneAndLeave
    <3>2. PopBound' = PopBound \cup {w} /\ w \notin PopBound
      BY <2>1, <3>1 DEF PopBound
    <3>3. Cardinality(PopBound') = Cardinality(PopBound) + 1 /\ Cardinality(PopBound) \in Nat
      BY <1>0, <3>2, ThreadCount, OneThreadMore
    <3> QED
      BY <2>1, <3>1, <3>3 DEF PopAwake
  <2> QED
    BY <2>2, <2>3
<1>6. ASSUME NEW u \in Users, Pop(u)
      PROVE  PopAwake'
  <2>1. PopBound' = PopBound \cup {u} /\ u \notin PopBound
    BY <1>6 DEF Pop, PopBound
  <2>2. Cardinality(PopBound') = Cardinality(PopBound) + 1 /\ Cardinality(PopBound) \in Nat
    BY <1>0, <2>1, ThreadCount, OneThreadMore
  <2>3. /\ UNCHANGED <<queue, stopped>>
        /\ \A w \in Users : at'[w] = "popAsleep" => at[w] = "popAsleep"
    BY <1>6 DEF Pop
  <2> QED
    BY <2>2, <2>3 DEF PopAwake
<1>7. ASSUME NEW u \in Users, PopCheck(u)
      PROVE  PopAwake'
  <2>1. CASE queue = <<>>
    BY <1>7, <2>1, <1>b DEF PopCheck
  <2>2. CASE queue # <<>>
    BY <1>7, <2>2, <1>a DEF PopCheck, PopBound
  <2> QED
    BY <2>1, <2>2
<1>8. ASSUME NEW u \in Users, Sleep(u)
      PROVE  PopAwake'
  <2>1. CASE at[u] = "popDoze"
    BY <1>8, <2>1, <1>b DEF Sleep, DozeInv
  <2>2. CASE at[u] # "popDoze"
    BY <1>8, <2>2, <1>a DEF Sleep, PopBound
  <2> QED
    BY <2>1, <2>2
<1>9. ASSUME NEW u \in Users, TryPop(u)
      PROVE  PopAwake'
  <2>1. CASE stopped
    BY <1>9, <2>1 DEF TryPop, PopAwake
  <2>2. CASE ~stopped
    BY <1>9, <2>2, <1>a DEF TryPop, PopBound
  <2> QED
    BY <2>1, <2>2
<1>10. ASSUME NEW u \in Users, TryPopCheck(u)
      PROVE  PopAwake'
  <2>1. CASE queue = <<>>
    BY <1>10, <2>1, <1>b DEF TryPopCheck
  <2>2. CASE queue # <<>>
    BY <1>10, <2>2, <1>a DEF TryPopCheck, PopBound
  <2> QED
    BY <2>1, <2>2
<1>11. ASSUME NEW u \in Users, TryPopTake(u)
      PROVE  PopAwake'
  <2>1. CASE queue = <<>>
    BY <1>11, <2>1, <1>b DEF TryPopTake
  <2>2. CASE queue # <<>>
    <3>1. /\ at[u] = "take" /\ stopped' = stopped
          /\ Len(queue') = Len(queue) - 1 /\ Len(queue) \in Nat
          /\ NotifyOneAndLeave(u, "pushAsleep", "push")
      BY <1>11, <2>2 DEF TryPopTake
    <3>2. /\ PopBound' = PopBound \ {u} /\ u \in PopBound
          /\ \A w \in Users : at'[w] = "popAsleep" => at[w] = "popAsleep"
      BY <3>1 DEF NotifyOneAndLeave, PopBound
    <3>3. Cardinality(PopBound') = Cardinality(PopBound) - 1 /\ Cardinality(PopBound) \in Nat
      BY <1>0, <3>2, ThreadCount, OneThreadLess
    <3> QED
      BY <3>1, <3>2, <3>3 DEF PopAwake
  <2> QED
    BY <2>1, <2>2
<1>12. ASSUME NEW u \in Users, Stop(u)
      PROVE  PopAwake'
  BY <1>12 DEF Stop, PopAwake
<1>13. ASSUME NEW u \in Users, StopNotify(u)
      PROVE  PopAwake'
  BY <1>13, StopNotifyWakes DEF PopAwake
<1>14. CASE UNCHANGED queueVars
  BY <1>14, <1>a DEF queueVars, PopBound
<1> QED
  BY <1>1, <1>2, <1>3, <1>4, <1>5, <1>6, <1>7, <1>8, <1>9, <1>10, <1>11, <1>12, <1>13, <1>14
  DEF QueueNext, Call, CallStep

(* The same for room.                                                      *)
LEMMA PushAwakeStep ==
  ASSUME QInv, DozeInv, PushAwake, [QueueNext]_queueVars
  PROVE  PushAwake'
<1> USE QueueAssumption DEF QInv, QueueTypeOK, MutexInv, Places, Locked, Goto
<1>0. PushBound \in SUBSET Users /\ PushBound' \in SUBSET Users
  BY DEF PushBound
<1>a. ASSUME UNCHANGED <<queue, stopped>>, PushBound' = PushBound,
             \A w \in Users : at'[w] = "pushAsleep" => at[w] = "pushAsleep"
      PROVE  PushAwake'
  BY <1>a DEF PushAwake
<1>b. ASSUME Len(queue') = Capacity
      PROVE  PushAwake'
  <2>1. Cardinality(PushBound') \in Nat
    BY <1>0, ThreadCount
  <2> QED
    BY <1>b, <2>1 DEF PushAwake
<1>1. ASSUME NEW u \in Users, NEW v \in Values, Push(u, v)
      PROVE  PushAwake'
  <2>1. PushBound' = PushBound \cup {u} /\ u \notin PushBound
    BY <1>1 DEF Push, PushBound
  <2>2. Cardinality(PushBound') = Cardinality(PushBound) + 1 /\ Cardinality(PushBound) \in Nat
    BY <1>0, <2>1, ThreadCount, OneThreadMore
  <2>3. /\ UNCHANGED <<queue, stopped>> /\ Len(queue) \in Nat
        /\ \A w \in Users : at'[w] = "pushAsleep" => at[w] = "pushAsleep"
    BY <1>1 DEF Push
  <2> QED
    BY <2>2, <2>3 DEF PushAwake
<1>2. ASSUME NEW u \in Users, TakeMutex(u)
      PROVE  PushAwake'
  BY <1>2, <1>a DEF TakeMutex, PushBound
<1>3. ASSUME NEW u \in Users, PushCheck(u)
      PROVE  PushAwake'
  <2>1. CASE Len(queue) < Capacity \/ stopped
    BY <1>3, <2>1, <1>a DEF PushCheck, PushBound
  <2>2. CASE ~(Len(queue) < Capacity \/ stopped)
    BY <1>3, <2>2, <1>b DEF PushCheck
  <2> QED
    BY <2>1, <2>2
<1>4. ASSUME NEW u \in Users, PushGo(u)
      PROVE  PushAwake'
  <2>1. CASE stopped
    BY <1>4, <2>1 DEF PushGo, PushAwake
  <2>2. CASE ~stopped
    BY <1>4, <2>2, <1>a DEF PushGo, PushBound
  <2> QED
    BY <2>1, <2>2
<1>5. ASSUME NEW u \in Users, PushStore(u)
      PROVE  PushAwake'
  <2>1. /\ at[u] = "pushStore" /\ stopped' = stopped
        /\ Len(queue') = Len(queue) + 1 /\ Len(queue) \in Nat
        /\ NotifyOneAndLeave(u, "popAsleep", "pop")
    <3>1. val[u] \in Values
      BY <1>5 DEF PushStore, ValInv, PushPlaces
    <3> QED
      BY <1>5, <3>1 DEF PushStore
  <2>2. /\ PushBound' = PushBound \ {u} /\ u \in PushBound
        /\ \A w \in Users : at'[w] = "pushAsleep" => at[w] = "pushAsleep"
    BY <2>1 DEF NotifyOneAndLeave, PushBound
  <2>3. Cardinality(PushBound') = Cardinality(PushBound) - 1 /\ Cardinality(PushBound) \in Nat
    BY <1>0, <2>2, ThreadCount, OneThreadLess
  <2> QED
    BY <2>1, <2>2, <2>3 DEF PushAwake
<1>6. ASSUME NEW u \in Users, Pop(u)
      PROVE  PushAwake'
  BY <1>6, <1>a DEF Pop, PushBound
<1>7. ASSUME NEW u \in Users, PopCheck(u)
      PROVE  PushAwake'
  BY <1>7, <1>a DEF PopCheck, PushBound
<1>8. ASSUME NEW u \in Users, Sleep(u)
      PROVE  PushAwake'
  <2>1. CASE at[u] = "pushDoze"
    BY <1>8, <2>1, <1>b DEF Sleep, DozeInv
  <2>2. CASE at[u] # "pushDoze"
    BY <1>8, <2>2, <1>a DEF Sleep, PushBound
  <2> QED
    BY <2>1, <2>2
<1>9. ASSUME NEW u \in Users, TryPop(u)
      PROVE  PushAwake'
  BY <1>9, <1>a DEF TryPop, PushBound
<1>10. ASSUME NEW u \in Users, TryPopCheck(u)
      PROVE  PushAwake'
  BY <1>10, <1>a DEF TryPopCheck, PushBound
<1>11. ASSUME NEW u \in Users, TryPopTake(u)
      PROVE  PushAwake'
  <2>1. CASE queue = <<>>
    BY <1>11, <2>1, <1>a DEF TryPopTake, PushBound
  <2>2. CASE queue # <<>>
    <3>1. /\ at[u] = "take" /\ stopped' = stopped
          /\ Len(queue') = Len(queue) - 1 /\ Len(queue) \in Nat /\ Len(queue') \in Nat
          /\ NotifyOneAndLeave(u, "pushAsleep", "push")
      BY <1>11, <2>2 DEF TryPopTake
    <3>2. CASE \A w \in Users : at[w] # "pushAsleep"
      BY <3>1, <3>2 DEF NotifyOneAndLeave, PushAwake
    <3>3. CASE \E w \in Users : at[w] = "pushAsleep"
      <4>1. PICK w \in Users : /\ at[w] = "pushAsleep"
                               /\ at' = [at EXCEPT ![w] = "push", ![u] = "out"]
        BY <3>1, <3>3 DEF NotifyOneAndLeave
      <4>2. PushBound' = PushBound \cup {w} /\ w \notin PushBound
        BY <3>1, <4>1 DEF PushBound
      <4>3. Cardinality(PushBound') = Cardinality(PushBound) + 1 /\ Cardinality(PushBound) \in Nat
        BY <1>0, <4>2, ThreadCount, OneThreadMore
      <4> QED
        BY <3>1, <4>1, <4>3 DEF PushAwake
    <3> QED
      BY <3>2, <3>3
  <2> QED
    BY <2>1, <2>2
<1>12. ASSUME NEW u \in Users, Stop(u)
      PROVE  PushAwake'
  BY <1>12 DEF Stop, PushAwake
<1>13. ASSUME NEW u \in Users, StopNotify(u)
      PROVE  PushAwake'
  BY <1>13, StopNotifyWakes DEF PushAwake
<1>14. CASE UNCHANGED queueVars
  BY <1>14, <1>a DEF queueVars, PushBound
<1> QED
  BY <1>1, <1>2, <1>3, <1>4, <1>5, <1>6, <1>7, <1>8, <1>9, <1>10, <1>11, <1>12, <1>13, <1>14
  DEF QueueNext, Call, CallStep

(* Nobody sleeps on a condition that has come true with no one on the way  *)
(* (notify_one of queue.tpp 31 and 80): for any number of threads that     *)
(* push, pop and stop, a thread asleep in pop while there are elements, or *)
(* in push while there is room, is not the last one to hear of it.         *)
THEOREM NoLostWakeup == QueueSpec => []NoForgottenSleeper
<1>1. QueueInit => WakeInv
  BY DEF QueueInit, WakeInv, DozeInv, PopAwake, PushAwake, LastSleeper
<1>2. QInv /\ WakeInv /\ [QueueNext]_queueVars => WakeInv'
  BY DozeInvStep, PopAwakeStep, PushAwakeStep, LastSleeperStep DEF WakeInv
<1>3. QInv /\ WakeInv => NoForgottenSleeper
  <2> SUFFICES ASSUME QInv, WakeInv PROVE NoForgottenSleeper
    OBVIOUS
  <2>0. /\ Len(queue) \in Nat /\ (queue # <<>> => Len(queue) # 0)
        /\ Capacity \in Nat /\ at \in [Users -> Places]
    BY QueueAssumption DEF QInv, QueueTypeOK
  <2>1. ASSUME NEW u \in Users, at[u] = "popAsleep", queue # <<>>
        PROVE  PopBound # {} \/ \E w \in Users : at[w] = "stopNotify"
    <3>1. CASE stopped
      BY <2>1, <3>1 DEF WakeInv, LastSleeper
    <3>2. CASE ~stopped
      <4>1. Len(queue) <= Cardinality(PopBound)
        BY <2>1, <3>2 DEF WakeInv, PopAwake
      <4>2. PopBound \in SUBSET Users
        BY DEF PopBound
      <4> QED
        BY <2>0, <2>1, <4>1, <4>2, ThreadCount
    <3> QED
      BY <3>1, <3>2
  <2>2. ASSUME NEW u \in Users, at[u] = "pushAsleep", Len(queue) < Capacity
        PROVE  PushBound # {} \/ \E w \in Users : at[w] = "stopNotify"
    <3>1. CASE stopped
      BY <2>0, <2>2, <3>1 DEF WakeInv, LastSleeper
    <3>2. CASE ~stopped
      <4>1. Capacity <= Len(queue) + Cardinality(PushBound)
        BY <2>2, <3>2 DEF WakeInv, PushAwake
      <4>2. PushBound \in SUBSET Users
        BY DEF PushBound
      <4> QED
        BY <2>0, <2>2, <4>1, <4>2, ThreadCount
    <3> QED
      BY <3>1, <3>2
  <2> QED
    BY <2>1, <2>2 DEF NoForgottenSleeper, PopBound, PushBound
<1> QED
  BY <1>1, <1>2, <1>3, QInvInit, QInvStep, PTL DEF QueueSpec
=============================================================================
