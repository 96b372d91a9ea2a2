------------------------- MODULE ControlPlaneProofs -------------------------
(* Theorems about ControlPlane, for any files, subscribers and clients and *)
(* any number of edits.                                                    *)
EXTENDS ControlPlane, FiniteSetTheorems, TLAPS

BeforeWatch == {"attach", "debug", "starting"}
Ending == {"stopDebug", "unwatch", "ending", "exit"}
Attaching == job[Main].pc \in {"attached", "attachUpdate"}

-----------------------------------------------------------------------------
(* The parts of the inductive invariant.                                   *)

(* Where the two threads can be.                                           *)
ThreadInv ==
  /\ job = [t \in Threads |-> job[t]]
  /\ \A t \in Threads :
       job[t].pc \in {"notify", "update"} => DOMAIN job[t] = {"pc", "active", "cfg", "ver"}
  /\ mainAt \in BeforeWatch => job[Main] = Idle /\ ~configPath
  /\ mainAt \notin BeforeWatch \cup {"failed"} => configPath
  /\ mainAt # "loading" => job[Main].pc \in {"idle", "attached", "attachUpdate"}
  /\ Attaching => mainAt = "run"
  /\ job[Io].pc \notin {"attached", "attachUpdate"}
  /\ subMutex = IF Attaching THEN Main ELSE Nobody

(* The debug server: who is in start ...                                   *)
StartInv ==
  /\ starting = [t \in Threads |-> starting[t]]
  /\ \A t \in Threads : "pc" \in DOMAIN starting[t]
  /\ \A t \in Threads :
       starting[t].pc \in {"replace", "listen", "accept"} =>
         \/ t = Main /\ mainAt = "starting"
         \/ job[t].pc = "update" /\ Head(job[t].active) = DebugSub

(* ... and who accepts.                                                    *)
AcceptInv ==
  /\ accepts \in Nat /\ handlers \in Seq(Clients \cup {Error})
  /\ listening # NoAddress /\ ~acceptFailed =>
       \/ accepts > 0
       \/ \E k \in 1..Len(handlers) : handlers[k] # Error
       \/ \E t \in Threads : starting[t].pc = "accept"

-----------------------------------------------------------------------------
(* The parts that need a file which is not edited before main() is in its  *)
(* loop.  Until then the io thread has nothing to do, and of the two       *)
(* threads one at most is in loadConfig.                                   *)
CalmInv ==
  mainAt \in BeforeWatch \cup {"loading"} => job[Io] = Idle /\ events = 0 /\ ~writing

(* The lists of subscribers and the copies of them; detach, at the end, is *)
(* not looked into.  A subscriber that comes late is in no copy until it   *)
(* has been called.                                                        *)
Leads(a) ==
  /\ a \in Seq(Subscribers)
  /\ \A k \in 1..Len(a) : a[k] \notin toCome /\ (Attaching => a[k] # job[Main].sub)

ListInv ==
  /\ toCome \subseteq LateSubs
  /\ mainAt \notin Ending =>
       /\ subscribers \in Seq(Subscribers)
       /\ \A k \in 1..Len(subscribers) : subscribers[k] \notin toCome
       /\ Attaching => job[Main].sub \in Subscribers \ toCome
       /\ \A t \in Threads :
            /\ job[t].pc \in {"current", "notify", "update"} => Leads(job[t].active)
            /\ job[t].pc \in {"notify", "update"} => job[t].active # <<>>

(* What notify delivers is the version of now; a subscriber that comes     *)
(* late has not been called with any.                                      *)
VersionInv ==
  /\ version \in Nat
  /\ seen = [s \in Subscribers |-> seen[s]]
  /\ \A s \in Subscribers : seen[s].ver \in 0..version
  /\ job[Main].pc = "attachUpdate" => job[Main].ver \in 0..version
  /\ \A t \in Threads : job[t].pc \in {"notify", "update"} => job[t].ver = version
  /\ mainAt \notin Ending =>
       /\ \A s \in toCome : seen[s].ver = 0
       /\ Attaching => seen[job[Main].sub].ver = 0

(* A change of the file is in last_config_, or on its way there: with no   *)
(* event left, what a thread has read of the file is what the file says.   *)
FileInv ==
  mainAt \in {"loading", "run"} =>
    /\ watched /\ events \in Nat
    /\ file # Malformed /\ ~writing /\ events = 0 =>
         /\ \A t \in Threads : job[t].pc = "compare" => job[t].cfg = LoadFromConfig(file)
         /\ \/ lastConfig = LoadFromConfig(file)
            \/ \E t \in Threads : job[t].pc \in {"load", "compare"}

(* Who has the configuration, up to the first subscriber that may throw.   *)
Clean(k) == \A j \in 1..(k - 1) : subscribers[j] \notin Throwing
Has(k) == seen[subscribers[k]].cfg = lastConfig \/ (Attaching /\ job[Main].sub = subscribers[k])

(* The part of the list that a thread has in front of it: the subscribers  *)
(* m + 1, m + 2 and so on.                                                 *)
Rest(t, m) ==
  /\ m + Len(job[t].active) <= Len(subscribers)
  /\ \A i \in 1..Len(job[t].active) : job[t].active[i] = subscribers[m + i]
  /\ \A k \in 1..Len(subscribers) :
       Clean(k) => Has(k) \/ k \in (m + 1)..(m + Len(job[t].active))

DeliveryInv ==
  /\ mainAt \in BeforeWatch => \A s \in Subscribers : seen[s].cfg = lastConfig
  /\ job[Main].pc = "attachUpdate" => job[Main].cfg = lastConfig \/ job[Io].pc = "copy"
  /\ mainAt \in {"loading", "run"} =>
       /\ \A t \in Threads :
            /\ job[t].pc \in {"current", "notify", "update"} =>
                 \E m \in 0..Len(subscribers) : Rest(t, m)
            /\ job[t].pc \in {"notify", "update"} => job[t].cfg = lastConfig
            /\ job[t].pc = "update" => seen[Head(job[t].active)].cfg = lastConfig
       /\ \/ \E t \in Threads : job[t].pc \in {"copy", "current", "notify", "update"}
          \/ \A k \in 1..Len(subscribers) : Clean(k) => Has(k)


-----------------------------------------------------------------------------
(* The step that the two thread variables take, point by point.            *)

(* Go moves one thread and leaves the other where it is.                   *)
LEMMA GoFacts ==
  ASSUME NEW t \in Threads, NEW j, job = [u \in Threads |-> job[u]], Go(t, j)
  PROVE  /\ job' = [u \in Threads |-> job'[u]]
         /\ job'[t] = j
         /\ \A u \in Threads : u # t => job'[u] = job[u]
BY DEF Go

(* A call of update is entered with the list, configuration and version of *)
(* notify (config_watcher.cc 77-81).                                       *)
LEMMA CallFields ==
  ASSUME NEW j, DOMAIN j = {"pc", "active", "cfg", "ver"},
         NEW c, c = [j EXCEPT !.pc = "update"]
  PROVE  /\ DOMAIN c = {"pc", "active", "cfg", "ver"}
         /\ c.pc = "update" /\ c.active = j.active /\ c.cfg = j.cfg /\ c.ver = j.ver
BY Zenon

(* It leaves with the rest of the list.                                    *)
LEMMA ReturnFields ==
  ASSUME NEW j, DOMAIN j = {"pc", "active", "cfg", "ver"},
         NEW c, c = [j EXCEPT !.pc = "notify", !.active = Tail(@)]
  PROVE  /\ DOMAIN c = {"pc", "active", "cfg", "ver"}
         /\ c.pc = "notify" /\ c.active = Tail(j.active) /\ c.cfg = j.cfg /\ c.ver = j.ver
BY Zenon

(* One thread is in another place of start, the other where it was.        *)
LEMMA StartFacts ==
  ASSUME NEW t \in Threads, NEW place, starting = [u \in Threads |-> starting[u]],
         \A u \in Threads : "pc" \in DOMAIN starting[u], StartGo(t, place)
  PROVE  /\ starting' = [u \in Threads |-> starting'[u]]
         /\ \A u \in Threads : "pc" \in DOMAIN starting'[u]
         /\ starting'[t].pc = place
         /\ \A u \in Threads : u # t => starting'[u] = starting[u]
<1>1. starting' = [u \in Threads |-> starting'[u]]
  BY DEF StartGo
<1>2. starting'[t] = [starting[t] EXCEPT !.pc = place]
  BY Zenon DEF StartGo
<1>3. \A u \in Threads : u # t => starting'[u] = starting[u]
  BY Zenon DEF StartGo
<1>4. starting'[t].pc = place /\ "pc" \in DOMAIN starting'[t]
  BY <1>2, Zenon
<1> QED BY <1>1, <1>3, <1>4

(* A thread that is not in start.                                          *)
LEMMA NotStartingPc == NotStarting.pc = "no" /\ "pc" \in DOMAIN NotStarting
BY DEF NotStarting

(* The list that is left when the first subscriber has been called.        *)
LEMMA TailFacts ==
  ASSUME NEW S, NEW a \in Seq(S), a # <<>>
  PROVE  /\ Len(a) \in Nat /\ Len(a) >= 1 /\ Head(a) = a[1]
         /\ Tail(a) \in Seq(S) /\ Len(Tail(a)) = Len(a) - 1
         /\ \A i \in 1..Len(Tail(a)) : i + 1 \in 1..Len(a) /\ Tail(a)[i] = a[i + 1]
         /\ Tail(a) = <<>> => Len(a) = 1
<1>1. /\ Len(a) \in Nat /\ Len(a) >= 1 /\ Head(a) = a[1]
      /\ Tail(a) \in Seq(S) /\ Len(Tail(a)) = Len(a) - 1
      /\ \A i \in 1..Len(Tail(a)) : i + 1 \in 1..Len(a) /\ Tail(a)[i] = a[i + 1]
  OBVIOUS
<1>2. Len(<<>>) = 0
  OBVIOUS
<1>3. PICK rest : rest = Tail(a)
  OBVIOUS
<1>4. rest = <<>> => Len(rest) = 0
  BY <1>2, Zenon
<1>5. Len(rest) = Len(a) - 1
  BY <1>1, <1>3, Zenon
<1>6. PICK n \in Nat : n = Len(a)
  BY <1>1
<1>7. Len(rest) = n - 1
  BY <1>5, <1>6, Zenon
<1>8. Len(rest) = 0 => n = 1
  BY <1>7
<1> QED BY <1>1, <1>3, <1>4, <1>6, <1>8, Zenon

(* One position less is left.                                              *)
LEMMA NextPosition ==
  ASSUME NEW m \in Nat, NEW n \in Nat, NEW k \in (m + 1)..(m + n), k # m + 1
  PROVE  k \in ((m + 1) + 1)..((m + 1) + (n - 1))
OBVIOUS

(* The first of what is left goes to the part before.                      *)
LEMMA NextFits ==
  ASSUME NEW m \in Nat, NEW n \in Nat, NEW len \in Nat, NEW next \in Int,
         m + n <= len, next = n - 1
  PROVE  (m + 1) + next <= len
OBVIOUS

(* The accepts an acceptor takes with it end in as many error handlers.    *)
LEMMA ErrorsSeq ==
  ASSUME NEW n \in Nat
  PROVE  [k \in 1..n |-> Error] \in Seq(Clients \cup {Error})
OBVIOUS

(* The list in front of a thread stays what it is while nobody touches it  *)
(* and nobody loses the configuration.                                     *)
LEMMA RestKept ==
  ASSUME NEW t, NEW m, Rest(t, m), job'[t].active = job[t].active, subscribers' = subscribers,
         \A k \in 1..Len(subscribers) : Has(k) => Has(k)'
  PROVE  Rest(t, m)'
BY DEF Rest, Clean

(* A step that changes neither the lists nor what was delivered.           *)
LEMMA DeliveryKept ==
  ASSUME DeliveryInv, UNCHANGED <<job, subscribers, seen, lastConfig>>,
         mainAt' = mainAt \/ mainAt' \notin BeforeWatch \cup {"loading", "run"}
           \/ (mainAt \in BeforeWatch /\ mainAt' \in BeforeWatch)
           \/ (mainAt = "loading" /\ mainAt' = "run")
  PROVE  DeliveryInv'
<1>1. ASSUME NEW t, NEW m, Rest(t, m) PROVE Rest(t, m)'
  BY <1>1, RestKept DEF Has, Attaching
<1>2. \A k \in 1..Len(subscribers) : (Clean(k) => Has(k)) => (Clean(k) => Has(k))'
  BY DEF Clean, Has, Attaching
<1> HIDE DEF Rest, Clean, Has
<1> QED BY <1>1, <1>2 DEF DeliveryInv, BeforeWatch


(* main() attaches a subscriber before the watch: nobody is called.        *)
LEMMA MainAttachBase ==
  ASSUME ThreadInv, StartInv, AcceptInv,
         MainAttach
  PROVE  ThreadInv' /\ StartInv' /\ AcceptInv'
<1>1. ThreadInv'
  BY WatcherAssumption DEF ThreadInv, MainAttach, Attach, At, Go, BeforeWatch,
     Attaching, watcherVars
<1>2. StartInv'
  BY WatcherAssumption, ControlAssumption DEF ThreadInv, StartInv, MainAttach,
     Attach, At, Go, watcherVars, debugVars
<1>3. AcceptInv'
  BY WatcherAssumption, ControlAssumption DEF AcceptInv, MainAttach, Attach,
     At, Go, watcherVars, debugVars
<1> QED BY <1>1, <1>2, <1>3

(* The daemon joins the debug server.                                      *)
LEMMA MainDebugAttachBase ==
  ASSUME ThreadInv, StartInv, AcceptInv,
         MainDebugAttach
  PROVE  ThreadInv' /\ StartInv' /\ AcceptInv'
<1>1. ThreadInv'
  BY WatcherAssumption DEF ThreadInv, MainDebugAttach, DebugAttach,
     BeforeWatch, Attaching, watcherVars
<1>2. StartInv'
  BY WatcherAssumption, ControlAssumption DEF ThreadInv, StartInv,
     MainDebugAttach, DebugAttach, watcherVars
<1>3. AcceptInv'
  BY WatcherAssumption, ControlAssumption DEF AcceptInv, MainDebugAttach,
     DebugAttach, watcherVars
<1> QED BY <1>1, <1>2, <1>3

(* main() enters start, in which nobody has been before.                   *)
LEMMA MainDebugStartBase ==
  ASSUME ThreadInv, StartInv, AcceptInv,
         MainDebugStart
  PROVE  ThreadInv' /\ StartInv' /\ AcceptInv'
<1>1. ThreadInv'
  BY WatcherAssumption DEF ThreadInv, MainDebugStart, BeforeWatch, Attaching,
     watcherVars
<1>2. StartInv'
  BY WatcherAssumption, ControlAssumption DEF ThreadInv, StartInv,
     MainDebugStart, Ending, watcherVars, fileVars, NotStarting
<1>3. AcceptInv'
  <2>1. starting[Main].pc # "accept"
    BY DEF ThreadInv, StartInv, MainDebugStart, Threads
  <2>2. \A t \in Threads : t # Main => starting'[t] = starting[t]
    BY Zenon DEF StartInv, MainDebugStart
  <2> QED BY <2>1, <2>2 DEF AcceptInv, MainDebugStart
<1> QED BY <1>1, <1>2, <1>3

(* start throws and main() ends.                                           *)
LEMMA MainDebugThrowsBase ==
  ASSUME ThreadInv, StartInv, AcceptInv,
         MainDebugThrows
  PROVE  ThreadInv' /\ StartInv' /\ AcceptInv'
<1>1. ThreadInv'
  BY WatcherAssumption DEF ThreadInv, MainDebugThrows, DebugListenThrows,
     StartAt, BeforeWatch, Attaching, watcherVars
<1>2. StartInv'
  BY WatcherAssumption, ControlAssumption DEF ThreadInv, StartInv,
     MainDebugThrows, DebugListenThrows, StartAt, Ending, watcherVars,
     fileVars, NotStarting
<1>3. AcceptInv'
  BY WatcherAssumption, ControlAssumption DEF AcceptInv, MainDebugThrows,
     DebugListenThrows, StartAt, watcherVars
<1> QED BY <1>1, <1>2, <1>3

(* The watch: main() leaves start and loads the file.                      *)
LEMMA MainWatchBase ==
  ASSUME ThreadInv, StartInv, AcceptInv, NEW ok \in BOOLEAN,
         MainWatch(ok)
  PROVE  ThreadInv' /\ StartInv' /\ AcceptInv'
<1>1. ThreadInv'
  BY WatcherAssumption DEF ThreadInv, MainWatch, StartWatching, At, Go,
     BeforeWatch, Attaching, watcherVars, Threads
<1>2. StartInv'
  <2>1. starting[Main].pc = "no"
    BY NotStartingPc DEF MainWatch
  <2>2. job[Main].pc = "idle" /\ job'[Io] = job[Io] /\ starting' = starting
    BY WatcherAssumption DEF MainWatch, StartWatching, At, Go, ThreadInv,
       Threads, debugVars
  <2> QED BY <2>1, <2>2 DEF StartInv, Threads
<1>3. AcceptInv'
  BY WatcherAssumption, ControlAssumption DEF AcceptInv, MainWatch,
     StartWatching, At, Go, watcherVars, debugVars
<1> QED BY <1>1, <1>2, <1>3

(* main() enters its loop with loadConfig behind it.                       *)
LEMMA MainRunBase ==
  ASSUME ThreadInv, StartInv, AcceptInv,
         MainRun
  PROVE  ThreadInv' /\ StartInv' /\ AcceptInv'
<1>1. ThreadInv'
  BY WatcherAssumption DEF ThreadInv, MainRun, At, BeforeWatch, Attaching,
     watcherVars
<1>2. StartInv'
  BY WatcherAssumption, ControlAssumption DEF ThreadInv, StartInv, MainRun,
     At, watcherVars, debugVars
<1>3. AcceptInv'
  BY WatcherAssumption, ControlAssumption DEF AcceptInv, MainRun, At,
     watcherVars, debugVars
<1> QED BY <1>1, <1>2, <1>3

(* A late subscriber joins the list; no copy of it has him yet.            *)
LEMMA LateAttachBase ==
  ASSUME ThreadInv, StartInv, AcceptInv, NEW s \in LateSubs,
         LateAttach(s)
  PROVE  ThreadInv' /\ StartInv' /\ AcceptInv'
<1>1. ThreadInv'
  <2>1. /\ mainAt = "run" /\ configPath /\ job[Main].pc = "idle"
        /\ Go(Main, [pc |-> "attached", sub |-> s]) /\ subMutex' = Main
        /\ UNCHANGED <<mainAt, configPath>>
    BY DEF ThreadInv, LateAttach, Attach, At, BeforeWatch, watcherVars
  <2>2. /\ job' = [u \in Threads |-> job'[u]]
        /\ job'[Main] = [pc |-> "attached", sub |-> s] /\ job'[Io] = job[Io]
    BY <2>1, GoFacts, WatcherAssumption DEF ThreadInv, Threads
  <2> QED BY <2>1, <2>2 DEF ThreadInv, BeforeWatch, Attaching, Threads
<1>2. StartInv'
  BY WatcherAssumption, ControlAssumption DEF ThreadInv, StartInv, LateAttach,
     Attach, At, Go, watcherVars, debugVars
<1>3. AcceptInv'
  BY WatcherAssumption, ControlAssumption DEF AcceptInv, LateAttach, Attach,
     At, Go, watcherVars, debugVars
<1> QED BY <1>1, <1>2, <1>3

(* A subscriber leaves at the end.                                         *)
LEMMA LateDetachBase ==
  ASSUME ThreadInv, StartInv, AcceptInv, NEW s \in LateSubs,
         LateDetach(s)
  PROVE  ThreadInv' /\ StartInv' /\ AcceptInv'
<1>1. ThreadInv'
  BY WatcherAssumption DEF ThreadInv, LateDetach, Detach, At, BeforeWatch,
     Attaching, watcherVars
<1>2. StartInv'
  BY WatcherAssumption, ControlAssumption DEF ThreadInv, StartInv, LateDetach,
     Detach, At, watcherVars, debugVars
<1>3. AcceptInv'
  BY WatcherAssumption, ControlAssumption DEF AcceptInv, LateDetach, Detach,
     At, watcherVars, debugVars
<1> QED BY <1>1, <1>2, <1>3

(* The loop ends.                                                          *)
LEMMA MainDetachBase ==
  ASSUME ThreadInv, StartInv, AcceptInv,
         MainDetach
  PROVE  ThreadInv' /\ StartInv' /\ AcceptInv'
<1>1. ThreadInv'
  BY WatcherAssumption DEF ThreadInv, MainDetach, DebugDetach, At,
     BeforeWatch, Attaching, watcherVars
<1>2. StartInv'
  BY WatcherAssumption, ControlAssumption DEF ThreadInv, StartInv, MainDetach,
     DebugDetach, At, watcherVars
<1>3. AcceptInv'
  BY WatcherAssumption, ControlAssumption DEF AcceptInv, MainDetach,
     DebugDetach, At, watcherVars
<1> QED BY <1>1, <1>2, <1>3

(* stop takes acceptor, accepts and address away at once.                  *)
LEMMA MainDebugStopBase ==
  ASSUME ThreadInv, StartInv, AcceptInv,
         MainDebugStop
  PROVE  ThreadInv' /\ StartInv' /\ AcceptInv'
<1>1. ThreadInv'
  BY WatcherAssumption DEF ThreadInv, MainDebugStop, DebugStop, StopEffect,
     BeforeWatch, Attaching, watcherVars
<1>2. StartInv'
  BY WatcherAssumption, ControlAssumption DEF ThreadInv, StartInv,
     MainDebugStop, DebugStop, StopEffect, watcherVars
<1>3. AcceptInv'
  <2>1. CASE running
    <3>1. handlers' = handlers \o [k \in 1..accepts |-> Error]
      BY <2>1 DEF MainDebugStop, DebugStop, StopEffect
    <3>2. handlers' \in Seq(Clients \cup {Error})
      BY <3>1, ErrorsSeq DEF AcceptInv
    <3>3. accepts' \in Nat /\ listening' = NoAddress
      BY <2>1 DEF MainDebugStop, DebugStop, StopEffect
    <3> QED BY <3>2, <3>3 DEF AcceptInv
  <2>2. CASE ~running
    BY <2>2 DEF AcceptInv, MainDebugStop, DebugStop, StopEffect
  <2> QED BY <2>1, <2>2
<1> QED BY <1>1, <1>2, <1>3

(* The watch ends.                                                         *)
LEMMA MainUnwatchBase ==
  ASSUME ThreadInv, StartInv, AcceptInv,
         MainUnwatch
  PROVE  ThreadInv' /\ StartInv' /\ AcceptInv'
<1>1. ThreadInv'
  BY WatcherAssumption DEF ThreadInv, MainUnwatch, Unwatch, BeforeWatch,
     Attaching, watcherVars
<1>2. StartInv'
  BY WatcherAssumption, ControlAssumption DEF ThreadInv, StartInv,
     MainUnwatch, Unwatch, watcherVars, debugVars
<1>3. AcceptInv'
  BY WatcherAssumption, ControlAssumption DEF AcceptInv, MainUnwatch, Unwatch,
     watcherVars, debugVars
<1> QED BY <1>1, <1>2, <1>3

(* The io loop ends.                                                       *)
LEMMA MainExitBase ==
  ASSUME ThreadInv, StartInv, AcceptInv,
         MainExit
  PROVE  ThreadInv' /\ StartInv' /\ AcceptInv'
<1>1. ThreadInv'
  BY WatcherAssumption DEF ThreadInv, MainExit, At, BeforeWatch, Attaching,
     watcherVars
<1>2. StartInv'
  BY WatcherAssumption, ControlAssumption DEF ThreadInv, StartInv, MainExit,
     At, watcherVars, debugVars
<1>3. AcceptInv'
  BY WatcherAssumption, ControlAssumption DEF AcceptInv, MainExit, At,
     watcherVars, debugVars
<1> QED BY <1>1, <1>2, <1>3

(* A thread that has nothing to deliver, before or after, moves on.        *)
LEMMA IdleMoveDelivery ==
  ASSUME ThreadInv, DeliveryInv, NEW t \in Threads, NEW j, Go(t, j),
         job[t].pc \in {"idle", "load"}, j.pc \in {"idle", "load", "compare"},
         UNCHANGED <<subscribers, seen, lastConfig, mainAt>>
  PROVE  DeliveryInv'
<1>1. job'[t] = j /\ \A u \in Threads : u # t => job'[u] = job[u]
  BY GoFacts DEF ThreadInv
<1>2. Main \in Threads /\ Io \in Threads
  BY DEF Threads
<1>3. /\ Attaching' <=> Attaching
      /\ Attaching => job'[Main] = job[Main]
      /\ job'[Main].pc = "attachUpdate" => job'[Main] = job[Main]
      /\ job[Io].pc = "copy" => job'[Io].pc = "copy"
  BY <1>1, <1>2 DEF Attaching
<1>4. \A k \in 1..Len(subscribers) : Has(k) => Has(k)'
  BY <1>3 DEF Has
<1>5. \A u \in Threads : job'[u].pc \in {"copy", "current", "notify", "update"}
                           <=> job[u].pc \in {"copy", "current", "notify", "update"}
  BY <1>1
<1>6. \A u \in Threads : job'[u].pc \in {"current", "notify", "update"} => job'[u] = job[u]
  BY <1>1
<1>7. ASSUME NEW u \in Threads, NEW m, job'[u] = job[u], Rest(u, m) PROVE Rest(u, m)'
  BY <1>4, <1>7, RestKept
<1>8. \A k \in 1..Len(subscribers) : (Clean(k) => Has(k)) => (Clean(k) => Has(k))'
  BY <1>4 DEF Clean
<1> HIDE DEF Rest, Clean, Has
<1>9. mainAt \in {"loading", "run"} =>
        \A u \in Threads :
          /\ job'[u].pc \in {"current", "notify", "update"} =>
               \E m \in 0..Len(subscribers) : Rest(u, m)'
          /\ job'[u].pc \in {"notify", "update"} => job'[u].cfg = lastConfig
          /\ job'[u].pc = "update" => seen[Head(job'[u].active)].cfg = lastConfig
  BY <1>6, <1>7 DEF DeliveryInv
<1> QED BY <1>3, <1>5, <1>8, <1>9 DEF DeliveryInv

(* The file is read: what was read is what it says.                        *)
LEMMA LoadConfigBase ==
  ASSUME ThreadInv, StartInv, AcceptInv, NEW t \in Threads,
         LoadConfig(t),
         UNCHANGED <<debugVars, mainAt, ioAlive, toCome>>
  PROVE  ThreadInv' /\ StartInv' /\ AcceptInv'
<1>1. ThreadInv'
  BY WatcherAssumption DEF ThreadInv, LoadConfig, At, Go, BeforeWatch,
     Attaching, watcherVars, Idle
<1>2. StartInv'
  BY WatcherAssumption, ControlAssumption DEF ThreadInv, StartInv, LoadConfig,
     At, Go, watcherVars, debugVars
<1>3. AcceptInv'
  BY WatcherAssumption, ControlAssumption DEF AcceptInv, LoadConfig, At, Go,
     watcherVars, debugVars
<1> QED BY <1>1, <1>2, <1>3

(* One thread at most is here, so the version in hand is the newest.       *)
LEMMA CompareBase ==
  ASSUME ThreadInv, StartInv, AcceptInv, NEW t \in Threads,
         Compare(t),
         UNCHANGED <<debugVars, mainAt, ioAlive, toCome>>
  PROVE  ThreadInv' /\ StartInv' /\ AcceptInv'
<1>1. ThreadInv'
  BY WatcherAssumption DEF ThreadInv, Compare, At, Go, BeforeWatch, Attaching,
     watcherVars, Threads, Idle
<1>2. StartInv'
  BY WatcherAssumption, ControlAssumption DEF ThreadInv, StartInv, Compare,
     At, Go, watcherVars, debugVars
<1>3. AcceptInv'
  BY WatcherAssumption, ControlAssumption DEF AcceptInv, Compare, At, Go,
     watcherVars, debugVars
<1> QED BY <1>1, <1>2, <1>3

(* The list is copied while nobody is being attached.                      *)
LEMMA CopySubscribersBase ==
  ASSUME ThreadInv, StartInv, AcceptInv, NEW t \in Threads,
         CopySubscribers(t),
         UNCHANGED <<debugVars, mainAt, ioAlive, toCome>>
  PROVE  ThreadInv' /\ StartInv' /\ AcceptInv'
<1>1. ThreadInv'
  BY WatcherAssumption DEF ThreadInv, CopySubscribers, At, Go, BeforeWatch,
     Attaching, watcherVars, Threads
<1>2. StartInv'
  BY WatcherAssumption, ControlAssumption DEF ThreadInv, StartInv,
     CopySubscribers, At, Go, watcherVars, debugVars
<1>3. AcceptInv'
  BY WatcherAssumption, ControlAssumption DEF AcceptInv, CopySubscribers, At,
     Go, watcherVars, debugVars
<1> QED BY <1>1, <1>2, <1>3

(* The configuration is copied; nobody can change it meanwhile.            *)
LEMMA CopyCurrentBase ==
  ASSUME ThreadInv, StartInv, AcceptInv, NEW t \in Threads,
         CopyCurrent(t),
         UNCHANGED <<debugVars, mainAt, ioAlive, toCome>>
  PROVE  ThreadInv' /\ StartInv' /\ AcceptInv'
<1>1. ThreadInv'
  BY WatcherAssumption DEF ThreadInv, CopyCurrent, At, Go, NotifyRest,
     BeforeWatch, Attaching, watcherVars, Idle
<1>2. StartInv'
  BY WatcherAssumption, ControlAssumption DEF ThreadInv, StartInv,
     CopyCurrent, At, Go, NotifyRest, watcherVars, debugVars
<1>3. AcceptInv'
  BY WatcherAssumption, ControlAssumption DEF AcceptInv, CopyCurrent, At, Go,
     NotifyRest, watcherVars, debugVars
<1> QED BY <1>1, <1>2, <1>3

(* update is called: for the debug server start begins, once.              *)
LEMMA DeliverUpdateBase ==
  ASSUME ThreadInv, StartInv, AcceptInv, NEW t \in Threads,
         DeliverUpdate(t)
  PROVE  ThreadInv' /\ StartInv' /\ AcceptInv'
<1>1. ThreadInv'
  BY WatcherAssumption DEF ThreadInv, DeliverUpdate, CallUpdate, At, Go,
     BeforeWatch, Attaching, watcherVars
<1>2. StartInv'
  <2>1. PICK j : j = [job[t] EXCEPT !.pc = "update"]
    OBVIOUS
  <2>2. DOMAIN job[t] = {"pc", "active", "cfg", "ver"}
    BY DEF DeliverUpdate, CallUpdate, At, ThreadInv
  <2>3. j.pc = "update" /\ j.active = job[t].active
    BY <2>1, <2>2, CallFields
  <2>4. job'[t] = j /\ \A u \in Threads : u # t => job'[u] = job[u]
    BY <2>1, GoFacts DEF DeliverUpdate, CallUpdate, ThreadInv
  <2>5. CASE Head(job[t].active) = DebugSub
    <3>1. starting' = [starting EXCEPT ![t] =
            IF NeedsStart(job[t].cfg) THEN [pc |-> "replace", addr |-> Listen(job[t].cfg)]
            ELSE NotStarting]
      BY <2>5 DEF DeliverUpdate, DebugUpdate
    <3>2. "pc" \in DOMAIN starting'[t] /\ \A u \in Threads : u # t => starting'[u] = starting[u]
      BY <3>1, Zenon DEF StartInv, NotStarting
    <3>3. starting' = [u \in Threads |-> starting'[u]]
      BY <3>1 DEF StartInv
    <3> QED BY <2>3, <2>4, <2>5, <3>2, <3>3 DEF StartInv, DeliverUpdate
  <2>6. CASE Head(job[t].active) # DebugSub
    BY <2>3, <2>4, <2>6 DEF StartInv, DeliverUpdate, CallUpdate, At, debugVars
  <2> QED BY <2>5, <2>6
<1>3. AcceptInv'
  <2>1. CASE Head(job[t].active) = DebugSub
    <3>1. PICK stops : stops = NeedsStop(job[t].cfg)
      OBVIOUS
    <3>2. /\ starting[t].pc # "accept"
          /\ \A u \in Threads : u # t => starting'[u] = starting[u]
      <4>1. job[t].pc = "notify" /\ ~(t = Main /\ mainAt = "starting")
        BY DEF DeliverUpdate, CallUpdate, At, ThreadInv
      <4>2. starting[t].pc # "accept"
        BY <4>1 DEF StartInv
      <4>3. \A u \in Threads : u # t => starting'[u] = starting[u]
        BY <2>1, Zenon DEF DeliverUpdate, DebugUpdate, StartInv
      <4> QED BY <4>2, <4>3
    <3>3. StopEffect(stops) /\ UNCHANGED acceptFailed
      BY <2>1, <3>1 DEF DeliverUpdate, DebugUpdate
    <3>4. CASE stops /\ running
      <4>1. /\ handlers' = handlers \o [k \in 1..accepts |-> Error]
            /\ accepts' = 0 /\ listening' = NoAddress
        BY <3>3, <3>4 DEF StopEffect
      <4>2. handlers' \in Seq(Clients \cup {Error})
        BY <4>1, ErrorsSeq DEF AcceptInv
      <4> QED BY <4>1, <4>2 DEF AcceptInv
    <3>5. CASE ~(stops /\ running)
      BY <3>2, <3>3, <3>5 DEF AcceptInv, StopEffect
    <3> QED BY <3>4, <3>5
  <2>2. CASE Head(job[t].active) # DebugSub
    BY <2>2 DEF AcceptInv, DeliverUpdate, debugVars
  <2> QED BY <2>1, <2>2
<1> QED BY <1>1, <1>2, <1>3

(* update returns: the thread is one position further.                     *)
LEMMA DeliveryReturnsBase ==
  ASSUME ThreadInv, StartInv, AcceptInv, NEW t \in Threads,
         DeliveryReturns(t)
  PROVE  ThreadInv' /\ StartInv' /\ AcceptInv'
<1>1. ThreadInv'
  BY WatcherAssumption DEF ThreadInv, DeliveryReturns, UpdateReturns, At, Go,
     NotifyRest, BeforeWatch, Attaching, watcherVars, Idle
<1>2. StartInv'
  BY WatcherAssumption, ControlAssumption DEF ThreadInv, StartInv,
     DeliveryReturns, UpdateReturns, At, Go, NotifyRest, Ending, watcherVars,
     debugVars, fileVars, NotStarting
<1>3. AcceptInv'
  BY WatcherAssumption, ControlAssumption DEF AcceptInv, DeliveryReturns,
     UpdateReturns, At, Go, NotifyRest, watcherVars, debugVars
<1> QED BY <1>1, <1>2, <1>3

(* update throws: those behind the thrower are not Clean.                  *)
LEMMA DeliveryThrowsBase ==
  ASSUME ThreadInv, StartInv, AcceptInv, NEW t \in Threads,
         DeliveryThrows(t)
  PROVE  ThreadInv' /\ StartInv' /\ AcceptInv'
<1>1. ThreadInv'
  BY WatcherAssumption DEF ThreadInv, DeliveryThrows, UpdateThrows, At, Go,
     BeforeWatch, Attaching, watcherVars, Idle
<1>2. StartInv'
  <2>1. /\ job[t].pc = "update" /\ job' = [job EXCEPT ![t] = Idle]
        /\ ~(t = Main /\ mainAt = "starting") /\ mainAt' = mainAt
    BY DEF DeliveryThrows, UpdateThrows, At, Go, ThreadInv
  <2>2. \A u \in Threads : u # t => job'[u] = job[u]
    BY <2>1, Zenon DEF ThreadInv
  <2>3. CASE Head(job[t].active) = DebugSub
    <3>1. starting' = [starting EXCEPT ![t] = NotStarting]
      BY <2>3 DEF DeliveryThrows, DebugListenThrows
    <3>2. starting'[t] = NotStarting /\ \A u \in Threads : u # t => starting'[u] = starting[u]
      BY <3>1, Zenon DEF StartInv
    <3>3. starting'[t].pc = "no" /\ "pc" \in DOMAIN starting'[t]
      BY <3>2, NotStartingPc
    <3>4. starting' = [u \in Threads |-> starting'[u]]
      BY <3>1 DEF StartInv
    <3> QED BY <2>1, <2>2, <3>2, <3>3, <3>4 DEF StartInv
  <2>4. CASE Head(job[t].active) # DebugSub
    BY <2>1, <2>2, <2>4 DEF StartInv, DeliveryThrows, debugVars
  <2> QED BY <2>3, <2>4
<1>3. AcceptInv'
  <2>1. CASE Head(job[t].active) = DebugSub
    <3>1. /\ starting[t].pc = "listen" /\ starting' = [starting EXCEPT ![t] = NotStarting]
          /\ UNCHANGED <<accepts, handlers, listening, acceptFailed>>
      BY <2>1 DEF DeliveryThrows, DebugListenThrows, StartAt
    <3>2. \A u \in Threads : u # t => starting'[u] = starting[u]
      BY <3>1, Zenon DEF StartInv
    <3> QED BY <3>1, <3>2 DEF AcceptInv
  <2>2. CASE Head(job[t].active) # DebugSub
    BY <2>2 DEF AcceptInv, DeliveryThrows, debugVars
  <2> QED BY <2>1, <2>2
<1> QED BY <1>1, <1>2, <1>3

(* start replaces the acceptor: nothing listens for a while.               *)
LEMMA DebugStartBase ==
  ASSUME ThreadInv, StartInv, AcceptInv, NEW t \in Threads,
         DebugStart(t),
         UNCHANGED <<watcherVars, mainAt, ioAlive, toCome>>
  PROVE  ThreadInv' /\ StartInv' /\ AcceptInv'
<1>1. ThreadInv'
  BY WatcherAssumption DEF ThreadInv, DebugStart, StartAt, BeforeWatch,
     Attaching, watcherVars
<1>2. StartInv'
  BY StartFacts DEF StartInv, DebugStart, StartAt, watcherVars
<1>3. AcceptInv'
  <2>1. handlers' \in Seq(Clients \cup {Error})
    BY ErrorsSeq DEF AcceptInv, DebugStart
  <2>2. accepts' \in Nat /\ listening' = NoAddress
    BY DEF AcceptInv, DebugStart
  <2> QED BY <2>1, <2>2 DEF AcceptInv
<1> QED BY <1>1, <1>2, <1>3

(* The new acceptor does not listen.                                       *)
LEMMA DebugListenFailsBase ==
  ASSUME ThreadInv, StartInv, AcceptInv, NEW t \in Threads,
         DebugListenFails(t),
         UNCHANGED <<watcherVars, mainAt, ioAlive, toCome>>
  PROVE  ThreadInv' /\ StartInv' /\ AcceptInv'
<1>1. ThreadInv'
  BY WatcherAssumption DEF ThreadInv, DebugListenFails, StartAt, BeforeWatch,
     Attaching, watcherVars
<1>2. StartInv'
  BY WatcherAssumption, ControlAssumption DEF ThreadInv, StartInv,
     DebugListenFails, StartAt, Ending, watcherVars, fileVars, NotStarting
<1>3. AcceptInv'
  BY WatcherAssumption, ControlAssumption DEF AcceptInv, DebugListenFails,
     StartAt, watcherVars
<1> QED BY <1>1, <1>2, <1>3

(* The new acceptor listens, and its thread is about to accept.            *)
LEMMA DebugListenBase ==
  ASSUME ThreadInv, StartInv, AcceptInv, NEW t \in Threads,
         DebugListen(t),
         UNCHANGED <<watcherVars, mainAt, ioAlive, toCome>>
  PROVE  ThreadInv' /\ StartInv' /\ AcceptInv'
<1>1. ThreadInv'
  BY WatcherAssumption DEF ThreadInv, DebugListen, StartAt, BeforeWatch,
     Attaching, watcherVars
<1>2. StartInv'
  BY StartFacts DEF StartInv, DebugListen, StartAt, watcherVars
<1>3. AcceptInv'
  BY StartFacts DEF StartInv, AcceptInv, DebugListen, StartAt
<1> QED BY <1>1, <1>2, <1>3

(* The new acceptor accepts.                                               *)
LEMMA DebugAcceptBase ==
  ASSUME ThreadInv, StartInv, AcceptInv, NEW t \in Threads,
         DebugAccept(t),
         UNCHANGED <<watcherVars, mainAt, ioAlive, toCome>>
  PROVE  ThreadInv' /\ StartInv' /\ AcceptInv'
<1>1. ThreadInv'
  BY WatcherAssumption DEF ThreadInv, DebugAccept, StartAt, BeforeWatch,
     Attaching, watcherVars
<1>2. StartInv'
  BY WatcherAssumption, ControlAssumption DEF ThreadInv, StartInv,
     DebugAccept, StartAt, Ending, watcherVars, fileVars, NotStarting
<1>3. AcceptInv'
  BY WatcherAssumption, ControlAssumption DEF AcceptInv, DebugAccept, StartAt,
     watcherVars
<1> QED BY <1>1, <1>2, <1>3

(* attach copies the configuration, under the mutex.                       *)
LEMMA AttachCopyBase ==
  ASSUME ThreadInv, StartInv, AcceptInv,
         AttachCopy,
         UNCHANGED <<debugVars, mainAt, ioAlive, toCome>>
  PROVE  ThreadInv' /\ StartInv' /\ AcceptInv'
<1>1. ThreadInv'
  BY WatcherAssumption DEF ThreadInv, AttachCopy, At, Go, BeforeWatch,
     Attaching, watcherVars
<1>2. StartInv'
  BY WatcherAssumption, ControlAssumption DEF ThreadInv, StartInv, AttachCopy,
     At, Go, watcherVars, debugVars
<1>3. AcceptInv'
  BY WatcherAssumption, ControlAssumption DEF AcceptInv, AttachCopy, At, Go,
     watcherVars, debugVars
<1> QED BY <1>1, <1>2, <1>3

(* attach calls the subscriber, which nobody has called before.            *)
LEMMA AttachUpdateBase ==
  ASSUME ThreadInv, StartInv, AcceptInv,
         AttachUpdate,
         UNCHANGED <<debugVars, mainAt, ioAlive, toCome>>
  PROVE  ThreadInv' /\ StartInv' /\ AcceptInv'
<1>1. ThreadInv'
  BY WatcherAssumption DEF ThreadInv, AttachUpdate, At, Go, BeforeWatch,
     Attaching, watcherVars, Threads, Idle
<1>2. StartInv'
  BY WatcherAssumption, ControlAssumption DEF ThreadInv, StartInv,
     AttachUpdate, At, Go, watcherVars, debugVars
<1>3. AcceptInv'
  BY WatcherAssumption, ControlAssumption DEF AcceptInv, AttachUpdate, At, Go,
     watcherVars, debugVars
<1> QED BY <1>1, <1>2, <1>3

(* The io thread takes an event and will read the file.                    *)
LEMMA OnChangeBase ==
  ASSUME ThreadInv, StartInv, AcceptInv,
         OnChange,
         UNCHANGED <<debugVars, mainAt, ioAlive, toCome>>
  PROVE  ThreadInv' /\ StartInv' /\ AcceptInv'
<1>1. ThreadInv'
  BY WatcherAssumption DEF ThreadInv, OnChange, At, Go, BeforeWatch,
     Attaching, watcherVars
<1>2. StartInv'
  BY WatcherAssumption, ControlAssumption DEF ThreadInv, StartInv, OnChange,
     At, Go, watcherVars, debugVars
<1>3. AcceptInv'
  BY WatcherAssumption, ControlAssumption DEF AcceptInv, OnChange, At, Go,
     watcherVars, debugVars
<1> QED BY <1>1, <1>2, <1>3

(* A failed accept is not one of those that go on.                         *)
LEMMA OnAcceptErrorBase ==
  ASSUME ThreadInv, StartInv, AcceptInv,
         OnAcceptError,
         UNCHANGED <<watcherVars, mainAt, ioAlive, toCome>>
  PROVE  ThreadInv' /\ StartInv' /\ AcceptInv'
<1>1. ThreadInv'
  BY WatcherAssumption DEF ThreadInv, OnAcceptError, BeforeWatch, Attaching,
     watcherVars
<1>2. StartInv'
  BY WatcherAssumption, ControlAssumption DEF ThreadInv, StartInv,
     OnAcceptError, watcherVars
<1>3. AcceptInv'
  <2>1. handlers' \in Seq(Clients \cup {Error}) /\ accepts' \in Nat /\ accepts' >= accepts
    BY DEF AcceptInv, OnAcceptError
  <2>2. ASSUME NEW k \in 1..Len(handlers), handlers[k] # Error
        PROVE  \E i \in 1..Len(handlers') : handlers'[i] # Error
    <3>1. k - 1 \in 1..Len(handlers') /\ handlers'[k - 1] = handlers[k]
      BY <2>2 DEF AcceptInv, OnAcceptError
    <3> QED BY <3>1, <2>2
  <2> QED BY <2>1, <2>2 DEF AcceptInv, OnAcceptError
<1> QED BY <1>1, <1>2, <1>3

(* A handled accept is followed by the next.                               *)
LEMMA OnAcceptBase ==
  ASSUME ThreadInv, StartInv, AcceptInv,
         OnAccept,
         UNCHANGED <<watcherVars, mainAt, ioAlive, toCome>>
  PROVE  ThreadInv' /\ StartInv' /\ AcceptInv'
<1>1. ThreadInv'
  BY WatcherAssumption DEF ThreadInv, OnAccept, BeforeWatch, Attaching,
     watcherVars
<1>2. StartInv'
  BY WatcherAssumption, ControlAssumption DEF ThreadInv, StartInv, OnAccept,
     watcherVars
<1>3. AcceptInv'
  BY WatcherAssumption, ControlAssumption DEF AcceptInv, OnAccept, watcherVars
<1> QED BY <1>1, <1>2, <1>3

(* Sessions leave the acceptor alone.                                      *)
LEMMA OnReadBase ==
  ASSUME ThreadInv, StartInv, AcceptInv, NEW c \in Clients,
         OnReadDebug(c) \/ OnReadOther(c) \/ OnReadError(c),
         UNCHANGED <<watcherVars, mainAt, ioAlive, toCome>>
  PROVE  ThreadInv' /\ StartInv' /\ AcceptInv'
<1>1. ThreadInv'
  BY WatcherAssumption DEF ThreadInv, OnReadDebug, OnReadOther, OnReadError,
     BeforeWatch, Attaching, watcherVars
<1>2. StartInv'
  BY WatcherAssumption, ControlAssumption DEF ThreadInv, StartInv,
     OnReadDebug, OnReadOther, OnReadError, watcherVars
<1>3. AcceptInv'
  BY WatcherAssumption, ControlAssumption DEF AcceptInv, OnReadDebug,
     OnReadOther, OnReadError, watcherVars
<1> QED BY <1>1, <1>2, <1>3

(* The io loop dies with everything as it is.                              *)
LEMMA ServiceFileThrowsBase ==
  ASSUME ThreadInv, StartInv, AcceptInv,
         ServiceFileThrows
  PROVE  ThreadInv' /\ StartInv' /\ AcceptInv'
<1>1. ThreadInv'
  BY WatcherAssumption DEF ThreadInv, ServiceFileThrows, BeforeWatch,
     Attaching, watcherVars
<1>2. StartInv'
  BY WatcherAssumption, ControlAssumption DEF ThreadInv, StartInv,
     ServiceFileThrows, watcherVars, debugVars
<1>3. AcceptInv'
  BY WatcherAssumption, ControlAssumption DEF AcceptInv, ServiceFileThrows,
     watcherVars, debugVars
<1> QED BY <1>1, <1>2, <1>3

(* Every edit ends in an event, since the file is watched.                 *)
LEMMA EditBase ==
  ASSUME ThreadInv, StartInv, AcceptInv,
         EditDuringStart \/ mainAt = "run", EditStep,
         UNCHANGED <<debugVars, mainAt, ioAlive, toCome>>
  PROVE  ThreadInv' /\ StartInv' /\ AcceptInv'
<1>1. ThreadInv'
  BY WatcherAssumption DEF ThreadInv, EditStep, Truncate, WriteAndClose,
     MoveOver, BeforeWatch, Attaching, watcherVars
<1>2. StartInv'
  BY WatcherAssumption, ControlAssumption DEF ThreadInv, StartInv, EditStep,
     Truncate, WriteAndClose, MoveOver, watcherVars, debugVars
<1>3. AcceptInv'
  BY WatcherAssumption, ControlAssumption DEF AcceptInv, EditStep, Truncate,
     WriteAndClose, MoveOver, watcherVars, debugVars
<1> QED BY <1>1, <1>2, <1>3

(* Clients leave the acceptor alone.                                       *)
LEMMA ClientBase ==
  ASSUME ThreadInv, StartInv, AcceptInv, NEW c \in Clients,
         Connect(c) \/ Request(c),
         UNCHANGED <<watcherVars, mainAt, ioAlive, toCome>>
  PROVE  ThreadInv' /\ StartInv' /\ AcceptInv'
<1>1. ThreadInv'
  BY WatcherAssumption DEF ThreadInv, Connect, Request, BeforeWatch,
     Attaching, watcherVars
<1>2. StartInv'
  BY WatcherAssumption, ControlAssumption DEF ThreadInv, StartInv, Connect,
     Request, watcherVars
<1>3. AcceptInv'
  BY WatcherAssumption, ControlAssumption DEF AcceptInv, Connect, Request,
     watcherVars
<1> QED BY <1>1, <1>2, <1>3

(* A failing accept is noted.                                              *)
LEMMA AcceptFailsBase ==
  ASSUME ThreadInv, StartInv, AcceptInv,
         AcceptFails,
         UNCHANGED <<watcherVars, mainAt, ioAlive, toCome>>
  PROVE  ThreadInv' /\ StartInv' /\ AcceptInv'
<1>1. ThreadInv'
  BY WatcherAssumption DEF ThreadInv, AcceptFails, BeforeWatch, Attaching,
     watcherVars
<1>2. StartInv'
  BY WatcherAssumption, ControlAssumption DEF ThreadInv, StartInv,
     AcceptFails, watcherVars
<1>3. AcceptInv'
  <2>1. handlers' \in Seq(Clients \cup {Error}) /\ accepts' \in Nat
    BY DEF AcceptInv, AcceptFails
  <2>2. acceptFailed' \/ listening' = NoAddress
    BY DEF AcceptFails
  <2> QED BY <2>1, <2>2 DEF AcceptInv
<1> QED BY <1>1, <1>2, <1>3

(* A completed accept has a handler to run.                                *)
LEMMA AcceptCompletesBase ==
  ASSUME ThreadInv, StartInv, AcceptInv, NEW c \in Clients,
         AcceptCompletes(c),
         UNCHANGED <<watcherVars, mainAt, ioAlive, toCome>>
  PROVE  ThreadInv' /\ StartInv' /\ AcceptInv'
<1>1. ThreadInv'
  BY WatcherAssumption DEF ThreadInv, AcceptCompletes, BeforeWatch, Attaching,
     watcherVars
<1>2. StartInv'
  BY WatcherAssumption, ControlAssumption DEF ThreadInv, StartInv,
     AcceptCompletes, watcherVars
<1>3. AcceptInv'
  <2>1. handlers' \in Seq(Clients \cup {Error}) /\ accepts' \in Nat
    BY DEF AcceptInv, AcceptCompletes
  <2>2. Len(handlers') \in 1..Len(handlers') /\ handlers'[Len(handlers')] = c /\ c # Error
    BY ControlAssumption DEF AcceptInv, AcceptCompletes
  <2> QED BY <2>1, <2>2 DEF AcceptInv
<1> QED BY <1>1, <1>2, <1>3

(* Nothing happens.                                                        *)
LEMMA StutterBase ==
  ASSUME ThreadInv, StartInv, AcceptInv,
         UNCHANGED controlVars
  PROVE  ThreadInv' /\ StartInv' /\ AcceptInv'
<1>1. ThreadInv'
  BY WatcherAssumption DEF ThreadInv, controlVars, BeforeWatch, Attaching,
     watcherVars
<1>2. StartInv'
  BY WatcherAssumption, ControlAssumption DEF ThreadInv, StartInv,
     controlVars, watcherVars, debugVars
<1>3. AcceptInv'
  BY WatcherAssumption, ControlAssumption DEF AcceptInv, controlVars,
     watcherVars, debugVars
<1> QED BY <1>1, <1>2, <1>3

(* main() attaches a subscriber before the watch: nobody is called.        *)
LEMMA MainAttachCalm ==
  ASSUME ~EditDuringStart, ThreadInv, ThreadInv', CalmInv, ListInv, VersionInv, FileInv,
         DeliveryInv,
         MainAttach
  PROVE  CalmInv' /\ ListInv' /\ VersionInv' /\ FileInv' /\ DeliveryInv'
<1>1. CalmInv'
  BY WatcherAssumption DEF ThreadInv, CalmInv, MainAttach, Attach, At, Go,
     Ending, watcherVars, fileVars
<1>2. ListInv'
  BY WatcherAssumption, ControlAssumption DEF ThreadInv, ListInv, Leads,
     MainAttach, Attach, At, Go, watcherVars, Threads
<1>3. VersionInv'
  BY WatcherAssumption DEF ThreadInv, CalmInv, ListInv, VersionInv,
     MainAttach, Attach, At, Go, watcherVars
<1>4. FileInv'
  BY WatcherAssumption DEF CalmInv, FileInv, MainAttach, Attach, At, Go,
     watcherVars
<1>5. DeliveryInv'
  BY WatcherAssumption DEF ThreadInv, CalmInv, ListInv, VersionInv,
     DeliveryInv, Rest, Has, Clean, MainAttach, Attach, At, Go, watcherVars
<1> QED BY <1>1, <1>2, <1>3, <1>4, <1>5

(* The daemon joins the debug server.                                      *)
LEMMA MainDebugAttachCalm ==
  ASSUME ~EditDuringStart, ThreadInv, ThreadInv', CalmInv, ListInv, VersionInv, FileInv,
         DeliveryInv,
         MainDebugAttach
  PROVE  CalmInv' /\ ListInv' /\ VersionInv' /\ FileInv' /\ DeliveryInv'
<1>1. CalmInv'
  BY WatcherAssumption DEF ThreadInv, CalmInv, MainDebugAttach, Ending,
     watcherVars, fileVars
<1>2. ListInv'
  BY WatcherAssumption, ControlAssumption DEF ThreadInv, ListInv, Leads,
     MainDebugAttach, Ending, watcherVars, fileVars
<1>3. VersionInv'
  BY WatcherAssumption DEF ThreadInv, CalmInv, ListInv, VersionInv,
     MainDebugAttach, Ending, watcherVars, fileVars
<1>4. FileInv'
  BY WatcherAssumption DEF CalmInv, FileInv, MainDebugAttach, watcherVars
<1>5. DeliveryInv'
  BY DeliveryKept DEF MainDebugAttach, BeforeWatch, watcherVars
<1> QED BY <1>1, <1>2, <1>3, <1>4, <1>5

(* main() enters start, in which nobody has been before.                   *)
LEMMA MainDebugStartCalm ==
  ASSUME ~EditDuringStart, ThreadInv, ThreadInv', CalmInv, ListInv, VersionInv, FileInv,
         DeliveryInv,
         MainDebugStart
  PROVE  CalmInv' /\ ListInv' /\ VersionInv' /\ FileInv' /\ DeliveryInv'
<1>1. CalmInv'
  BY WatcherAssumption DEF ThreadInv, CalmInv, MainDebugStart, Ending,
     watcherVars, fileVars
<1>2. ListInv'
  BY WatcherAssumption, ControlAssumption DEF ThreadInv, ListInv, Leads,
     MainDebugStart, Ending, watcherVars, fileVars
<1>3. VersionInv'
  BY WatcherAssumption DEF ThreadInv, CalmInv, ListInv, VersionInv,
     MainDebugStart, Ending, watcherVars, fileVars
<1>4. FileInv'
  BY WatcherAssumption DEF CalmInv, FileInv, MainDebugStart, watcherVars
<1>5. DeliveryInv'
  BY DeliveryKept DEF MainDebugStart, BeforeWatch, watcherVars
<1> QED BY <1>1, <1>2, <1>3, <1>4, <1>5

(* start throws and main() ends.                                           *)
LEMMA MainDebugThrowsCalm ==
  ASSUME ~EditDuringStart, ThreadInv, ThreadInv', CalmInv, ListInv, VersionInv, FileInv,
         DeliveryInv,
         MainDebugThrows
  PROVE  CalmInv' /\ ListInv' /\ VersionInv' /\ FileInv' /\ DeliveryInv'
<1>1. CalmInv'
  BY WatcherAssumption DEF CalmInv, MainDebugThrows, BeforeWatch, Attaching,
     watcherVars
<1>2. ListInv'
  BY WatcherAssumption, ControlAssumption DEF ThreadInv, ListInv, Leads,
     MainDebugThrows, Ending, watcherVars, fileVars
<1>3. VersionInv'
  BY WatcherAssumption DEF ThreadInv, CalmInv, ListInv, VersionInv,
     MainDebugThrows, Ending, watcherVars, fileVars
<1>4. FileInv'
  BY WatcherAssumption DEF CalmInv, FileInv, MainDebugThrows, watcherVars
<1>5. DeliveryInv'
  BY DeliveryKept DEF MainDebugThrows, BeforeWatch, watcherVars
<1> QED BY <1>1, <1>2, <1>3, <1>4, <1>5

(* The watch: main() leaves start and loads the file.                      *)
LEMMA MainWatchCalm ==
  ASSUME ~EditDuringStart, ThreadInv, ThreadInv', CalmInv, ListInv, VersionInv, FileInv,
         DeliveryInv, NEW ok \in BOOLEAN,
         MainWatch(ok)
  PROVE  CalmInv' /\ ListInv' /\ VersionInv' /\ FileInv' /\ DeliveryInv'
<1>b. /\ job[Main] = Idle /\ job'[Io] = job[Io]
      /\ job'[Main] = IF ok THEN [pc |-> "load"] ELSE Idle
      /\ mainAt = "starting" /\ mainAt' = IF ok THEN "loading" ELSE "failed"
      /\ UNCHANGED <<events, writing, subscribers, seen, lastConfig, version, toCome>>
  BY WatcherAssumption DEF MainWatch, StartWatching, At, Go, ThreadInv,
     Threads, fileVars
<1>1. CalmInv'
  BY WatcherAssumption DEF ThreadInv, CalmInv, MainWatch, StartWatching, At,
     Go, Ending, watcherVars, fileVars, Threads
<1>2. ListInv'
  <2> QED BY <1>b DEF ListInv, Leads, Attaching, Ending, Threads
<1>3. VersionInv'
  <2> QED BY <1>b DEF VersionInv, Attaching, Ending, Threads
<1>4. FileInv'
  BY WatcherAssumption DEF ThreadInv, CalmInv, FileInv, MainWatch,
     StartWatching, At, Go, watcherVars, Threads
<1>5. DeliveryInv'
  <2>2. job[Io] = Idle
    BY <1>b DEF CalmInv, BeforeWatch
  <2>3. \A k \in 1..Len(subscribers) : Has(k)'
    BY <1>b DEF DeliveryInv, BeforeWatch, ListInv, Ending, Has
  <2> QED BY <1>b, <2>2, <2>3 DEF DeliveryInv, BeforeWatch, Idle, Threads
<1> QED BY <1>1, <1>2, <1>3, <1>4, <1>5

(* main() enters its loop with loadConfig behind it.                       *)
LEMMA MainRunCalm ==
  ASSUME ~EditDuringStart, ThreadInv, ThreadInv', CalmInv, ListInv, VersionInv, FileInv,
         DeliveryInv,
         MainRun
  PROVE  CalmInv' /\ ListInv' /\ VersionInv' /\ FileInv' /\ DeliveryInv'
<1>1. CalmInv'
  BY WatcherAssumption DEF CalmInv, MainRun, At, BeforeWatch, Attaching,
     watcherVars
<1>2. ListInv'
  BY WatcherAssumption, ControlAssumption DEF ThreadInv, ListInv, Leads,
     MainRun, At, Ending, watcherVars, fileVars, Threads
<1>3. VersionInv'
  BY WatcherAssumption DEF ThreadInv, CalmInv, ListInv, VersionInv, MainRun,
     At, Ending, watcherVars, fileVars, Threads
<1>4. FileInv'
  BY WatcherAssumption DEF CalmInv, FileInv, MainRun, At, Ending, watcherVars,
     fileVars
<1>5. DeliveryInv'
  BY DeliveryKept DEF MainRun, watcherVars
<1> QED BY <1>1, <1>2, <1>3, <1>4, <1>5

(* A late subscriber joins the list; no copy of it has him yet.            *)
LEMMA LateAttachCalm ==
  ASSUME ~EditDuringStart, ThreadInv, ThreadInv', CalmInv, ListInv, VersionInv, FileInv,
         DeliveryInv, NEW s \in LateSubs,
         LateAttach(s)
  PROVE  CalmInv' /\ ListInv' /\ VersionInv' /\ FileInv' /\ DeliveryInv'
<1>b. /\ mainAt = "run" /\ mainAt' = "run" /\ job[Main].pc = "idle" /\ s \in toCome
      /\ toCome' = toCome \ {s} /\ subscribers' = Append(subscribers, s)
      /\ job'[Main].pc = "attached" /\ job'[Main].sub = s /\ job'[Io] = job[Io]
      /\ UNCHANGED <<seen, lastConfig, version>>
  <2>1. /\ mainAt = "run" /\ configPath /\ Go(Main, [pc |-> "attached", sub |-> s])
    BY DEF ThreadInv, LateAttach, Attach, BeforeWatch
  <2> QED BY <2>1, GoFacts, WatcherAssumption DEF LateAttach, Attach, At,
     ThreadInv, Threads
<1>c. s \in Subscribers /\ subscribers \in Seq(Subscribers)
  BY <1>b, ControlAssumption DEF ListInv, Ending
<1>1. CalmInv'
  BY WatcherAssumption DEF CalmInv, LateAttach, Attach, At, Go, BeforeWatch,
     Attaching, watcherVars
<1>2. ListInv'
  <2>3. toCome' \subseteq LateSubs /\ s \notin toCome' /\ Attaching' /\ ~Attaching
    BY <1>b DEF ListInv, Attaching
  <2>4. ASSUME NEW k \in 1..Len(subscribers') PROVE subscribers'[k] \notin toCome'
    BY <1>b, <1>c, <2>3 DEF ListInv, Ending
  <2>5. ASSUME NEW t \in Threads, job'[t].pc \in {"current", "notify", "update"}
        PROVE  Leads(job[t].active)' /\ (job'[t].pc # "current" => job'[t].active # <<>>)
    <3>1. t = Io /\ job'[t] = job[t]
      BY <1>b, <2>5 DEF Threads
    <3>2. /\ Leads(job[t].active) /\ (job[t].pc # "current" => job[t].active # <<>>)
      BY <1>b, <2>5, <3>1 DEF ListInv, Ending
    <3> QED BY <1>b, <3>1, <3>2 DEF Leads
  <2>6. subscribers' \in Seq(Subscribers) /\ (job[Main].sub)' \in Subscribers \ toCome'
    BY <1>b, <1>c
  <2> QED BY <2>3, <2>4, <2>5, <2>6 DEF ListInv
<1>3. VersionInv'
  <2>3. toCome' \subseteq toCome /\ mainAt \notin Ending /\ mainAt' \notin Ending
    BY <1>b DEF Ending
  <2> QED BY <1>b, <1>c, <2>3 DEF VersionInv, Threads
<1>4. FileInv'
  BY WatcherAssumption DEF ThreadInv, CalmInv, FileInv, LateAttach, Attach,
     At, Go, Ending, watcherVars, fileVars
<1>5. DeliveryInv'
  <2>3. /\ Len(subscribers') = Len(subscribers) + 1 /\ subscribers'[Len(subscribers) + 1] = s
        /\ \A k \in 1..Len(subscribers) : subscribers'[k] = subscribers[k]
    BY <1>b, <1>c
  <2>4. ASSUME NEW k \in 1..Len(subscribers) PROVE Clean(k)' => Clean(k)
    <3>1. \A j \in 1..(k - 1) : subscribers'[j] = subscribers[j]
      BY <1>c, <2>3
    <3> QED BY <3>1 DEF Clean
  <2>8. \A k \in 1..Len(subscribers) : Has(k) => Has(k)'
    BY <1>b, <2>3 DEF Has, Attaching
  <2>9. \A k \in 1..Len(subscribers') : k \notin 1..Len(subscribers) => Has(k)'
    BY <1>b, <1>c, <2>3 DEF Has, Attaching
  <2>10. ASSUME NEW m \in 0..Len(subscribers), Rest(Io, m) PROVE Rest(Io, m)'
    <3>1. /\ m + Len((job[Io].active)') <= Len(subscribers')
          /\ \A i \in 1..Len((job[Io].active)') : (job[Io].active)'[i] = subscribers'[m + i]
      BY <1>b, <1>c, <2>3, <2>10 DEF Rest
    <3>2. \A k \in 1..Len(subscribers') :
            Clean(k)' => Has(k)' \/ k \in (m + 1)..(m + Len((job[Io].active)'))
      BY <1>b, <2>4, <2>10, <2>8, <2>9 DEF Rest
    <3> QED BY <3>1, <3>2 DEF Rest
  <2>6. \A k \in 1..Len(subscribers') :
          (\A i \in 1..Len(subscribers) : Clean(i) => Has(i)) => (Clean(k)' => Has(k)')
    BY <2>4, <2>8, <2>9
  <2>7. 0..Len(subscribers) \subseteq 0..Len(subscribers')
    BY <1>c, <2>3
  <2> HIDE DEF Rest, Clean, Has
  <2> QED BY <1>b, <2>10, <2>6, <2>7 DEF DeliveryInv, Threads
<1> QED BY <1>1, <1>2, <1>3, <1>4, <1>5

(* A subscriber leaves at the end.                                         *)
LEMMA LateDetachCalm ==
  ASSUME ~EditDuringStart, ThreadInv, ThreadInv', CalmInv, ListInv, VersionInv, FileInv,
         DeliveryInv, NEW s \in LateSubs,
         LateDetach(s)
  PROVE  CalmInv' /\ ListInv' /\ VersionInv' /\ FileInv' /\ DeliveryInv'
<1>1. CalmInv'
  BY WatcherAssumption DEF CalmInv, LateDetach, Detach, At, BeforeWatch,
     Attaching, watcherVars
<1>2. ListInv'
  BY WatcherAssumption, ControlAssumption DEF ListInv, Leads, LateDetach,
     Detach, At, Ending, watcherVars, fileVars
<1>3. VersionInv'
  BY WatcherAssumption DEF ThreadInv, CalmInv, ListInv, VersionInv,
     LateDetach, Detach, At, watcherVars
<1>4. FileInv'
  BY WatcherAssumption DEF CalmInv, FileInv, LateDetach, Detach, At,
     watcherVars
<1>5. DeliveryInv'
  BY WatcherAssumption DEF CalmInv, ListInv, VersionInv, DeliveryInv, Rest,
     Has, Clean, LateDetach, Detach, At, watcherVars
<1> QED BY <1>1, <1>2, <1>3, <1>4, <1>5

(* The loop ends.                                                          *)
LEMMA MainDetachCalm ==
  ASSUME ~EditDuringStart, ThreadInv, ThreadInv', CalmInv, ListInv, VersionInv, FileInv,
         DeliveryInv,
         MainDetach
  PROVE  CalmInv' /\ ListInv' /\ VersionInv' /\ FileInv' /\ DeliveryInv'
<1>1. CalmInv'
  BY WatcherAssumption DEF CalmInv, MainDetach, At, BeforeWatch, Attaching,
     watcherVars
<1>2. ListInv'
  BY WatcherAssumption, ControlAssumption DEF ListInv, Leads, MainDetach, At,
     Ending, watcherVars, fileVars
<1>3. VersionInv'
  BY WatcherAssumption DEF CalmInv, ListInv, VersionInv, MainDetach, At,
     Ending, watcherVars, fileVars
<1>4. FileInv'
  BY WatcherAssumption DEF CalmInv, FileInv, MainDetach, At, watcherVars
<1>5. DeliveryInv'
  BY DeliveryKept DEF MainDetach, BeforeWatch, watcherVars
<1> QED BY <1>1, <1>2, <1>3, <1>4, <1>5

(* stop takes acceptor, accepts and address away at once.                  *)
LEMMA MainDebugStopCalm ==
  ASSUME ~EditDuringStart, ThreadInv, ThreadInv', CalmInv, ListInv, VersionInv, FileInv,
         DeliveryInv,
         MainDebugStop
  PROVE  CalmInv' /\ ListInv' /\ VersionInv' /\ FileInv' /\ DeliveryInv'
<1>1. CalmInv'
  BY WatcherAssumption DEF CalmInv, MainDebugStop, BeforeWatch, Attaching,
     watcherVars
<1>2. ListInv'
  BY WatcherAssumption, ControlAssumption DEF ListInv, Leads, MainDebugStop,
     Ending, watcherVars, fileVars
<1>3. VersionInv'
  BY WatcherAssumption DEF CalmInv, ListInv, VersionInv, MainDebugStop,
     Ending, watcherVars, fileVars
<1>4. FileInv'
  BY WatcherAssumption DEF CalmInv, FileInv, MainDebugStop, watcherVars
<1>5. DeliveryInv'
  BY DeliveryKept DEF MainDebugStop, BeforeWatch, watcherVars
<1> QED BY <1>1, <1>2, <1>3, <1>4, <1>5

(* The watch ends.                                                         *)
LEMMA MainUnwatchCalm ==
  ASSUME ~EditDuringStart, ThreadInv, ThreadInv', CalmInv, ListInv, VersionInv, FileInv,
         DeliveryInv,
         MainUnwatch
  PROVE  CalmInv' /\ ListInv' /\ VersionInv' /\ FileInv' /\ DeliveryInv'
<1>1. CalmInv'
  BY WatcherAssumption DEF CalmInv, MainUnwatch, Unwatch, BeforeWatch,
     Attaching, watcherVars
<1>2. ListInv'
  BY WatcherAssumption, ControlAssumption DEF ListInv, Leads, MainUnwatch,
     Unwatch, Ending, watcherVars, fileVars
<1>3. VersionInv'
  BY WatcherAssumption DEF CalmInv, ListInv, VersionInv, MainUnwatch, Unwatch,
     Ending, watcherVars, fileVars
<1>4. FileInv'
  BY WatcherAssumption DEF CalmInv, FileInv, MainUnwatch, Unwatch, watcherVars
<1>5. DeliveryInv'
  BY DeliveryKept DEF MainUnwatch, Unwatch, BeforeWatch, watcherVars
<1> QED BY <1>1, <1>2, <1>3, <1>4, <1>5

(* The io loop ends.                                                       *)
LEMMA MainExitCalm ==
  ASSUME ~EditDuringStart, ThreadInv, ThreadInv', CalmInv, ListInv, VersionInv, FileInv,
         DeliveryInv,
         MainExit
  PROVE  CalmInv' /\ ListInv' /\ VersionInv' /\ FileInv' /\ DeliveryInv'
<1>1. CalmInv'
  BY WatcherAssumption DEF CalmInv, MainExit, At, BeforeWatch, Attaching,
     watcherVars
<1>2. ListInv'
  BY WatcherAssumption, ControlAssumption DEF ListInv, Leads, MainExit, At,
     Ending, watcherVars, fileVars
<1>3. VersionInv'
  BY WatcherAssumption DEF CalmInv, ListInv, VersionInv, MainExit, At, Ending,
     watcherVars, fileVars
<1>4. FileInv'
  BY WatcherAssumption DEF CalmInv, FileInv, MainExit, At, watcherVars
<1>5. DeliveryInv'
  BY DeliveryKept DEF MainExit, BeforeWatch, watcherVars
<1> QED BY <1>1, <1>2, <1>3, <1>4, <1>5

(* The file is read: what was read is what it says.                        *)
LEMMA LoadConfigCalm ==
  ASSUME ~EditDuringStart, ThreadInv, ThreadInv', CalmInv, ListInv, VersionInv, FileInv,
         DeliveryInv, NEW t \in Threads,
         LoadConfig(t),
         UNCHANGED <<debugVars, mainAt, ioAlive, toCome>>
  PROVE  CalmInv' /\ ListInv' /\ VersionInv' /\ FileInv' /\ DeliveryInv'
<1>1. CalmInv'
  BY WatcherAssumption DEF CalmInv, LoadConfig, At, Go, Ending, watcherVars,
     fileVars, Idle
<1>2. ListInv'
  BY WatcherAssumption, ControlAssumption DEF ThreadInv, ListInv, Leads,
     LoadConfig, At, Go, watcherVars, Threads, Idle
<1>3. VersionInv'
  BY WatcherAssumption DEF ThreadInv, CalmInv, ListInv, VersionInv,
     LoadConfig, At, Go, watcherVars, Threads, Idle
<1>4. FileInv'
  BY WatcherAssumption DEF CalmInv, FileInv, LoadConfig, At, Go, Ending,
     watcherVars, fileVars
<1>5. DeliveryInv'
  BY IdleMoveDelivery DEF LoadConfig, At, Idle
<1> QED BY <1>1, <1>2, <1>3, <1>4, <1>5

(* One thread at most is here, so the version in hand is the newest.       *)
LEMMA CompareCalm ==
  ASSUME ~EditDuringStart, ThreadInv, ThreadInv', CalmInv, ListInv, VersionInv, FileInv,
         DeliveryInv, NEW t \in Threads,
         Compare(t),
         UNCHANGED <<debugVars, mainAt, ioAlive, toCome>>
  PROVE  CalmInv' /\ ListInv' /\ VersionInv' /\ FileInv' /\ DeliveryInv'
<1>a. \A u \in Threads : u # t => job[u].pc \in {"idle", "attached", "attachUpdate"}
  BY WatcherAssumption DEF ThreadInv, CalmInv, Compare, At, Idle, Threads
<1>b. /\ job[t].pc = "compare" /\ \A u \in Threads : u # t => job'[u] = job[u]
      /\ UNCHANGED <<events, writing, file, watched, subscribers, seen, mainAt, toCome>>
      /\ \/ job[t].cfg = lastConfig /\ job'[t].pc = "idle" /\ UNCHANGED <<lastConfig, version>>
         \/ lastConfig' = job[t].cfg /\ version' = version + 1 /\ job'[t].pc = "copy"
  <2>1. CASE job[t].cfg = lastConfig
    BY <2>1, GoFacts DEF Compare, At, ThreadInv, Idle, fileVars
  <2>2. CASE job[t].cfg # lastConfig
    BY <2>2, GoFacts DEF Compare, At, ThreadInv, fileVars
  <2> QED BY <2>1, <2>2
<1>c. mainAt \notin BeforeWatch /\ (mainAt = "loading" => t = Main)
  BY <1>a, <1>b DEF ThreadInv, CalmInv, Idle, Threads
<1>1. CalmInv'
  <2> QED BY <1>b, <1>c, WatcherAssumption DEF CalmInv, Threads
<1>2. ListInv'
  <2>3. (Attaching' <=> Attaching) /\ (Attaching => job'[Main] = job[Main])
    BY <1>b DEF Attaching, Threads
  <2> QED BY <1>b, <2>3 DEF ListInv, Leads
<1>3. VersionInv'
  <2>3. (Attaching' <=> Attaching) /\ (Attaching => job'[Main] = job[Main])
    BY <1>b DEF Attaching, Threads
  <2>4. version' \in Nat /\ 0..version \subseteq 0..version'
    BY <1>b DEF VersionInv
  <2>5. \A u \in Threads : job'[u].pc \notin {"notify", "update"}
    BY <1>a, <1>b
  <2> QED BY <1>b, <2>3, <2>4, <2>5 DEF VersionInv, Attaching
<1>4. FileInv'
  <2>3. \A u \in Threads : job'[u].pc \notin {"load", "compare"}
    BY <1>a, <1>b
  <2> QED BY <1>b, <1>c, <2>3 DEF FileInv
<1>5. DeliveryInv'
  <2>3. (Attaching' <=> Attaching) /\ (Attaching => job'[Main] = job[Main])
    BY <1>b DEF Attaching, Threads
  <2>4. \A u \in Threads : job'[u].pc \notin {"current", "notify", "update"}
    BY <1>a, <1>b
  <2>5. CASE job'[t].pc = "copy"
    <3>1. job'[Main].pc = "attachUpdate" => t = Io
      BY <2>5 DEF Threads
    <3> QED BY <1>b, <1>c, <2>4, <2>5, <3>1 DEF DeliveryInv
  <2>6. CASE job[t].cfg = lastConfig /\ job'[t].pc = "idle" /\ UNCHANGED <<lastConfig, version>>
    <3>1. \A u \in Threads : job[u].pc \notin {"copy", "current", "notify", "update"}
      BY <1>a, <1>b
    <3>2. job'[Main].pc = "attachUpdate" => job'[Main].cfg = lastConfig'
      BY <1>b, <2>3, <2>6, <3>1 DEF DeliveryInv, Threads
    <3>3. \A k \in 1..Len(subscribers) : (Clean(k) => Has(k)) => (Clean(k)' => Has(k)')
      BY <1>b, <2>3, <2>6 DEF Clean, Has
    <3> HIDE DEF Clean, Has, Rest
    <3> QED BY <1>b, <1>c, <2>4, <3>1, <3>2, <3>3 DEF DeliveryInv
  <2> QED BY <1>b, <2>5, <2>6
<1> QED BY <1>1, <1>2, <1>3, <1>4, <1>5

(* The list is copied while nobody is being attached.                      *)
LEMMA CopySubscribersCalm ==
  ASSUME ~EditDuringStart, ThreadInv, ThreadInv', CalmInv, ListInv, VersionInv, FileInv,
         DeliveryInv, NEW t \in Threads,
         CopySubscribers(t),
         UNCHANGED <<debugVars, mainAt, ioAlive, toCome>>
  PROVE  CalmInv' /\ ListInv' /\ VersionInv' /\ FileInv' /\ DeliveryInv'
<1>a. \A u \in Threads : u # t => job[u].pc \in {"idle", "attached", "attachUpdate"}
  BY WatcherAssumption DEF ThreadInv, CalmInv, CopySubscribers, At, Idle,
     Threads
<1>b. /\ ~Attaching /\ ~Attaching'
      /\ job'[t].pc = "current" /\ job'[t].active = subscribers
      /\ \A u \in Threads : u # t => job'[u] = job[u]
      /\ UNCHANGED <<subscribers, seen, lastConfig, mainAt, toCome>>
  <2>1. ~Attaching /\ Go(t, [pc |-> "current", active |-> subscribers])
    BY WatcherAssumption DEF CopySubscribers, ThreadInv, Threads
  <2> QED BY <2>1, GoFacts DEF CopySubscribers, ThreadInv, Threads, Attaching
<1>1. CalmInv'
  BY WatcherAssumption DEF CalmInv, CopySubscribers, At, Go, Ending,
     watcherVars, fileVars, Idle
<1>2. ListInv'
  BY WatcherAssumption, ControlAssumption DEF ThreadInv, ListInv, Leads,
     CopySubscribers, At, Go, watcherVars, Threads
<1>3. VersionInv'
  BY WatcherAssumption DEF ThreadInv, CalmInv, ListInv, VersionInv,
     CopySubscribers, At, Go, watcherVars, Threads
<1>4. FileInv'
  BY WatcherAssumption DEF CalmInv, FileInv, CopySubscribers, At, Go, Ending,
     watcherVars, fileVars
<1>5. DeliveryInv'
  <2>2. mainAt \notin BeforeWatch
    BY WatcherAssumption DEF CopySubscribers, At, ThreadInv, CalmInv,
       BeforeWatch, Threads
  <2>3. mainAt \in {"loading", "run"} => Len(subscribers) \in Nat
    BY DEF ListInv
  <2>4. Len(subscribers) \in Nat => 0 \in 0..Len(subscribers) /\ Rest(t, 0)'
    BY <1>b DEF Rest
  <2> HIDE DEF Rest
  <2> QED BY <1>a, <1>b, <2>2, <2>3, <2>4 DEF DeliveryInv, Attaching
<1> QED BY <1>1, <1>2, <1>3, <1>4, <1>5

(* The configuration is copied; nobody can change it meanwhile.            *)
LEMMA CopyCurrentCalm ==
  ASSUME ~EditDuringStart, ThreadInv, ThreadInv', CalmInv, ListInv, VersionInv, FileInv,
         DeliveryInv, NEW t \in Threads,
         CopyCurrent(t),
         UNCHANGED <<debugVars, mainAt, ioAlive, toCome>>
  PROVE  CalmInv' /\ ListInv' /\ VersionInv' /\ FileInv' /\ DeliveryInv'
<1>a. \A u \in Threads : u # t => job[u].pc \in {"idle", "attached", "attachUpdate"}
  BY WatcherAssumption DEF ThreadInv, CalmInv, CopyCurrent, At, Idle, Threads
<1>b. /\ job[t].pc = "current" /\ \A u \in Threads : u # t => job'[u] = job[u]
      /\ UNCHANGED <<subscribers, seen, lastConfig, mainAt, toCome>>
      /\ \/ job[t].active = <<>> /\ job'[t].pc = "idle"
         \/ /\ job'[t].pc = "notify" /\ job'[t].active = job[t].active
            /\ job'[t].cfg = lastConfig
  <2>1. CASE job[t].active = <<>>
    BY <2>1, GoFacts DEF CopyCurrent, NotifyRest, At, ThreadInv, Idle
  <2>2. CASE job[t].active # <<>>
    BY <2>2, GoFacts DEF CopyCurrent, NotifyRest, At, ThreadInv
  <2> QED BY <2>1, <2>2
<1>c. mainAt \notin BeforeWatch
  BY <1>b, WatcherAssumption DEF ThreadInv, CalmInv, BeforeWatch, Threads
<1>d. (Attaching' <=> Attaching) /\ (Attaching => job'[Main] = job[Main])
  BY <1>b DEF Attaching, Threads
<1>e. \A k : Has(k)' <=> Has(k)
  BY <1>b, <1>d DEF Has
<1>f. \/ job'[t].pc = "idle"
      \/ job'[t].active = job[t].active /\ job[t].active # <<>>
  BY <1>b, GoFacts DEF CopyCurrent, NotifyRest, ThreadInv, Idle
<1>1. CalmInv'
  BY WatcherAssumption DEF CalmInv, CopyCurrent, At, Go, NotifyRest, Ending,
     watcherVars, fileVars, Idle
<1>2. ListInv'
  <2>1. ASSUME NEW u \in Threads, mainAt \notin Ending
        PROVE  /\ job'[u].pc \in {"current", "notify", "update"} => Leads(job[u].active)'
               /\ job'[u].pc \in {"notify", "update"} => job'[u].active # <<>>
    <3>1. CASE u = t
      <4>1. Leads(job[t].active)
        BY <1>b, <2>1 DEF ListInv
      <4>2. CASE job'[t].pc = "idle"
        BY <3>1, <4>2
      <4>3. CASE job'[t].active = job[t].active /\ job[t].active # <<>>
        BY <1>b, <1>d, <3>1, <4>1, <4>3 DEF Leads
      <4> QED BY <1>f, <4>2, <4>3
    <3>2. CASE u # t
      BY <1>a, <1>b, <3>2
    <3> QED BY <3>1, <3>2
  <2> QED BY <1>b, <1>d, <2>1 DEF ListInv
<1>3. VersionInv'
  BY WatcherAssumption DEF ThreadInv, CalmInv, ListInv, VersionInv,
     CopyCurrent, At, Go, NotifyRest, watcherVars, Threads, Idle
<1>4. FileInv'
  BY WatcherAssumption DEF CalmInv, FileInv, CopyCurrent, At, Go, NotifyRest,
     Ending, watcherVars, fileVars, Idle
<1>5. DeliveryInv'
  <2>6. CASE job'[t].pc = "idle"
    <3>1. mainAt \in {"loading", "run"} => \A k \in 1..Len(subscribers) : Clean(k)' => Has(k)'
      <4>1. SUFFICES ASSUME mainAt \in {"loading", "run"}, NEW k \in 1..Len(subscribers), Clean(k)
                     PROVE  Has(k)
        BY <1>b, <1>e DEF Clean
      <4>2. PICK m \in 0..Len(subscribers) : Rest(t, m)
        BY <1>b, <4>1 DEF DeliveryInv
      <4> QED BY <1>b, <2>6, <4>1, <4>2 DEF Rest
    <3> HIDE DEF Clean, Has, Rest
    <3> QED BY <1>a, <1>b, <1>c, <1>d, <2>6, <3>1 DEF DeliveryInv, Threads
  <2>7. CASE job'[t].pc = "notify"
    <3>1. ASSUME NEW m \in 0..Len(subscribers), Rest(t, m) PROVE Rest(t, m)'
      BY <1>b, <1>e, <2>7, <3>1, RestKept
    <3> HIDE DEF Clean, Has, Rest
    <3> QED BY <1>a, <1>b, <1>c, <1>d, <2>7, <3>1 DEF DeliveryInv, Threads
  <2> QED BY <1>b, <2>6, <2>7
<1> QED BY <1>1, <1>2, <1>3, <1>4, <1>5

(* update is called: for the debug server start begins, once.              *)
LEMMA DeliverUpdateCalm ==
  ASSUME ~EditDuringStart, ThreadInv, ThreadInv', CalmInv, ListInv, VersionInv, FileInv,
         DeliveryInv, NEW t \in Threads,
         DeliverUpdate(t)
  PROVE  CalmInv' /\ ListInv' /\ VersionInv' /\ FileInv' /\ DeliveryInv'
<1>a. \A u \in Threads : u # t => job[u].pc \in {"idle", "attached", "attachUpdate"}
  BY WatcherAssumption DEF ThreadInv, CalmInv, DeliverUpdate, CallUpdate, At,
     Idle, Threads
<1>b. /\ job[t].pc = "notify" /\ \A u \in Threads : u # t => job'[u] = job[u]
      /\ job'[t].pc = "update" /\ job'[t].active = job[t].active
      /\ job'[t].cfg = job[t].cfg /\ job'[t].ver = job[t].ver
      /\ seen' = [seen EXCEPT ![Head(job[t].active)] = [cfg |-> job[t].cfg, ver |-> job[t].ver]]
      /\ UNCHANGED <<subscribers, lastConfig, version, mainAt, toCome>>
  <2>1. PICK j : j = [job[t] EXCEPT !.pc = "update"]
    OBVIOUS
  <2>2. j.pc = "update" /\ j.active = job[t].active /\ j.cfg = job[t].cfg /\ j.ver = job[t].ver
    BY <2>1, CallFields DEF DeliverUpdate, CallUpdate, At
  <2>3. job'[t] = j /\ \A u \in Threads : u # t => job'[u] = job[u]
    BY <2>1, GoFacts DEF DeliverUpdate, CallUpdate, ThreadInv
  <2> QED BY <2>2, <2>3 DEF DeliverUpdate, CallUpdate, At
<1>c. mainAt \notin BeforeWatch
  BY <1>b, WatcherAssumption DEF ThreadInv, CalmInv, BeforeWatch, Threads
<1>d. (Attaching' <=> Attaching) /\ (Attaching => job'[Main] = job[Main])
  BY <1>b DEF Attaching, Threads
<1>e. \A s \in Subscribers :
        \/ seen'[s] = seen[s] /\ s # Head(job[t].active)
        \/ s = Head(job[t].active) /\ seen'[s] = [cfg |-> job[t].cfg, ver |-> job[t].ver]
  BY <1>b DEF VersionInv
<1>1. CalmInv'
  BY WatcherAssumption DEF CalmInv, DeliverUpdate, CallUpdate, At, Go, Ending,
     watcherVars, fileVars, Idle
<1>2. ListInv'
  BY WatcherAssumption, ControlAssumption, SMTT(30) DEF ThreadInv, ListInv, Leads,
     DeliverUpdate, CallUpdate, At, Go, watcherVars, Threads
<1>3. VersionInv'
  <2>5. seen' = [s \in Subscribers |-> seen'[s]]
    BY <1>b DEF VersionInv
  <2>6. \A s \in Subscribers : seen'[s].ver \in 0..version'
    BY <1>b, <1>e DEF VersionInv
  <2>7. ASSUME mainAt \notin Ending
        PROVE  /\ \A s \in toCome : s \in Subscribers /\ s # Head(job[t].active)
               /\ Attaching => job[Main].sub \in Subscribers /\ job[Main].sub # Head(job[t].active)
    <3>1. Leads(job[t].active) /\ job[t].active # <<>>
      BY <1>b, <2>7 DEF ListInv
    <3>2. 1 \in 1..Len(job[t].active) /\ Head(job[t].active) = job[t].active[1]
      BY <3>1 DEF Leads
    <3> QED BY <2>7, <3>1, <3>2, ControlAssumption DEF Leads, ListInv
  <2>8. mainAt' \notin Ending =>
          (\A s \in toCome' : seen'[s].ver = 0) /\ (Attaching' => (seen[job[Main].sub].ver)' = 0)
    BY <1>b, <1>d, <1>e, <2>7 DEF VersionInv
  <2>9. \A u \in Threads : job'[u].pc \in {"notify", "update"} => job'[u].ver = version'
    BY <1>a, <1>b DEF VersionInv
  <2>10. job'[Main].pc = "attachUpdate" => job'[Main].ver \in 0..version'
    BY <1>b DEF VersionInv, Threads
  <2> QED BY <1>b, <2>5, <2>6, <2>8, <2>9, <2>10 DEF VersionInv
<1>4. FileInv'
  BY WatcherAssumption DEF CalmInv, FileInv, DeliverUpdate, CallUpdate, At,
     Go, Ending, watcherVars, fileVars
<1>5. DeliveryInv'
  <2>5. CASE mainAt \in {"loading", "run"}
    <3>1. job[t].cfg = lastConfig /\ Leads(job[t].active) /\ job[t].active # <<>>
      BY <1>b, <2>5 DEF DeliveryInv, ListInv, Ending
    <3>2. Head(job[t].active) \in Subscribers
      BY <3>1 DEF Leads
    <3>3. seen'[Head(job[t].active)].cfg = lastConfig
      BY <1>e, <3>1, <3>2
    <3>4. \A k \in 1..Len(subscribers) : subscribers[k] \in Subscribers
      BY <2>5 DEF ListInv, Ending
    <3>5. \A k \in 1..Len(subscribers) : Has(k) => Has(k)'
      BY <1>b, <1>d, <1>e, <3>1, <3>4 DEF Has
    <3>6. ASSUME NEW m \in 0..Len(subscribers), Rest(t, m) PROVE Rest(t, m)'
      BY <1>b, <3>5, <3>6, RestKept
    <3> HIDE DEF Clean, Has, Rest
    <3> QED BY <1>a, <1>b, <1>c, <1>d, <2>5, <3>1, <3>3, <3>6 DEF DeliveryInv,
       Threads
  <2>6. CASE mainAt \notin {"loading", "run"}
    BY <1>b, <1>c, <1>d, <2>6 DEF DeliveryInv, Threads
  <2> QED BY <2>5, <2>6
<1> QED BY <1>1, <1>2, <1>3, <1>4, <1>5

(* update returns: the thread is one position further.                     *)
LEMMA DeliveryReturnsCalm ==
  ASSUME ~EditDuringStart, ThreadInv, ThreadInv', CalmInv, ListInv, VersionInv, FileInv,
         DeliveryInv, NEW t \in Threads,
         DeliveryReturns(t)
  PROVE  CalmInv' /\ ListInv' /\ VersionInv' /\ FileInv' /\ DeliveryInv'
<1>a. \A u \in Threads : u # t => job[u].pc \in {"idle", "attached", "attachUpdate"}
  BY WatcherAssumption DEF ThreadInv, CalmInv, DeliveryReturns, UpdateReturns,
     At, Idle, Threads
<1>b. /\ job[t].pc = "update" /\ \A u \in Threads : u # t => job'[u] = job[u]
      /\ UNCHANGED <<subscribers, seen, lastConfig, version, mainAt, toCome>>
      /\ \/ Tail(job[t].active) = <<>> /\ job'[t].pc = "idle"
         \/ /\ job'[t].pc = "notify" /\ job'[t].active = Tail(job[t].active)
            /\ Tail(job[t].active) # <<>>
            /\ job'[t].cfg = job[t].cfg /\ job'[t].ver = job[t].ver
  <2>1. PICK j : j = [job[t] EXCEPT !.pc = "notify", !.active = Tail(@)]
    OBVIOUS
  <2>2. /\ j.pc = "notify" /\ j.active = Tail(job[t].active)
        /\ j.cfg = job[t].cfg /\ j.ver = job[t].ver
    BY <2>1, ReturnFields DEF DeliveryReturns, UpdateReturns, At, ThreadInv
  <2>3. job'[t] = NotifyRest(j) /\ \A u \in Threads : u # t => job'[u] = job[u]
    BY <2>1, GoFacts DEF DeliveryReturns, UpdateReturns, ThreadInv
  <2>4. CASE Tail(job[t].active) = <<>>
    BY <2>2, <2>3, <2>4, SMTT(30) DEF DeliveryReturns, UpdateReturns, At, NotifyRest,
       Idle
  <2>5. CASE Tail(job[t].active) # <<>>
    <3>1. NotifyRest(j) = j
      BY <2>2, <2>5 DEF NotifyRest
    <3> QED BY <2>2, <2>3, <2>5, <3>1 DEF DeliveryReturns, UpdateReturns, At
  <2> QED BY <2>4, <2>5
<1>c. mainAt \notin BeforeWatch
  BY <1>b, WatcherAssumption DEF ThreadInv, CalmInv, BeforeWatch, Threads
<1>d. (Attaching' <=> Attaching) /\ (Attaching => job'[Main] = job[Main])
  BY <1>b DEF Attaching, Threads
<1>e. \A k : Has(k)' <=> Has(k)
  BY <1>b, <1>d DEF Has
<1>1. CalmInv'
  BY WatcherAssumption DEF CalmInv, DeliveryReturns, UpdateReturns, At, Go,
     NotifyRest, Ending, watcherVars, fileVars, Idle
<1>2. ListInv'
  <2>5. ASSUME mainAt \notin Ending, job'[t].pc = "notify" PROVE Leads(job[t].active)'
    <3>1. Leads(job[t].active) /\ job[t].active # <<>>
      BY <1>b, <2>5 DEF ListInv
    <3>2. /\ Tail(job[t].active) \in Seq(Subscribers)
          /\ \A k \in 1..Len(Tail(job[t].active)) :
               k + 1 \in 1..Len(job[t].active) /\ Tail(job[t].active)[k] = job[t].active[k + 1]
      BY <3>1, TailFacts DEF Leads
    <3>3. job'[t].active = Tail(job[t].active)
      BY <1>b, <2>5
    <3> QED BY <1>b, <1>d, <2>5, <3>1, <3>2, <3>3 DEF Leads
  <2>6. ASSUME NEW u \in Threads, Leads(job[u].active), u # t PROVE Leads(job[u].active)'
    BY <1>b, <1>d, <2>6 DEF Leads
  <2> QED BY <1>a, <1>b, <1>d, <2>5, <2>6 DEF ListInv
<1>3. VersionInv'
  <2>1. \A u \in Threads : job'[u].pc \in {"notify", "update"} => job'[u].ver = version
    BY <1>b DEF VersionInv
  <2>2. job'[Main].pc = "attachUpdate" => job'[Main].ver \in 0..version
    BY <1>b DEF VersionInv, Threads
  <2> QED BY <1>b, <1>d, <2>1, <2>2 DEF VersionInv
<1>4. FileInv'
  BY WatcherAssumption DEF CalmInv, FileInv, DeliveryReturns, UpdateReturns,
     At, Go, NotifyRest, BeforeWatch, Ending, Attaching, watcherVars,
     fileVars, Idle
<1>5. DeliveryInv'
  <2>6. CASE job'[t].pc = "idle"
    <3>1. mainAt \in {"loading", "run"} => \A k \in 1..Len(subscribers) : Clean(k)' => Has(k)'
      <4>1. SUFFICES ASSUME mainAt \in {"loading", "run"}, NEW k \in 1..Len(subscribers), Clean(k)
                     PROVE  Has(k)
        BY <1>b, <1>e DEF Clean
      <4>2. PICK m \in 0..Len(subscribers) : Rest(t, m)
        BY <1>b, <4>1 DEF DeliveryInv
      <4>3. job[t].active \in Seq(Subscribers) /\ job[t].active # <<>>
        BY <1>b, <4>1 DEF ListInv, Leads, Ending
      <4>4. /\ Head(job[t].active) = subscribers[m + 1] /\ m + 1 \in 1..Len(subscribers)
            /\ seen[Head(job[t].active)].cfg = lastConfig
        BY <1>b, <4>1, <4>2, <4>3 DEF Rest, DeliveryInv
      <4>5. Len(job[t].active) = 1
        <5>1. Tail(job[t].active) = <<>>
          BY <1>b, <2>6
        <5> QED BY <4>3, <5>1, TailFacts
      <4> QED BY <4>1, <4>2, <4>4, <4>5 DEF Rest, Has
    <3> HIDE DEF Clean, Has, Rest
    <3> QED BY <1>a, <1>b, <1>c, <1>d, <2>6, <3>1 DEF DeliveryInv, Threads
  <2>7. CASE job'[t].pc = "notify"
    <3>1. ASSUME mainAt \in {"loading", "run"}, NEW m \in 0..Len(subscribers), Rest(t, m)
          PROVE  m + 1 \in 0..Len(subscribers) /\ Rest(t, m + 1)'
      <4>1. job[t].active \in Seq(Subscribers) /\ job[t].active # <<>>
        BY <1>b, <3>1 DEF ListInv, Leads, Ending
      <4>2. /\ job'[t].active = Tail(job[t].active)
            /\ Len(job'[t].active) = Len(job[t].active) - 1
            /\ \A i \in 1..Len(job'[t].active) :
                 i + 1 \in 1..Len(job[t].active) /\ job'[t].active[i] = job[t].active[i + 1]
        <5>1. job'[t].active = Tail(job[t].active)
          BY <1>b, <2>7
        <5> QED BY <4>1, <5>1, TailFacts
      <4>3. /\ Head(job[t].active) = subscribers[m + 1] /\ m + 1 \in 1..Len(subscribers)
            /\ seen[Head(job[t].active)].cfg = lastConfig
        BY <1>b, <3>1, <4>1 DEF Rest, DeliveryInv
      <4>4. Has(m + 1)
        BY <4>3 DEF Has
      <4>a. Len(job[t].active) \in Nat /\ Len(subscribers) \in Nat
        BY <3>1, <4>1 DEF ListInv
      <4>5. /\ (m + 1) + Len(job'[t].active) <= Len(subscribers)
            /\ \A i \in 1..Len(job'[t].active) : job'[t].active[i] = subscribers[(m + 1) + i]
        <5>1. m + Len(job[t].active) <= Len(subscribers)
          BY <3>1 DEF Rest
        <5>2. ASSUME NEW i \in 1..Len(job'[t].active)
              PROVE  job'[t].active[i] = subscribers[(m + 1) + i]
          <6>1. job[t].active[i + 1] = subscribers[m + (i + 1)]
            BY <3>1, <4>2 DEF Rest
          <6>2. m + (i + 1) = (m + 1) + i
            BY <4>2, <4>a
          <6> QED BY <4>2, <6>1, <6>2
        <5>3. Len(job'[t].active) = Len(job[t].active) - 1
          BY <4>2
        <5>4. (m + 1) + Len(job'[t].active) <= Len(subscribers)
          <6>1. m \in Nat
            BY <4>a
          <6>2. Len(job'[t].active) \in Int
            BY <4>a, <5>3
          <6> QED BY <4>a, <5>1, <5>3, <6>1, <6>2, NextFits
        <5> QED BY <5>2, <5>4, Zenon
      <4>6. \A k \in 1..Len(subscribers) :
              Clean(k)' => Has(k)' \/ k \in ((m + 1) + 1)..((m + 1) + Len(job'[t].active))
        <5>1. SUFFICES ASSUME NEW k \in 1..Len(subscribers), Clean(k), ~Has(k)
                       PROVE  k \in ((m + 1) + 1)..((m + 1) + Len(job'[t].active))
          BY <1>b, <1>e DEF Clean
        <5>2. k \in (m + 1)..(m + Len(job[t].active)) /\ k # m + 1
          BY <3>1, <4>4, <5>1 DEF Rest
        <5>3. PICK n : n = Len(job'[t].active)
          OBVIOUS
        <5>4. n = Len(job[t].active) - 1
          BY <4>2, <5>3
        <5>6. PICK len \in Nat : len = Len(job[t].active)
          BY <4>a
        <5>7. m \in Nat
          BY <4>a
        <5>5. k \in ((m + 1) + 1)..((m + 1) + (len - 1))
          <6>1. k \in (m + 1)..(m + len) /\ k # m + 1
            BY <5>2, <5>6, Zenon
          <6> QED BY <6>1, <5>7, NextPosition
        <5> QED BY <5>3, <5>4, <5>5, <5>6
      <4>7. m + 1 \in 0..Len(subscribers)
        BY <4>3, <4>a
      <4> QED BY <1>b, <4>5, <4>6, <4>7 DEF Rest
    <3> HIDE DEF Clean, Has, Rest
    <3>2. mainAt' \in {"loading", "run"} => \E m \in 0..Len(subscribers') : Rest(t, m)'
      BY <1>b, <3>1 DEF DeliveryInv
    <3> QED BY <1>a, <1>b, <1>c, <1>d, <2>7, <3>2 DEF DeliveryInv, Threads
  <2> QED BY <1>b, <2>6, <2>7
<1> QED BY <1>1, <1>2, <1>3, <1>4, <1>5

(* update throws: those behind the thrower are not Clean.                  *)
LEMMA DeliveryThrowsCalm ==
  ASSUME ~EditDuringStart, ThreadInv, ThreadInv', CalmInv, ListInv, VersionInv, FileInv,
         DeliveryInv, NEW t \in Threads,
         DeliveryThrows(t)
  PROVE  CalmInv' /\ ListInv' /\ VersionInv' /\ FileInv' /\ DeliveryInv'
<1>a. \A u \in Threads : u # t => job[u].pc \in {"idle", "attached", "attachUpdate"}
  BY WatcherAssumption DEF ThreadInv, CalmInv, DeliveryThrows, UpdateThrows,
     At, Idle, Threads
<1>b. /\ job[t].pc = "update" /\ \A u \in Threads : u # t => job'[u] = job[u]
      /\ job'[t].pc = "idle" /\ Head(job[t].active) \in Throwing
      /\ UNCHANGED <<subscribers, seen, lastConfig, version, mainAt, toCome>>
  BY GoFacts DEF DeliveryThrows, UpdateThrows, At, ThreadInv, Idle
<1>c. mainAt \notin BeforeWatch
  BY <1>b, WatcherAssumption DEF ThreadInv, CalmInv, BeforeWatch, Threads
<1>d. (Attaching' <=> Attaching) /\ (Attaching => job'[Main] = job[Main])
  BY <1>b DEF Attaching, Threads
<1>e. \A k : Has(k)' <=> Has(k)
  BY <1>b, <1>d DEF Has
<1>1. CalmInv'
  BY WatcherAssumption DEF CalmInv, DeliveryThrows, UpdateThrows, At, Go,
     Ending, watcherVars, fileVars
<1>2. ListInv'
  BY WatcherAssumption, ControlAssumption DEF ThreadInv, ListInv, Leads,
     DeliveryThrows, UpdateThrows, At, Go, watcherVars, Threads, Idle
<1>3. VersionInv'
  BY WatcherAssumption DEF ThreadInv, CalmInv, ListInv, VersionInv,
     DeliveryThrows, UpdateThrows, At, Go, watcherVars, Threads, Idle
<1>4. FileInv'
  BY WatcherAssumption DEF CalmInv, FileInv, DeliveryThrows, UpdateThrows, At,
     Go, Ending, watcherVars, fileVars, Idle
<1>5. DeliveryInv'
  <2>6. job'[t].pc = "idle"
    BY <1>b
  <2>7. mainAt \in {"loading", "run"} => \A k \in 1..Len(subscribers) : Clean(k)' => Has(k)'
    <3>1. SUFFICES ASSUME mainAt \in {"loading", "run"}, NEW k \in 1..Len(subscribers), Clean(k)
                   PROVE  Has(k)
      BY <1>b, <1>e DEF Clean
    <3>2. PICK m \in 0..Len(subscribers) : Rest(t, m)
      BY <1>b, <3>1 DEF DeliveryInv
    <3>3. job[t].active \in Seq(Subscribers) /\ job[t].active # <<>>
      BY <1>b, <3>1 DEF ListInv, Leads, Ending
    <3>4. /\ Head(job[t].active) = subscribers[m + 1] /\ m + 1 \in 1..Len(subscribers)
          /\ seen[Head(job[t].active)].cfg = lastConfig
      BY <1>b, <3>1, <3>2, <3>3 DEF Rest, DeliveryInv
    <3>5. k <= m + 1
      BY <1>b, <3>1, <3>4 DEF Clean
    <3> QED BY <3>1, <3>2, <3>4, <3>5 DEF Rest, Has
  <2> HIDE DEF Clean, Has, Rest
  <2> QED BY <1>a, <1>b, <1>c, <1>d, <2>6, <2>7 DEF DeliveryInv, Threads

<1> QED BY <1>1, <1>2, <1>3, <1>4, <1>5

(* attach copies the configuration, under the mutex.                       *)
LEMMA AttachCopyCalm ==
  ASSUME ~EditDuringStart, ThreadInv, ThreadInv', CalmInv, ListInv, VersionInv, FileInv,
         DeliveryInv,
         AttachCopy,
         UNCHANGED <<debugVars, mainAt, ioAlive, toCome>>
  PROVE  CalmInv' /\ ListInv' /\ VersionInv' /\ FileInv' /\ DeliveryInv'
<1>b. /\ job[Main].pc = "attached" /\ job'[Main].pc = "attachUpdate"
      /\ job'[Main].sub = job[Main].sub /\ job'[Main].cfg = lastConfig /\ job'[Io] = job[Io]
      /\ UNCHANGED <<subscribers, seen, lastConfig, version, mainAt, toCome>>
  BY GoFacts, WatcherAssumption DEF AttachCopy, At, ThreadInv, Threads
<1>1. CalmInv'
  BY WatcherAssumption DEF ThreadInv, CalmInv, AttachCopy, At, Go,
     BeforeWatch, Attaching, watcherVars
<1>2. ListInv'
  BY WatcherAssumption, ControlAssumption DEF ThreadInv, ListInv, Leads,
     AttachCopy, At, Go, watcherVars, Threads
<1>3. VersionInv'
  BY WatcherAssumption DEF ThreadInv, CalmInv, ListInv, VersionInv,
     AttachCopy, At, Go, watcherVars, Threads
<1>4. FileInv'
  BY WatcherAssumption DEF CalmInv, FileInv, AttachCopy, At, Go, Ending,
     watcherVars, fileVars
<1>5. DeliveryInv'
  <2>2. mainAt = "run"
    BY <1>b DEF ThreadInv, Attaching
  <2>3. \A k : Has(k) => Has(k)'
    BY <1>b DEF Has, Attaching
  <2>4. \A k \in 1..Len(subscribers) : (Clean(k) => Has(k)) => (Clean(k)' => Has(k)')
    BY <1>b, <2>3 DEF Clean
  <2>5. ASSUME NEW m \in 0..Len(subscribers), Rest(Io, m) PROVE Rest(Io, m)'
    BY <1>b, <2>3, <2>5, RestKept
  <2> HIDE DEF Clean, Has, Rest
  <2> QED BY <1>b, <2>2, <2>4, <2>5 DEF DeliveryInv, Threads
<1> QED BY <1>1, <1>2, <1>3, <1>4, <1>5

(* attach calls the subscriber, which nobody has called before.            *)
LEMMA AttachUpdateCalm ==
  ASSUME ~EditDuringStart, ThreadInv, ThreadInv', CalmInv, ListInv, VersionInv, FileInv,
         DeliveryInv,
         AttachUpdate,
         UNCHANGED <<debugVars, mainAt, ioAlive, toCome>>
  PROVE  CalmInv' /\ ListInv' /\ VersionInv' /\ FileInv' /\ DeliveryInv'
<1>b. /\ job[Main].pc = "attachUpdate" /\ job'[Main].pc = "idle" /\ job'[Io] = job[Io]
      /\ seen' = [seen EXCEPT ![job[Main].sub] = [cfg |-> job[Main].cfg, ver |-> job[Main].ver]]
      /\ UNCHANGED <<subscribers, lastConfig, version, mainAt, toCome>>
  BY GoFacts, WatcherAssumption DEF AttachUpdate, At, ThreadInv, Threads, Idle
<1>1. CalmInv'
  BY WatcherAssumption DEF ThreadInv, CalmInv, AttachUpdate, At, Go,
     BeforeWatch, Attaching, watcherVars
<1>2. ListInv'
  BY WatcherAssumption, ControlAssumption DEF ThreadInv, ListInv, Leads,
     AttachUpdate, At, Go, BeforeWatch, Attaching, watcherVars, Threads
<1>3. VersionInv'
  BY WatcherAssumption DEF ThreadInv, CalmInv, ListInv, VersionInv,
     AttachUpdate, At, Go, BeforeWatch, Attaching, watcherVars, Threads
<1>4. FileInv'
  BY WatcherAssumption DEF ThreadInv, CalmInv, FileInv, AttachUpdate, At, Go,
     Ending, watcherVars, fileVars, Threads
<1>5. DeliveryInv'
  <2>2. mainAt = "run" /\ Attaching
    BY <1>b DEF ThreadInv, Attaching
  <2>3. \A s \in Subscribers :
          \/ seen'[s] = seen[s] /\ s # job[Main].sub
          \/ s = job[Main].sub /\ seen'[s] = [cfg |-> job[Main].cfg, ver |-> job[Main].ver]
    BY <1>b DEF VersionInv
  <2>4. CASE job[Io].pc = "copy"
    BY <1>b, <2>2, <2>4 DEF DeliveryInv, BeforeWatch, Threads
  <2>5. CASE job[Io].pc # "copy"
    <3>1. job[Main].cfg = lastConfig
      BY <1>b, <2>5 DEF DeliveryInv
    <3>2. \A k \in 1..Len(subscribers) : subscribers[k] \in Subscribers
      BY <2>2 DEF ListInv, Ending
    <3>3. \A k \in 1..Len(subscribers) : Has(k) => Has(k)'
      BY <1>b, <2>3, <3>1, <3>2 DEF Has
    <3>4. \A k \in 1..Len(subscribers) : (Clean(k) => Has(k)) => (Clean(k)' => Has(k)')
      BY <1>b, <3>3 DEF Clean
    <3>5. ASSUME NEW m \in 0..Len(subscribers), Rest(Io, m) PROVE Rest(Io, m)'
      BY <1>b, <3>3, <3>5, RestKept
    <3>6. ASSUME job[Io].pc = "update" PROVE (seen[Head(job[Io].active)].cfg)' = lastConfig
      <4>1. Leads(job[Io].active) /\ job[Io].active # <<>>
        BY <2>2, <3>6 DEF ListInv, Ending, Threads
      <4>2. Head(job[Io].active) \in Subscribers
        BY <4>1 DEF Leads
      <4> QED BY <1>b, <2>2, <2>3, <3>1, <3>6, <4>2 DEF DeliveryInv, Threads
    <3> HIDE DEF Clean, Has, Rest
    <3> QED BY <1>b, <2>2, <3>4, <3>5, <3>6 DEF DeliveryInv, BeforeWatch,
       Threads
  <2> QED BY <2>4, <2>5
<1> QED BY <1>1, <1>2, <1>3, <1>4, <1>5

(* The io thread takes an event and will read the file.                    *)
LEMMA OnChangeCalm ==
  ASSUME ~EditDuringStart, ThreadInv, ThreadInv', CalmInv, ListInv, VersionInv, FileInv,
         DeliveryInv,
         OnChange,
         UNCHANGED <<debugVars, mainAt, ioAlive, toCome>>
  PROVE  CalmInv' /\ ListInv' /\ VersionInv' /\ FileInv' /\ DeliveryInv'
<1>1. CalmInv'
  BY WatcherAssumption DEF CalmInv, OnChange, At, Go, watcherVars
<1>2. ListInv'
  BY WatcherAssumption, ControlAssumption DEF ThreadInv, ListInv, Leads,
     OnChange, At, Go, watcherVars, Threads
<1>3. VersionInv'
  BY WatcherAssumption DEF ThreadInv, CalmInv, ListInv, VersionInv, OnChange,
     At, Go, watcherVars, Threads
<1>4. FileInv'
  BY WatcherAssumption DEF ThreadInv, CalmInv, FileInv, OnChange, At, Go,
     watcherVars, Threads
<1>5. DeliveryInv'
  BY IdleMoveDelivery DEF OnChange, At, Idle, Threads
<1> QED BY <1>1, <1>2, <1>3, <1>4, <1>5

(* Every edit ends in an event, since the file is watched.                 *)
LEMMA EditCalm ==
  ASSUME ~EditDuringStart, ThreadInv, ThreadInv', CalmInv, ListInv, VersionInv, FileInv,
         DeliveryInv,
         EditDuringStart \/ mainAt = "run", EditStep,
         UNCHANGED <<debugVars, mainAt, ioAlive, toCome>>
  PROVE  CalmInv' /\ ListInv' /\ VersionInv' /\ FileInv' /\ DeliveryInv'
<1>1. CalmInv'
  BY WatcherAssumption DEF CalmInv, EditStep, Truncate, WriteAndClose,
     MoveOver, BeforeWatch, Attaching, watcherVars
<1>2. ListInv'
  BY WatcherAssumption, ControlAssumption DEF ThreadInv, ListInv, Leads,
     EditStep, Truncate, WriteAndClose, MoveOver, watcherVars, Threads
<1>3. VersionInv'
  BY WatcherAssumption DEF ThreadInv, CalmInv, ListInv, VersionInv, EditStep,
     Truncate, WriteAndClose, MoveOver, watcherVars, Threads
<1>4. FileInv'
  BY WatcherAssumption DEF CalmInv, FileInv, EditStep, Truncate,
     WriteAndClose, MoveOver, watcherVars
<1>5. DeliveryInv'
  BY DeliveryKept DEF EditStep, Truncate, WriteAndClose, MoveOver, watcherVars
<1> QED BY <1>1, <1>2, <1>3, <1>4, <1>5

(* A step of the debug server or of the io loop alone.                     *)
LEMMA SameCalm ==
  ASSUME ~EditDuringStart, ThreadInv, ThreadInv', CalmInv, ListInv, VersionInv, FileInv,
         DeliveryInv,
         UNCHANGED <<watcherVars, mainAt, toCome>>
  PROVE  CalmInv' /\ ListInv' /\ VersionInv' /\ FileInv' /\ DeliveryInv'
<1>1. CalmInv'
  BY WatcherAssumption DEF CalmInv, Ending, watcherVars, fileVars
<1>2. ListInv'
  BY WatcherAssumption, ControlAssumption DEF ThreadInv, ListInv, Leads,
     watcherVars, Threads
<1>3. VersionInv'
  BY WatcherAssumption DEF ThreadInv, CalmInv, ListInv, VersionInv,
     watcherVars, Threads
<1>4. FileInv'
  BY WatcherAssumption DEF CalmInv, FileInv, Ending, watcherVars, fileVars
<1>5. DeliveryInv'
  BY DeliveryKept DEF watcherVars
<1> QED BY <1>1, <1>2, <1>3, <1>4, <1>5

-----------------------------------------------------------------------------
(* Every step keeps the invariant of the threads and of the acceptor.      *)
LEMMA BaseStep ==
  ASSUME ThreadInv, StartInv, AcceptInv, [ControlNext]_controlVars
  PROVE  ThreadInv' /\ StartInv' /\ AcceptInv'
<1>1. CASE MainAttach
  BY <1>1, MainAttachBase
<1>2. CASE MainDebugAttach
  BY <1>2, MainDebugAttachBase
<1>3. CASE MainDebugStart
  BY <1>3, MainDebugStartBase
<1>4. CASE MainDebugThrows
  BY <1>4, MainDebugThrowsBase
<1>5. CASE MainWatch(TRUE) \/ MainWatch(FALSE)
  BY <1>5, MainWatchBase
<1>6. CASE MainRun
  BY <1>6, MainRunBase
<1>7. CASE MainDetach
  BY <1>7, MainDetachBase
<1>8. CASE MainDebugStop
  BY <1>8, MainDebugStopBase
<1>9. CASE MainUnwatch
  BY <1>9, MainUnwatchBase
<1>10. CASE MainExit
  BY <1>10, MainExitBase
<1>11. CASE \E s \in LateSubs : LateAttach(s)
  BY <1>11, LateAttachBase
<1>12. CASE \E s \in LateSubs : LateDetach(s)
  BY <1>12, LateDetachBase
<1>13. CASE LateStep
  BY <1>13, AttachCopyBase, AttachUpdateBase DEF LateStep
<1>14. ASSUME NEW t \in Threads, LoadStep(t),
             UNCHANGED <<debugVars, mainAt, ioAlive, toCome>>
      PROVE  ThreadInv' /\ StartInv' /\ AcceptInv'
  BY <1>14, LoadConfigBase, CompareBase, CopySubscribersBase, CopyCurrentBase
     DEF LoadStep
<1>15. ASSUME NEW t \in Threads, DeliverUpdate(t)
      PROVE  ThreadInv' /\ StartInv' /\ AcceptInv'
  BY <1>15, DeliverUpdateBase
<1>16. ASSUME NEW t \in Threads, DeliveryReturns(t)
      PROVE  ThreadInv' /\ StartInv' /\ AcceptInv'
  BY <1>16, DeliveryReturnsBase
<1>17. ASSUME NEW t \in Threads, DeliveryThrows(t)
      PROVE  ThreadInv' /\ StartInv' /\ AcceptInv'
  BY <1>17, DeliveryThrowsBase
<1>18. ASSUME NEW t \in Threads, StartStep(t),
             UNCHANGED <<watcherVars, mainAt, ioAlive, toCome>>
      PROVE  ThreadInv' /\ StartInv' /\ AcceptInv'
  BY <1>18, DebugStartBase, DebugListenFailsBase, DebugListenBase,
     DebugAcceptBase DEF StartStep
<1>19. CASE IoStep
  BY <1>19, OnChangeBase, OnAcceptErrorBase, OnAcceptBase, OnReadBase DEF IoStep,
     DebugHandler
<1>20. CASE ServiceFileThrows
  BY <1>20, ServiceFileThrowsBase
<1>21. CASE EnvironmentStep
  BY <1>21, EditBase, ClientBase, AcceptFailsBase DEF EnvironmentStep
<1>22. CASE KernelStep
  BY <1>22, AcceptCompletesBase DEF KernelStep
<1>23. CASE UNCHANGED controlVars
  BY <1>23, StutterBase
<1> QED
  BY <1>1, <1>2, <1>3, <1>4, <1>5, <1>6, <1>7, <1>8, <1>9, <1>10, <1>11,
     <1>12, <1>13, <1>14, <1>15, <1>16, <1>17, <1>18, <1>19, <1>20, <1>21,
     <1>22, <1>23 DEF ControlNext, MainStep, ThreadStep

(* Every step keeps the other parts, if the file is left alone until       *)
(* main() is in its loop.                                                  *)
LEMMA CalmStep ==
  ASSUME ~EditDuringStart, ThreadInv, ThreadInv', CalmInv, ListInv, VersionInv, FileInv,
         DeliveryInv, [ControlNext]_controlVars
  PROVE  CalmInv' /\ ListInv' /\ VersionInv' /\ FileInv' /\ DeliveryInv'
<1>0. ~EditDuringStart
  OBVIOUS
<1>1. CASE MainAttach
  BY <1>1, <1>0, MainAttachCalm
<1>2. CASE MainDebugAttach
  BY <1>2, <1>0, MainDebugAttachCalm
<1>3. CASE MainDebugStart
  BY <1>3, <1>0, MainDebugStartCalm
<1>4. CASE MainDebugThrows
  BY <1>4, <1>0, MainDebugThrowsCalm
<1>5. CASE MainWatch(TRUE) \/ MainWatch(FALSE)
  BY <1>5, <1>0, MainWatchCalm
<1>6. CASE MainRun
  BY <1>6, <1>0, MainRunCalm
<1>7. CASE MainDetach
  BY <1>7, <1>0, MainDetachCalm
<1>8. CASE MainDebugStop
  BY <1>8, <1>0, MainDebugStopCalm
<1>9. CASE MainUnwatch
  BY <1>9, <1>0, MainUnwatchCalm
<1>10. CASE MainExit
  BY <1>10, <1>0, MainExitCalm
<1>11. CASE \E s \in LateSubs : LateAttach(s)
  BY <1>11, <1>0, LateAttachCalm
<1>12. CASE \E s \in LateSubs : LateDetach(s)
  BY <1>12, <1>0, LateDetachCalm
<1>13. CASE LateStep
  BY <1>13, <1>0, AttachCopyCalm, AttachUpdateCalm DEF LateStep
<1>14. ASSUME NEW t \in Threads, LoadStep(t),
             UNCHANGED <<debugVars, mainAt, ioAlive, toCome>>
      PROVE  CalmInv' /\ ListInv' /\ VersionInv' /\ FileInv' /\ DeliveryInv'
  BY <1>14, <1>0, LoadConfigCalm, CompareCalm, CopySubscribersCalm,
     CopyCurrentCalm DEF LoadStep
<1>15. ASSUME NEW t \in Threads, DeliverUpdate(t)
      PROVE  CalmInv' /\ ListInv' /\ VersionInv' /\ FileInv' /\ DeliveryInv'
  BY <1>15, <1>0, DeliverUpdateCalm
<1>16. ASSUME NEW t \in Threads, DeliveryReturns(t)
      PROVE  CalmInv' /\ ListInv' /\ VersionInv' /\ FileInv' /\ DeliveryInv'
  BY <1>16, <1>0, DeliveryReturnsCalm
<1>17. ASSUME NEW t \in Threads, DeliveryThrows(t)
      PROVE  CalmInv' /\ ListInv' /\ VersionInv' /\ FileInv' /\ DeliveryInv'
  BY <1>17, <1>0, DeliveryThrowsCalm
<1>18. ASSUME NEW t \in Threads, StartStep(t),
             UNCHANGED <<watcherVars, mainAt, ioAlive, toCome>>
      PROVE  CalmInv' /\ ListInv' /\ VersionInv' /\ FileInv' /\ DeliveryInv'
  BY <1>18, <1>0, SameCalm DEF StartStep
<1>19. CASE IoStep
  BY <1>19, <1>0, OnChangeCalm, SameCalm DEF IoStep, DebugHandler
<1>20. CASE ServiceFileThrows
  BY <1>20, <1>0, SameCalm DEF ServiceFileThrows
<1>21. CASE EnvironmentStep
  BY <1>21, <1>0, EditCalm, SameCalm DEF EnvironmentStep
<1>22. CASE KernelStep
  BY <1>22, <1>0, SameCalm DEF KernelStep
<1>23. CASE UNCHANGED controlVars
  BY <1>23, <1>0, SameCalm DEF controlVars
<1> QED
  BY <1>1, <1>2, <1>3, <1>4, <1>5, <1>6, <1>7, <1>8, <1>9, <1>10, <1>11,
     <1>12, <1>13, <1>14, <1>15, <1>16, <1>17, <1>18, <1>19, <1>20, <1>21,
     <1>22, <1>23 DEF ControlNext, MainStep, ThreadStep

(* The initial states.                                                     *)
LEMMA BaseInit == ControlInit => ThreadInv /\ StartInv /\ AcceptInv
<1> SUFFICES ASSUME ControlInit PROVE ThreadInv /\ StartInv /\ AcceptInv
  OBVIOUS
<1>1. ThreadInv
  BY WatcherAssumption DEF ControlInit, WatcherInit, ThreadInv, BeforeWatch,
     Attaching, Idle, Threads
<1>2. \A t \in Threads :
        /\ "pc" \in DOMAIN starting[t]
        /\ starting[t].pc \notin {"replace", "listen", "accept"}
  BY ControlAssumption, NotStartingPc DEF ControlInit, DebugInit
<1>3. starting = [t \in Threads |-> starting[t]]
  BY ControlAssumption DEF ControlInit, DebugInit
<1>4. AcceptInv
  BY DEF ControlInit, DebugInit, AcceptInv
<1> QED BY <1>1, <1>2, <1>3, <1>4 DEF StartInv

(* The same for the other parts.                                           *)
LEMMA CalmInit ==
  ControlInit => CalmInv /\ ListInv /\ VersionInv /\ FileInv /\ DeliveryInv
<1> SUFFICES ASSUME ControlInit
             PROVE  CalmInv /\ ListInv /\ VersionInv /\ FileInv /\ DeliveryInv
  OBVIOUS
<1>1. /\ \A t \in Threads : job[t] = Idle /\ job[t].pc = "idle"
      /\ mainAt = "attach" /\ subscribers = <<>> /\ toCome = LateSubs
      /\ events = 0 /\ writing = FALSE /\ version = 0 /\ lastConfig = DefaultConfig
      /\ seen = [s \in Subscribers |-> [cfg |-> DefaultConfig, ver |-> 0]]
  BY DEF ControlInit, WatcherInit, Idle
<1>2. LateSubs \subseteq Subscribers
  BY ControlAssumption
<1>3. CalmInv
  BY <1>1 DEF CalmInv, Threads
<1>4. ListInv
  BY <1>1, <1>2 DEF ListInv, Attaching, Threads
<1>5. VersionInv
  BY <1>1, <1>2 DEF VersionInv, Attaching, Threads
<1>6. FileInv /\ DeliveryInv
  BY <1>1 DEF FileInv, DeliveryInv, Threads
<1> QED BY <1>3, <1>4, <1>5, <1>6

-----------------------------------------------------------------------------
(* A listening acceptor is served: whoever replaces it, whatever was       *)
(* pending on the old one, the chain of accepts goes on, until an accept   *)
(* fails (debug_server.cc 219-257).  For any number of clients, any        *)
(* addresses and any edits of the configuration.                           *)
THEOREM AcceptorServed == ControlSpec => []ListenerServed
<1>1. ControlInit => ThreadInv /\ StartInv /\ AcceptInv
  BY BaseInit
<1>2. /\ ThreadInv /\ StartInv /\ AcceptInv /\ [ControlNext]_controlVars
      => (ThreadInv /\ StartInv /\ AcceptInv)'
  BY BaseStep
<1>3. AcceptInv => ListenerServed
  BY NotStartingPc DEF AcceptInv, ListenerServed
<1> QED BY <1>1, <1>2, <1>3, PTL DEF ControlSpec

(* The whole invariant, for a file that is left alone until main() is in   *)
(* its loop.                                                               *)
LEMMA WatcherInvariant ==
  ASSUME ~EditDuringStart
  PROVE  ControlSpec => [](/\ ThreadInv /\ StartInv /\ AcceptInv
                           /\ CalmInv /\ ListInv /\ VersionInv /\ FileInv /\ DeliveryInv)
<1> DEFINE Inv == /\ ThreadInv /\ StartInv /\ AcceptInv
                  /\ CalmInv /\ ListInv /\ VersionInv /\ FileInv /\ DeliveryInv
<1>1. ControlInit => Inv
  BY BaseInit, CalmInit
<1>2. Inv /\ [ControlNext]_controlVars => Inv'
  BY BaseStep, CalmStep
<1> HIDE DEF Inv
<1>3. ControlSpec => []Inv
  BY <1>1, <1>2, PTL DEF ControlSpec
<1> QED BY <1>3 DEF Inv

(* With nothing left to do the configuration of the file is in force, for  *)
(* any number of edits, events, late subscribers and exceptions            *)
(* (config_watcher.cc 119-140), if the file is not edited before main() is *)
(* in its loop.                                                            *)
THEOREM QuietApplied ==
  ASSUME ~EditDuringStart
  PROVE  ControlSpec => []QuietMeansApplied
<1>1. ASSUME ThreadInv, ListInv, FileInv, DeliveryInv, Quiet PROVE InForce
  <2>1. /\ mainAt = "run" /\ ~writing /\ events = 0 /\ \A t \in Threads : job[t].pc = "idle"
    BY <1>1 DEF Quiet, At
  <2>2. file # Malformed => lastConfig = LoadFromConfig(file)
    BY <1>1, <2>1 DEF FileInv
  <2>3. \A k \in 1..Len(subscribers) : Clean(k) => Has(k)
    BY <1>1, <2>1 DEF DeliveryInv
  <2>4. ~Attaching
    BY <2>1 DEF Attaching, Threads
  <2>5. \A k \in 1..Len(subscribers) : Clean(k) => seen[subscribers[k]].cfg = lastConfig
    BY <2>3, <2>4 DEF Has
  <2> QED BY <2>2, <2>5 DEF InForce, Clean
<1>2. (/\ ThreadInv /\ StartInv /\ AcceptInv
       /\ CalmInv /\ ListInv /\ VersionInv /\ FileInv /\ DeliveryInv) => QuietMeansApplied
  BY <1>1 DEF QuietMeansApplied
<1> QED BY <1>2, WatcherInvariant, PTL

(* Who calls update.                                                       *)
LEMMA SeenSteps ==
  ASSUME [ControlNext]_controlVars
  PROVE  (\E t \in Threads : DeliverUpdate(t)) \/ (LateStep /\ AttachUpdate) \/ seen' = seen
BY DEF ControlNext, MainStep, ThreadStep, LateStep, IoStep,
   EnvironmentStep, KernelStep, LoadStep, UpdateReturns, UpdateThrows,
   controlVars, watcherVars, EditStep, Truncate, WriteAndClose, MoveOver,
   StartWatching, Attach, Detach, Unwatch, OnChange, LoadConfig, Compare,
   CopySubscribers, CopyCurrent, AttachCopy, MainAttach, MainDebugAttach,
   MainDebugStart, MainDebugThrows, MainWatch, MainRun, LateAttach,
   LateDetach, MainDetach, MainDebugStop, MainUnwatch, MainExit,
   DeliveryReturns, DeliveryThrows, ServiceFileThrows

(* A subscriber never gets a configuration older than one it already has:  *)
(* notify runs on one thread at a time, and what attach delivers goes to a *)
(* subscriber nobody has called yet (config_watcher.cc 27-40, 65-82), if   *)
(* the file is not edited before main() is in its loop.                    *)
THEOREM VersionsGrow ==
  ASSUME ~EditDuringStart
  PROVE  ControlSpec => NeverBackwards
<1>1. ASSUME ThreadInv, ListInv, VersionInv, [ControlNext]_controlVars, NEW s \in Subscribers
      PROVE  seen'[s].ver >= seen[s].ver
  <2>1. CASE \E t \in Threads : DeliverUpdate(t)
    <3>1. PICK t \in Threads : DeliverUpdate(t)
      BY <2>1
    <3>2. /\ job[t].ver = version
          /\ seen' = [seen EXCEPT ![Head(job[t].active)] =
                        [cfg |-> job[t].cfg, ver |-> job[t].ver]]
      BY <1>1, <3>1 DEF DeliverUpdate, CallUpdate, At, VersionInv
    <3>3. seen'[s].ver = seen[s].ver \/ seen'[s].ver = version
      BY <1>1, <3>2 DEF VersionInv
    <3> QED BY <1>1, <3>3 DEF VersionInv
  <2>2. CASE LateStep /\ AttachUpdate
    <3>1. /\ job[Main].pc = "attachUpdate"
          /\ seen' = [seen EXCEPT ![job[Main].sub] =
                        [cfg |-> job[Main].cfg, ver |-> job[Main].ver]]
      BY <2>2 DEF AttachUpdate, At
    <3>2. seen[job[Main].sub].ver = 0 /\ job[Main].ver \in Nat
      BY <1>1, <3>1 DEF VersionInv, ThreadInv, Attaching, Ending
    <3>3. seen'[s].ver = seen[s].ver \/ (s = job[Main].sub /\ seen'[s].ver = job[Main].ver)
      BY <1>1, <3>1 DEF VersionInv
    <3> QED BY <1>1, <3>2, <3>3 DEF VersionInv
  <2>3. CASE seen' = seen
    BY <1>1, <2>3 DEF VersionInv
  <2>4. (\E t \in Threads : DeliverUpdate(t)) \/ (LateStep /\ AttachUpdate) \/ seen' = seen
    BY <1>1, SeenSteps
  <2> QED BY <2>1, <2>2, <2>3, <2>4
<1>2. (/\ ThreadInv /\ StartInv /\ AcceptInv
       /\ CalmInv /\ ListInv /\ VersionInv /\ FileInv /\ DeliveryInv)
      /\ [ControlNext]_controlVars => [\A s \in Subscribers : seen'[s].ver >= seen[s].ver]_seen
  BY <1>1
<1> QED BY <1>2, WatcherInvariant, PTL DEF ControlSpec, NeverBackwards

-----------------------------------------------------------------------------
(* The subscribers main() attaches are the first of the list, in their     *)
(* order, until main() ends.                                               *)
OrderInv ==
  mainAt \notin Ending \cup {"failed"} =>
    /\ subscribers \in Seq(Subscribers)
    /\ IF mainAt = "attach" THEN Len(subscribers) <= Len(AttachOrder)
       ELSE Len(subscribers) >= Len(AttachOrder)
    /\ \A k \in 1..Len(AttachOrder) : k <= Len(subscribers) => subscribers[k] = AttachOrder[k]

(* The debug server listens as the last configuration it was called with   *)
(* says, or a thread is on its way there.  stop never finds running_ set.  *)
Wants(cfg) == cfg.dbgEnabled /\ Listen(cfg) \notin BadAddresses \cup BusyAddresses

ServerInv ==
  /\ running = FALSE
  /\ mainAt \in BeforeWatch => ~seen[DebugSub].cfg.dbgEnabled
  /\ Wants(seen[DebugSub].cfg) =>
       \/ /\ listening = Listen(seen[DebugSub].cfg)
          /\ \A t \in Threads : starting[t].pc \notin {"replace", "listen"}
       \/ \E t \in Threads :
            starting[t].pc = "replace" /\ starting[t].addr = Listen(seen[DebugSub].cfg)
       \/ \E t \in Threads : starting[t].pc = "listen" /\ address = Listen(seen[DebugSub].cfg)

(* Only a subscriber that comes late is called by attach.                  *)
LateInv == Attaching => job[Main].sub \in LateSubs

(* Two threads are never in start.                                         *)
LEMMA OneStarts ==
  ASSUME ThreadInv, StartInv, CalmInv, NEW t \in Threads, NEW u \in Threads,
         starting[t].pc \in {"replace", "listen", "accept"},
         starting[u].pc \in {"replace", "listen", "accept"}
  PROVE  t = u
<1>1. SUFFICES ASSUME t # u PROVE FALSE
  OBVIOUS
<1>2. /\ starting[Main].pc \in {"replace", "listen", "accept"}
      /\ starting[Io].pc \in {"replace", "listen", "accept"}
  BY <1>1 DEF Threads
<1>3. job[Io].pc = "update"
  BY <1>2, WatcherAssumption DEF StartInv, Threads
<1>4. mainAt \notin BeforeWatch \cup {"loading"}
  BY <1>3 DEF CalmInv, Idle
<1>5. job[Main].pc \notin {"update"}
  BY <1>4 DEF ThreadInv
<1> QED BY <1>2, <1>4, <1>5 DEF StartInv, Threads, BeforeWatch

(* Steps that leave the debug server and what it was called with alone.    *)
LEMMA ServerKept ==
  ASSUME ServerInv, UNCHANGED <<running, address, listening, starting>>,
         seen'[DebugSub] = seen[DebugSub], mainAt' \in BeforeWatch => mainAt \in BeforeWatch
  PROVE  ServerInv'
BY DEF ServerInv

(* main() comes to its call of start before any configuration was loaded.  *)
LEMMA MainDebugStartServer ==
  ASSUME ServerInv, MainDebugStart
  PROVE  ServerInv'
BY DEF ServerInv, MainDebugStart, watcherVars, BeforeWatch, Wants

(* start throws at an address nobody wants.                                *)
LEMMA ListenEndsServer ==
  ASSUME ThreadInv, StartInv, CalmInv, ServerInv, NEW t \in Threads,
         DebugListenThrows(t) \/ DebugListenFails(t), seen' = seen,
         mainAt' \in BeforeWatch => mainAt \in BeforeWatch
  PROVE  ServerInv'
<1>1. /\ starting[t].pc = "listen" /\ address \in BadAddresses \cup BusyAddresses
      /\ UNCHANGED <<running, address, listening>>
      /\ starting' = [starting EXCEPT ![t] = NotStarting]
  BY DEF DebugListenThrows, DebugListenFails, StartAt
<1>2. ASSUME Wants(seen[DebugSub].cfg) PROVE FALSE
  <2>1. CASE \E u \in Threads :
               starting[u].pc = "replace" /\ starting[u].addr = Listen(seen[DebugSub].cfg)
    BY <1>1, <2>1, OneStarts
  <2>2. CASE address = Listen(seen[DebugSub].cfg)
    BY <1>1, <1>2, <2>2 DEF Wants
  <2> QED BY <1>1, <1>2, <2>1, <2>2 DEF ServerInv
<1> QED BY <1>1, <1>2 DEF ServerInv

(* The steps of start take the address they were called with.              *)
LEMMA DebugStartServer ==
  ASSUME ThreadInv, StartInv, CalmInv, ServerInv, NEW t \in Threads, DebugStart(t),
         seen' = seen, mainAt' = mainAt
  PROVE  ServerInv'
<1>1. /\ starting[t].pc = "replace" /\ address' = starting[t].addr
      /\ UNCHANGED running /\ StartGo(t, "listen")
  BY DEF DebugStart, StartAt
<1>2. starting'[t].pc = "listen"
  BY <1>1, StartFacts DEF StartInv
<1>3. ASSUME Wants(seen[DebugSub].cfg) PROVE starting[t].addr = Listen(seen[DebugSub].cfg)
  <2>1. CASE \E u \in Threads :
               starting[u].pc = "replace" /\ starting[u].addr = Listen(seen[DebugSub].cfg)
    BY <1>1, <2>1, OneStarts
  <2>2. CASE \E u \in Threads : starting[u].pc = "listen"
    BY <1>1, <2>2, OneStarts
  <2> QED BY <1>1, <1>3, <2>1, <2>2 DEF ServerInv
<1> QED BY <1>1, <1>2, <1>3 DEF ServerInv

(* listen(): the address that is bound is that of the last update.         *)
LEMMA DebugListenServer ==
  ASSUME ThreadInv, StartInv, CalmInv, ServerInv, NEW t \in Threads, DebugListen(t),
         seen' = seen, mainAt' = mainAt
  PROVE  ServerInv'
<1>1. /\ starting[t].pc = "listen" /\ listening' = address
      /\ UNCHANGED <<running, address>> /\ StartGo(t, "accept")
  BY DEF DebugListen, StartAt
<1>2. starting'[t].pc = "accept" /\ \A u \in Threads : u # t => starting'[u] = starting[u]
  BY <1>1, StartFacts DEF StartInv
<1>3. \A u \in Threads : starting'[u].pc \notin {"replace", "listen"}
  BY <1>1, <1>2, OneStarts
<1>4. ASSUME Wants(seen[DebugSub].cfg) PROVE address = Listen(seen[DebugSub].cfg)
  <2>1. CASE \E u \in Threads :
               starting[u].pc = "replace" /\ starting[u].addr = Listen(seen[DebugSub].cfg)
    BY <1>1, <2>1, OneStarts
  <2> QED BY <1>1, <1>4, <2>1 DEF ServerInv
<1> QED BY <1>1, <1>3, <1>4 DEF ServerInv

(* The first async_accept ends a start; the address stays.                 *)
LEMMA DebugAcceptServer ==
  ASSUME StartInv, ServerInv, NEW t \in Threads, DebugAccept(t),
         seen' = seen, mainAt' = mainAt
  PROVE  ServerInv'
<1>1. /\ starting[t].pc = "accept"
      /\ UNCHANGED <<running, address, listening>>
      /\ starting' = [starting EXCEPT ![t] = NotStarting]
  BY DEF DebugAccept, StartAt
<1>2. starting'[t].pc = "no" /\ \A u \in Threads : u # t => starting'[u] = starting[u]
  BY <1>1, NotStartingPc DEF StartInv
<1> QED BY <1>1, <1>2 DEF ServerInv

(* A configuration is handed to the debug server: it stops nothing, and    *)
(* starts if the configuration says so.                                    *)
LEMMA DeliverUpdateServer ==
  ASSUME ThreadInv, StartInv, CalmInv, VersionInv, ServerInv, DebugSub \in Subscribers,
         NEW t \in Threads, DeliverUpdate(t)
  PROVE  ServerInv'
<1>1. /\ job[t].pc = "notify" /\ mainAt' = mainAt
      /\ seen' = [seen EXCEPT ![Head(job[t].active)] = [cfg |-> job[t].cfg, ver |-> job[t].ver]]
  BY DEF DeliverUpdate, CallUpdate, At
<1>2. CASE Head(job[t].active) # DebugSub
  BY <1>1, <1>2, ServerKept DEF DeliverUpdate, debugVars, VersionInv
<1>3. CASE Head(job[t].active) = DebugSub
  <2>1. seen'[DebugSub].cfg = job[t].cfg
    BY <1>1, <1>3 DEF VersionInv
  <2>2. DebugUpdate(t, job[t].cfg)
    BY <1>3 DEF DeliverUpdate
  <2>3. UNCHANGED <<running, address, listening>>
    BY <2>2 DEF DebugUpdate, StopEffect, NeedsStop, ServerInv
  <2>4. job[t].cfg.dbgEnabled =>
          starting'[t] = [pc |-> "replace", addr |-> Listen(job[t].cfg)]
    BY <2>2 DEF DebugUpdate, NeedsStart, ServerInv, StartInv
  <2>5. mainAt \notin BeforeWatch
    BY <1>1 DEF ThreadInv, CalmInv, Idle, BeforeWatch, Threads
  <2>6. Wants(job[t].cfg) =>
          starting'[t].pc = "replace" /\ starting'[t].addr = Listen(job[t].cfg)
    BY <2>4 DEF Wants
  <2> QED BY <1>1, <2>1, <2>3, <2>5, <2>6 DEF ServerInv
<1> QED BY <1>2, <1>3

(* Every step keeps the invariant of the debug server.                     *)
LEMMA ServerStep ==
  ASSUME DebugSub \in Subscribers \ LateSubs, ThreadInv, StartInv, CalmInv, LateInv, VersionInv,
         ServerInv, [ControlNext]_controlVars
  PROVE  ServerInv'
<1>1. CASE \E t \in Threads : DeliverUpdate(t)
  BY <1>1, DeliverUpdateServer
<1>2. CASE LateStep /\ AttachUpdate
  <2>1. seen' = [seen EXCEPT ![job[Main].sub] = [cfg |-> job[Main].cfg, ver |-> job[Main].ver]]
    BY <1>2 DEF AttachUpdate
  <2>2. job[Main].sub # DebugSub
    BY <1>2 DEF LateInv, AttachUpdate, At, Attaching
  <2>3. seen'[DebugSub] = seen[DebugSub]
    BY <2>1, <2>2 DEF VersionInv
  <2> QED BY <1>2, <2>3, ServerKept DEF LateStep, debugVars
<1>3. ASSUME seen' = seen, \A t \in Threads : ~DeliverUpdate(t) PROVE ServerInv'
  <2>0. seen'[DebugSub] = seen[DebugSub]
    BY <1>3
  <2>1. CASE MainDebugStart
    BY <2>1, MainDebugStartServer
  <2>2. CASE MainDebugThrows
    BY <1>3, <2>2, ListenEndsServer DEF MainDebugThrows, BeforeWatch, Threads
  <2>3. CASE MainDebugStop
    <3>1. UNCHANGED <<running, address, listening, starting>>
      BY <2>3 DEF MainDebugStop, DebugStop, StopEffect, ServerInv
    <3> QED BY <2>0, <2>3, <3>1, ServerKept DEF MainDebugStop, BeforeWatch
  <2>4. ASSUME NEW t \in Threads, DeliveryThrows(t) PROVE ServerInv'
    <3>1. CASE DebugListenThrows(t)
      BY <1>3, <2>4, <3>1, ListenEndsServer DEF DeliveryThrows
    <3>2. CASE UNCHANGED debugVars
      BY <2>0, <2>4, <3>2, ServerKept DEF DeliveryThrows, debugVars
    <3> QED BY <2>4, <3>1, <3>2 DEF DeliveryThrows
  <2>5. ASSUME NEW t \in Threads, StartStep(t), UNCHANGED <<watcherVars, mainAt, ioAlive, toCome>>
        PROVE  ServerInv'
    BY <1>3, <2>5, DebugStartServer, DebugListenServer, DebugAcceptServer, ListenEndsServer
       DEF StartStep
  <2>6. CASE \/ MainAttach \/ MainDebugAttach \/ MainWatch(TRUE) \/ MainRun \/ MainUnwatch
            \/ MainExit \/ MainWatch(FALSE) \/ MainDetach
            \/ \E s \in LateSubs : LateAttach(s) \/ LateDetach(s)
    BY <2>0, <2>6, ServerKept
       DEF MainAttach, MainDebugAttach, MainWatch, MainRun, MainUnwatch, MainExit, MainDetach,
           LateAttach, LateDetach, debugVars, DebugAttach, DebugDetach, BeforeWatch
  <2>7. CASE LateStep \/ IoStep \/ ServiceFileThrows
    BY <2>0, <2>7, ServerKept
       DEF LateStep, IoStep, ServiceFileThrows, debugVars, DebugHandler, OnAcceptError, OnAccept,
           OnReadDebug, OnReadOther, OnReadError
  <2>8. CASE EnvironmentStep \/ KernelStep \/ UNCHANGED controlVars
    BY <2>0, <2>8, ServerKept
       DEF EnvironmentStep, KernelStep, debugVars, controlVars, Connect, Request, AcceptFails,
           AcceptCompletes
  <2>9. ASSUME NEW t \in Threads, LoadStep(t) \/ DeliveryReturns(t),
               UNCHANGED <<debugVars, mainAt, ioAlive, toCome>>
        PROVE  ServerInv'
    BY <2>0, <2>9, ServerKept DEF debugVars
  <2> QED
    BY <1>3, <2>1, <2>2, <2>3, <2>4, <2>5, <2>6, <2>7, <2>8, <2>9
       DEF ControlNext, MainStep, ThreadStep, DeliveryReturns
<1> QED BY <1>1, <1>2, <1>3, SeenSteps

(* Only a subscriber that comes late is called by attach.                  *)
LEMMA LateStepInv ==
  ASSUME ThreadInv, LateInv, [ControlNext]_controlVars
  PROVE  LateInv'
<1>1. CASE \E s \in LateSubs : LateAttach(s)
  BY <1>1, WatcherAssumption DEF LateAttach, Attach, LateInv, Attaching, Go, At, ThreadInv, Threads
<1>2. CASE LateStep
  BY <1>2, WatcherAssumption DEF LateStep, AttachCopy, AttachUpdate, LateInv, Attaching, Go, At,
     ThreadInv, Threads, Idle
<1>3. CASE job'[Main] = job[Main]
  BY <1>3 DEF LateInv, Attaching
<1>4. ASSUME NEW t \in Threads,
             LoadStep(t) \/ CallUpdate(t) \/ UpdateReturns(t) \/ UpdateThrows(t)
      PROVE  LateInv'
  <2>1. CASE t = Io
    BY <1>3, <1>4, <2>1, WatcherAssumption DEF LoadStep, LoadConfig, Compare, CopySubscribers,
       CopyCurrent, CallUpdate, UpdateReturns, UpdateThrows, Go, ThreadInv, Threads
  <2>2. CASE t = Main
    <3>1. PICK j : Go(Main, j) /\ j.pc \notin {"attached", "attachUpdate"}
      <4>1. CASE UpdateReturns(t)
        <5>1. job[t].pc = "update" /\ DOMAIN job[t] = {"pc", "active", "cfg", "ver"}
          BY <4>1 DEF UpdateReturns, At, ThreadInv
        <5>2. PICK c : c = [job[t] EXCEPT !.pc = "notify", !.active = Tail(@)]
          OBVIOUS
        <5>3. c.pc = "notify"
          BY <5>1, <5>2, ReturnFields
        <5>4. Go(Main, NotifyRest(c))
          BY <2>2, <4>1, <5>2, Zenon DEF UpdateReturns
        <5>5. NotifyRest(c).pc \notin {"attached", "attachUpdate"}
          BY <5>3 DEF NotifyRest, Idle
        <5> QED BY <5>4, <5>5
      <4>2. CASE CallUpdate(t)
        <5>1. job[t].pc = "notify" /\ DOMAIN job[t] = {"pc", "active", "cfg", "ver"}
          BY <4>2 DEF CallUpdate, At, ThreadInv
        <5>2. [job[t] EXCEPT !.pc = "update"].pc = "update"
          BY <5>1, CallFields
        <5> QED BY <2>2, <4>2, <5>2 DEF CallUpdate
      <4>3. CASE UpdateThrows(t)
        BY <2>2, <4>3 DEF UpdateThrows, Idle
      <4>4. CASE LoadStep(t)
        <5>1. CASE LoadConfig(t)
          BY <2>2, <5>1 DEF LoadConfig, Idle
        <5>2. CASE Compare(t)
          BY <2>2, <5>2 DEF Compare, Idle
        <5>3. CASE CopySubscribers(t)
          BY <2>2, <5>3 DEF CopySubscribers
        <5>4. CASE CopyCurrent(t)
          BY <2>2, <5>4 DEF CopyCurrent, NotifyRest, Idle
        <5> QED BY <4>4, <5>1, <5>2, <5>3, <5>4 DEF LoadStep
      <4> QED BY <1>4, <4>1, <4>2, <4>3, <4>4
    <3>2. job'[Main] = j
      BY <3>1, GoFacts DEF ThreadInv, Threads
    <3> QED BY <3>1, <3>2 DEF LateInv, Attaching
  <2> QED BY <2>1, <2>2 DEF Threads
<1>5. CASE \E ok \in BOOLEAN : StartWatching(ok)
  BY <1>5, WatcherAssumption DEF StartWatching, LateInv, Attaching, Go, At, ThreadInv, Threads
<1>6. CASE MainAttach
  BY <1>6 DEF MainAttach, Attach, LateInv, Attaching, ThreadInv, BeforeWatch
<1> QED
  BY <1>1, <1>2, <1>3, <1>4, <1>5, <1>6, WatcherAssumption
     DEF ControlNext, MainStep, ThreadStep, IoStep,
   EnvironmentStep, KernelStep, Go, ThreadInv, Threads,
   controlVars, watcherVars, EditStep, Truncate, WriteAndClose, MoveOver,
   Detach, Unwatch, OnChange, MainDebugAttach,
   MainDebugStart, MainDebugThrows, MainWatch, MainRun,
   LateDetach, MainDetach, MainDebugStop, MainUnwatch, MainExit, DeliverUpdate,
   DeliveryReturns, DeliveryThrows, ServiceFileThrows

(* The list keeps the subscribers of main() in front.                      *)
LEMMA OrderStep ==
  ASSUME ThreadInv, OrderInv, [ControlNext]_controlVars
  PROVE  OrderInv'
<1>1. CASE MainAttach
  <2>1. /\ mainAt = "attach" /\ mainAt' = "attach" /\ Len(subscribers) < Len(AttachOrder)
        /\ subscribers' = Append(subscribers, AttachOrder[Len(subscribers) + 1])
    BY <1>1 DEF MainAttach, Attach
  <2>2. /\ subscribers \in Seq(Subscribers)
        /\ \A k \in 1..Len(AttachOrder) : k <= Len(subscribers) => subscribers[k] = AttachOrder[k]
    BY <2>1 DEF OrderInv, Ending
  <2>3. AttachOrder[Len(subscribers) + 1] \in Subscribers
    BY <2>1, <2>2, ControlAssumption
  <2>4. /\ subscribers' \in Seq(Subscribers) /\ Len(subscribers') <= Len(AttachOrder)
        /\ \A k \in 1..Len(AttachOrder) :
             k <= Len(subscribers') => subscribers'[k] = AttachOrder[k]
    BY <2>1, <2>2, <2>3, ControlAssumption
  <2> QED BY <2>1, <2>4 DEF OrderInv
<1>2. CASE \E s \in LateSubs : LateAttach(s)
  <2>1. PICK s \in LateSubs : LateAttach(s)
    BY <1>2
  <2>2. s \in Subscribers /\ mainAt = "run" /\ mainAt' = "run"
        /\ subscribers' = Append(subscribers, s)
    BY <2>1, ControlAssumption DEF LateAttach, Attach
  <2>3. /\ subscribers \in Seq(Subscribers) /\ Len(subscribers) >= Len(AttachOrder)
        /\ \A k \in 1..Len(AttachOrder) : k <= Len(subscribers) => subscribers[k] = AttachOrder[k]
    BY <2>2 DEF OrderInv, Ending
  <2>4. /\ subscribers' \in Seq(Subscribers) /\ Len(subscribers') >= Len(AttachOrder)
        /\ \A k \in 1..Len(AttachOrder) :
             k <= Len(subscribers') => subscribers'[k] = AttachOrder[k]
    BY <2>2, <2>3, ControlAssumption
  <2> QED BY <2>2, <2>4 DEF OrderInv
<1>3. CASE MainDebugAttach
  BY <1>3 DEF MainDebugAttach, watcherVars, OrderInv, Ending
<1>4. CASE subscribers' = subscribers /\ mainAt' = mainAt
  BY <1>4 DEF OrderInv
<1>5. CASE subscribers' = subscribers /\ mainAt # "attach" /\ mainAt' # "attach"
             /\ (mainAt' \in Ending \cup {"failed"} \/ mainAt \notin Ending \cup {"failed"})
  BY <1>5 DEF OrderInv
<1>6. CASE \E s \in LateSubs : LateDetach(s)
  BY <1>6 DEF LateDetach, OrderInv, Ending
<1>7. CASE \/ MainDebugStart \/ MainDebugThrows \/ MainWatch(TRUE) \/ MainWatch(FALSE) \/ MainRun
          \/ MainDetach \/ MainDebugStop \/ MainUnwatch \/ MainExit
  BY <1>5, <1>7 DEF MainDebugStart, MainDebugThrows, MainWatch, MainRun, MainDetach, MainDebugStop,
     MainUnwatch, MainExit, watcherVars, StartWatching, Unwatch, Ending
<1>8. ASSUME NEW t \in Threads, ThreadStep(t) PROVE OrderInv'
  BY <1>4, <1>8 DEF ThreadStep, LoadStep, LoadConfig, Compare, CopySubscribers, CopyCurrent,
     DeliverUpdate, CallUpdate, DeliveryReturns, UpdateReturns, DeliveryThrows, UpdateThrows,
     watcherVars
<1>9. CASE \/ LateStep \/ IoStep \/ ServiceFileThrows \/ EnvironmentStep \/ KernelStep
          \/ UNCHANGED controlVars
  BY <1>4, <1>9 DEF LateStep, AttachCopy, AttachUpdate, IoStep, OnChange, ServiceFileThrows,
     EnvironmentStep, EditStep, Truncate, WriteAndClose, MoveOver, KernelStep, controlVars,
     watcherVars
<1> QED
  BY <1>1, <1>2, <1>3, <1>6, <1>7, <1>8, <1>9 DEF ControlNext, MainStep

(* The initial states of the debug server.                                 *)
LEMMA ServerInit ==
  ASSUME DebugSub \in Subscribers, ControlInit
  PROVE  LateInv /\ ServerInv
<1>1. LateInv
  BY DEF ControlInit, WatcherInit, LateInv, Attaching, Idle, Threads
<1>2. seen[DebugSub].cfg = DefaultConfig
  BY DEF ControlInit, WatcherInit
<1>3. ~seen[DebugSub].cfg.dbgEnabled
  BY <1>2 DEF DefaultConfig
<1>4. running = FALSE
  BY DEF ControlInit, DebugInit
<1> QED BY <1>1, <1>3, <1>4 DEF ServerInv, Wants

(* The debug server listens on the address of the last configuration it    *)
(* was called with, if that one enables it and the address can be bound    *)
(* (debug_server.cc 172-199): whoever replaced the acceptor, in start of   *)
(* main() or in an update, the last to do so had that configuration.  Any  *)
(* subscriber may throw.  The hypothesis is that the file is left alone    *)
(* until main() is in its loop.                                            *)
THEOREM ServerListens ==
  ASSUME ~EditDuringStart
  PROVE  ControlSpec => []ListensAsConfigured
<1> DEFINE Inv == /\ ThreadInv /\ StartInv /\ AcceptInv
                  /\ CalmInv /\ ListInv /\ VersionInv /\ FileInv /\ DeliveryInv
<1>1. DebugSub \in Subscribers \ LateSubs
  BY ControlAssumption
<1>2. ControlInit => LateInv /\ ServerInv
  BY <1>1, ServerInit
<1>3. Inv /\ LateInv /\ ServerInv /\ [ControlNext]_controlVars => (LateInv /\ ServerInv)'
  BY <1>1, ServerStep, LateStepInv
<1>4. ASSUME Inv, ServerInv, Quiet, Wants(seen[DebugSub].cfg)
      PROVE  listening = Listen(seen[DebugSub].cfg)
  <2>1. \A t \in Threads : job[t].pc = "idle"
    BY <1>4 DEF Quiet, At
  <2>2. \A t \in Threads : starting[t].pc \notin {"replace", "listen"}
    BY <1>4, <2>1 DEF Quiet, StartInv
  <2> QED BY <1>4, <2>2 DEF ServerInv
<1>5. Inv /\ ServerInv => ListensAsConfigured
  BY <1>4 DEF ListensAsConfigured, Wants
<1>6. ControlSpec => []Inv
  BY WatcherInvariant
<1> QED BY <1>2, <1>3, <1>5, <1>6, PTL DEF ControlSpec

-----------------------------------------------------------------------------
(* A step of the program or of its environment is one of ConfigWatcher, or *)
(* leaves its variables alone ...                                          *)
WatcherStep ==
  \/ \E s \in Subscribers : Attach(s)
  \/ \E s \in LateSubs : Detach(s)
  \/ StartWatching(TRUE) \/ StartWatching(FALSE) \/ Unwatch
  \/ AttachCopy \/ AttachUpdate
  \/ \E t \in Threads : LoadStep(t) \/ CallUpdate(t) \/ UpdateReturns(t) \/ UpdateThrows(t)
  \/ OnChange \/ EditStep
  \/ UNCHANGED watcherVars

(* Every step of the composition is one of these for the watcher.          *)
LEMMA WatcherSteps ==
  ASSUME OrderInv, [ControlNext]_controlVars
  PROVE  WatcherStep
<1>1. CASE MainAttach
  <2>1. Len(subscribers) < Len(AttachOrder) /\ subscribers \in Seq(Subscribers)
    BY <1>1 DEF MainAttach, OrderInv, Ending
  <2>2. AttachOrder[Len(subscribers) + 1] \in Subscribers
    BY <2>1, ControlAssumption
  <2> QED BY <1>1, <2>2 DEF MainAttach, WatcherStep
<1>2. CASE \E s \in LateSubs : LateAttach(s) \/ LateDetach(s)
  BY <1>2, ControlAssumption DEF LateAttach, LateDetach, WatcherStep
<1>3. CASE \/ MainDebugAttach \/ MainDebugStart \/ MainDebugThrows \/ MainRun \/ MainDetach
          \/ MainDebugStop \/ MainExit \/ MainWatch(TRUE) \/ MainWatch(FALSE) \/ MainUnwatch
  BY <1>3 DEF MainDebugAttach, MainDebugStart, MainDebugThrows, MainRun, MainDetach,
     MainDebugStop, MainExit, MainWatch, MainUnwatch, WatcherStep
<1>4. ASSUME NEW t \in Threads, ThreadStep(t) PROVE WatcherStep
  BY <1>4 DEF ThreadStep, DeliverUpdate, DeliveryReturns, DeliveryThrows, WatcherStep
<1>5. CASE \/ LateStep \/ IoStep \/ ServiceFileThrows \/ EnvironmentStep \/ KernelStep
          \/ UNCHANGED controlVars
  BY <1>5 DEF LateStep, IoStep, ServiceFileThrows, EnvironmentStep, KernelStep, controlVars,
     WatcherStep
<1> QED BY <1>1, <1>2, <1>3, <1>4, <1>5 DEF ControlNext, MainStep

(* ... and the same for DebugServer.                                       *)
DebugStep ==
  \/ MainDebugStart
  \/ \E t \in Threads : \/ \E cfg : DebugUpdate(t, cfg)
                        \/ StartStep(t) \/ DebugListenThrows(t)
  \/ DebugHandler \/ AcceptFails
  \/ \E c \in Clients : Connect(c) \/ Request(c) \/ AcceptCompletes(c)
  \/ DebugAttach(DaemonSub) \/ DebugDetach(DaemonSub) \/ DebugStop
  \/ UNCHANGED debugVars

(* Every step of the composition is one of these for the server.           *)
LEMMA DebugSteps ==
  ASSUME [ControlNext]_controlVars
  PROVE  DebugStep
<1>1. CASE \/ MainAttach \/ MainDebugAttach \/ MainDebugStart \/ MainDebugThrows \/ MainRun
          \/ MainDetach \/ MainDebugStop \/ MainExit \/ MainWatch(TRUE) \/ MainWatch(FALSE)
          \/ MainUnwatch
  BY <1>1 DEF MainAttach, MainDebugAttach, MainDebugThrows, MainRun, MainDetach,
     MainDebugStop, MainExit, MainWatch, MainUnwatch, DebugStep, Threads
<1>2. CASE \E s \in LateSubs : LateAttach(s) \/ LateDetach(s)
  BY <1>2 DEF LateAttach, LateDetach, DebugStep
<1>3. ASSUME NEW t \in Threads, ThreadStep(t) PROVE DebugStep
  <2>1. CASE DeliverUpdate(t)
    <3>1. DebugUpdate(t, job[t].cfg) \/ UNCHANGED debugVars
      BY <2>1 DEF DeliverUpdate
    <3> QED BY <3>1 DEF DebugStep
  <2> QED BY <1>3, <2>1 DEF ThreadStep, DeliveryReturns, DeliveryThrows, DebugStep
<1>4. CASE \/ LateStep \/ IoStep \/ ServiceFileThrows \/ EnvironmentStep \/ KernelStep
          \/ UNCHANGED controlVars
  BY <1>4 DEF LateStep, IoStep, ServiceFileThrows, EnvironmentStep, KernelStep, controlVars,
     DebugStep
<1> QED BY <1>1, <1>2, <1>3, <1>4 DEF ControlNext, MainStep

-----------------------------------------------------------------------------
(* The keys of a file tell the members apart.                              *)
LEMMA KeysDiffer ==
  ASSUME NEW f \in Members, NEW g \in Members, KeyOf[f] = KeyOf[g]
  PROVE  f = g
BY DEF Members, KeyOf

(* What a configuration that was read from a file looks like.              *)
LoadedEbpf(e) == e = [f \in EbpfMembers |-> e[f]] /\ e.hook \in HookNames

Loaded(c) ==
  /\ c = [f \in Members |-> c[f]]
  /\ c.ebpfs = [name \in DOMAIN c.ebpfs |-> c.ebpfs[name]]
  /\ \A name \in DOMAIN c.ebpfs : LoadedEbpf(c.ebpfs[name])

(* What decode leaves has every member, and a hook that is known.          *)
LEMMA DecodedEbpf ==
  ASSUME NEW node
  PROVE  LoadedEbpf(DecodeEbpf(node))
<1> DEFINE read == [f \in EbpfMembers |-> IF f \in DOMAIN node THEN node[f] ELSE DefaultEbpf[f]]
           hook == IF read.hook \in HookNames THEN read.hook ELSE "UNKNOWN"
<1>1. DecodeEbpf(node) = [read EXCEPT !.hook = hook]
  BY Zenon DEF DecodeEbpf
<1>2. "hook" \in EbpfMembers
  BY DEF EbpfMembers
<1>3. hook \in HookNames
  BY DEF HookNames
<1> HIDE DEF hook
<1>4. read = [f \in EbpfMembers |-> read[f]]
  OBVIOUS
<1> HIDE DEF read
<1> QED BY <1>1, <1>2, <1>3, <1>4 DEF LoadedEbpf

(* The configuration the program starts with has the shape of a loaded     *)
(* one.                                                                    *)
LEMMA DefaultLoaded == Loaded(DefaultConfig)
<1>1. LoadedEbpf(DefaultEbpf)
  BY DEF LoadedEbpf, DefaultEbpf, EbpfMembers, HookNames
<1>2. DefaultConfig = [f \in Members |-> DefaultConfig[f]]
  BY DEF DefaultConfig, Members
<1>3. DefaultConfig.ebpfs = [example |-> DefaultEbpf]
  BY DEF DefaultConfig
<1>4. PICK m : m = [example |-> DefaultEbpf]
  OBVIOUS
<1>5. m = [name \in DOMAIN m |-> m[name]] /\ \A name \in DOMAIN m : m[name] = DefaultEbpf
  BY <1>4
<1> QED BY <1>1, <1>2, <1>3, <1>4, <1>5 DEF Loaded

(* LoadFromConfig yields one whatever the file holds.                      *)
LEMMA LoadLoads ==
  ASSUME NEW f
  PROVE  Loaded(LoadFromConfig(f))
<1>1. CASE f = <<>>
  BY <1>1, DefaultLoaded DEF LoadFromConfig
<1>2. CASE f # <<>>
  <2>1. PICK c : c = Decode(f)
    OBVIOUS
  <2>2. c = [m \in Members |-> c[m]]
    BY <2>1 DEF Decode
  <2>3. "ebpfs" \in Members
    BY DEF Members
  <2>4. CASE KeyOf["ebpfs"] \in DOMAIN f
    <3>1. PICK v : v = f[KeyOf["ebpfs"]]
      OBVIOUS
    <3>2. c.ebpfs = Value("ebpfs", v)
      BY <2>1, <2>3, <2>4, <3>1 DEF Decode
    <3>3. c.ebpfs = [name \in DOMAIN v |-> DecodeEbpf(v[name])]
      BY <3>2 DEF Value
    <3>4. \A name \in DOMAIN c.ebpfs : LoadedEbpf(c.ebpfs[name])
      BY <3>3, DecodedEbpf
    <3>5. c.ebpfs = [name \in DOMAIN c.ebpfs |-> c.ebpfs[name]]
      BY <3>3
    <3> QED BY <2>2, <3>4, <3>5, <2>1, <1>2 DEF Loaded, LoadFromConfig
  <2>5. CASE KeyOf["ebpfs"] \notin DOMAIN f
    <3>1. c.ebpfs = DefaultConfig.ebpfs
      BY <2>1, <2>3, <2>5 DEF Decode
    <3>2. Loaded(c)
      BY <2>2, <3>1, DefaultLoaded DEF Loaded
    <3> QED BY <3>2, <2>1, <1>2 DEF LoadFromConfig
  <2> QED BY <2>4, <2>5
<1> QED BY <1>1, <1>2

(* decode takes an entry of the map of programs as encode writes it.       *)
LEMMA EbpfRoundTrip ==
  ASSUME NEW e, LoadedEbpf(e)
  PROVE  DecodeEbpf(EncodeEbpf(e)) = e
<1>1. EncodeEbpf(e) = e
  BY DEF EncodeEbpf, LoadedEbpf
<1> DEFINE read == [f \in EbpfMembers |-> IF f \in DOMAIN e THEN e[f] ELSE DefaultEbpf[f]]
<1>2. read = e
  BY DEF LoadedEbpf
<1>3. DecodeEbpf(e) =
        [read EXCEPT !.hook = IF read.hook \in HookNames THEN read.hook ELSE "UNKNOWN"]
  BY Zenon DEF DecodeEbpf
<1>4. DecodeEbpf(e) = [e EXCEPT !.hook = e.hook]
  BY <1>2, <1>3 DEF LoadedEbpf
<1>5. [e EXCEPT !.hook = e.hook] = e
  BY DEF LoadedEbpf
<1> QED BY <1>1, <1>4, <1>5

(* And the whole configuration.                                            *)
LEMMA ConfigRoundTrip ==
  ASSUME NEW c, Loaded(c), DOMAIN c.ebpfs # {}
  PROVE  LoadFromConfig(Encode(c)) = c
<1>1. Written(c) = Members
  BY DEF Written
<1>2. PICK e : e = Encode(c)
  OBVIOUS
<1>3. e = [key \in {KeyOf[f] : f \in Members} |->
             EncodeMember(c, CHOOSE f \in Members : KeyOf[f] = key)]
  BY <1>1, <1>2 DEF Encode
<1>4. ASSUME NEW f \in Members PROVE KeyOf[f] \in DOMAIN e /\ e[KeyOf[f]] = EncodeMember(c, f)
  <2>1. KeyOf[f] \in {KeyOf[g] : g \in Members}
    OBVIOUS
  <2>2. (CHOOSE g \in Members : KeyOf[g] = KeyOf[f]) = f
    BY KeysDiffer
  <2> QED BY <1>3, <2>1, <2>2
<1>5. e # <<>>
  <2>1. "dbgPort" \in Members
    BY DEF Members
  <2>2. DOMAIN e # {}
    BY <1>4, <2>1
  <2>3. DOMAIN <<>> = {}
    OBVIOUS
  <2> QED BY <2>2, <2>3
<1>6. Value("ebpfs", EncodeMember(c, "ebpfs")) = c.ebpfs
  <2>1. PICK v : v = [name \in DOMAIN c.ebpfs |-> EncodeEbpf(c.ebpfs[name])]
    OBVIOUS
  <2>2. EncodeMember(c, "ebpfs") = v
    BY <2>1 DEF EncodeMember
  <2>3. Value("ebpfs", v) = [name \in DOMAIN v |-> DecodeEbpf(v[name])]
    BY DEF Value
  <2>4. \A name \in DOMAIN c.ebpfs : DecodeEbpf(v[name]) = c.ebpfs[name]
    BY <2>1, EbpfRoundTrip DEF Loaded
  <2>5. DOMAIN v = DOMAIN c.ebpfs
    BY <2>1
  <2>6. [name \in DOMAIN v |-> DecodeEbpf(v[name])] = [name \in DOMAIN c.ebpfs |-> c.ebpfs[name]]
    BY <2>4, <2>5
  <2> QED BY <2>2, <2>3, <2>6 DEF Loaded
<1>7. ASSUME NEW f \in Members PROVE Value(f, EncodeMember(c, f)) = c[f]
  <2>1. CASE f = "ebpfs"
    BY <1>6, <2>1
  <2>2. CASE f # "ebpfs"
    BY <2>2 DEF Value, EncodeMember
  <2> QED BY <2>1, <2>2
<1>8. Decode(e) = [f \in Members |-> c[f]]
  BY <1>4, <1>7 DEF Decode
<1> QED BY <1>2, <1>5, <1>8 DEF LoadFromConfig, Loaded

-----------------------------------------------------------------------------
(* The types of the watcher.  An edit makes one event at most, an event    *)
(* one load and a load one version: DueMain, DueIo and DueWrite are the    *)
(* loads and events that are still to come.                                *)
Places == {"idle", "load", "compare", "copy", "current", "notify", "update",
           "attached", "attachUpdate"}

JobInv ==
  \A t \in Threads : /\ job[t].pc \in Places
                     /\ job[t].pc = "compare" => Loaded(job[t].cfg)

WatcherTypes ==
  /\ file \in Files \cup {<<>>, EmptyConfigFile} /\ writing \in BOOLEAN
  /\ edits \in 0..MaxEdits /\ events \in Nat
  /\ watched \in BOOLEAN /\ configPath \in BOOLEAN
  /\ Loaded(lastConfig) /\ version \in Nat
  /\ subscribers \in Seq(Subscribers)

Loading(t) == job[t].pc \in {"load", "compare"}
DueMain == IF ~configPath \/ Loading(Main) THEN 1 ELSE 0
DueIo == IF Loading(Io) THEN 1 ELSE 0
DueWrite == IF writing THEN 1 ELSE 0

BudgetInv ==
  /\ events + DueWrite <= edits
  /\ version + DueMain + DueIo + events + DueWrite <= edits + 1

(* A step that loads nothing keeps the account.                            *)
LEMMA BudgetKept ==
  ASSUME BudgetInv, UNCHANGED <<events, writing, edits, version, configPath>>,
         \A t \in Threads : Loading(t)' => Loading(t), WatcherTypes
  PROVE  BudgetInv'
BY DEF BudgetInv, DueMain, DueIo, DueWrite, Threads, WatcherTypes

(* The editor.                                                             *)
LEMMA EditTypes ==
  ASSUME WatcherTypes, JobInv, BudgetInv, EditStep
  PROVE  WatcherTypes' /\ JobInv' /\ BudgetInv'
<1>1. DueMain' = DueMain /\ DueIo' = DueIo /\ JobInv'
  BY DEF EditStep, Truncate, WriteAndClose, MoveOver, JobInv, DueMain, DueIo, Loading
<1>2. DueMain \in Nat /\ DueIo \in Nat
  BY DEF DueMain, DueIo
<1>3. CASE Truncate
  <2>1. WatcherTypes'
    BY <1>3, WatcherAssumption DEF Truncate, WatcherTypes
  <2>2. DueWrite = 0 /\ DueWrite' = 1
    BY <1>3 DEF Truncate, DueWrite
  <2>3. BudgetInv'
    BY <1>1, <1>2, <1>3, <2>2 DEF Truncate, BudgetInv, WatcherTypes
  <2> QED BY <1>1, <2>1, <2>3
<1>4. ASSUME NEW f \in Files, WriteAndClose(f) PROVE WatcherTypes' /\ BudgetInv'
  <2>0. events' \in {events, events + 1} /\ events' \in Nat
    BY <1>4 DEF WriteAndClose, WatcherTypes
  <2>1. WatcherTypes'
    BY <1>4, <2>0, WatcherAssumption DEF WriteAndClose, WatcherTypes
  <2>2. DueWrite = 1 /\ DueWrite' = 0
    BY <1>4 DEF WriteAndClose, DueWrite
  <2>3. BudgetInv'
    BY <1>1, <1>2, <1>4, <2>0, <2>2 DEF WriteAndClose, BudgetInv, WatcherTypes
  <2> QED BY <2>1, <2>3
<1>5. ASSUME NEW f \in Files, MoveOver(f) PROVE WatcherTypes' /\ BudgetInv'
  <2>0. events' \in {events, events + 1} /\ events' \in Nat
    BY <1>5 DEF MoveOver, WatcherTypes
  <2>1. WatcherTypes'
    BY <1>5, <2>0, WatcherAssumption DEF MoveOver, WatcherTypes
  <2>2. DueWrite = 0 /\ DueWrite' = 0
    BY <1>5 DEF MoveOver, DueWrite
  <2>3. BudgetInv'
    BY <1>1, <1>2, <1>5, <2>0, <2>2 DEF MoveOver, BudgetInv, WatcherTypes
  <2> QED BY <2>1, <2>3
<1> QED BY <1>1, <1>3, <1>4, <1>5 DEF EditStep

(* startWatching, the callback of the watch and clear.                     *)
LEMMA WatchTypes ==
  ASSUME ThreadInv, WatcherTypes, JobInv, BudgetInv,
         \/ StartWatching(TRUE) \/ StartWatching(FALSE) \/ OnChange \/ Unwatch
  PROVE  WatcherTypes' /\ JobInv' /\ BudgetInv'
<1>1. ASSUME NEW ok \in BOOLEAN, StartWatching(ok) PROVE WatcherTypes' /\ JobInv' /\ BudgetInv'
  <2>1. WatcherTypes' 
    BY <1>1 DEF StartWatching, WatcherTypes, fileVars
  <2>2. /\ job'[Main].pc \in {"idle", "load"} /\ job'[Io] = job[Io] /\ job[Main].pc = "idle"
    BY <1>1, WatcherAssumption DEF StartWatching, Go, ThreadInv, Threads, At
  <2>3. JobInv'
    BY <2>2 DEF JobInv, Places, Threads
  <2>4. BudgetInv'
    BY <1>1, <2>2 DEF StartWatching, WatcherTypes, BudgetInv, DueMain, DueIo, DueWrite, Loading,
       fileVars
  <2> QED BY <2>1, <2>3, <2>4
<1>2. CASE OnChange
  <2>1. WatcherTypes'
    BY <1>2 DEF OnChange, WatcherTypes, fileVars
  <2>2. /\ job'[Io] = [pc |-> "load"] /\ job'[Main] = job[Main] /\ job[Io].pc = "idle"
    BY <1>2, WatcherAssumption DEF OnChange, Go, ThreadInv, Threads, At
  <2>3. JobInv'
    BY <2>2 DEF JobInv, Places, Threads
  <2>4. BudgetInv'
    BY <1>2, <2>2 DEF OnChange, WatcherTypes, BudgetInv, DueMain, DueIo, DueWrite, Loading,
       fileVars
  <2> QED BY <2>1, <2>3, <2>4
<1>3. CASE Unwatch
  <2>1. WatcherTypes' /\ JobInv'
    BY <1>3 DEF Unwatch, WatcherTypes, JobInv, fileVars
  <2>2. UNCHANGED <<DueMain, DueIo, DueWrite, version, edits>> /\ events' = 0
    BY <1>3 DEF Unwatch, DueMain, DueIo, DueWrite, Loading, fileVars
  <2>3. DueMain \in Nat /\ DueIo \in Nat /\ DueWrite \in Nat
    BY DEF DueMain, DueIo, DueWrite
  <2>4. BudgetInv'
    BY <2>2, <2>3 DEF BudgetInv, WatcherTypes
  <2> QED BY <2>1, <2>4
<1> QED BY <1>1, <1>2, <1>3

(* loadConfig.                                                             *)
LEMMA LoadTypes ==
  ASSUME ThreadInv, WatcherTypes, JobInv, BudgetInv, NEW t \in Threads,
         LoadConfig(t) \/ Compare(t)
  PROVE  WatcherTypes' /\ JobInv' /\ BudgetInv'
<1>1. CASE LoadConfig(t)
  <2>1. WatcherTypes'
    BY <1>1 DEF LoadConfig, WatcherTypes, fileVars
  <2>2. /\ Loading(t)
        /\ job'[t] = Idle \/ job'[t] = [pc |-> "compare", cfg |-> LoadFromConfig(file)]
        /\ \A u \in Threads : u # t => job'[u] = job[u]
    BY <1>1 DEF LoadConfig, Go, ThreadInv, At, Loading
  <2>3. JobInv'
    BY <2>2, LoadLoads DEF JobInv, Places, Idle
  <2>4. BudgetInv'
    BY <1>1, <2>2, BudgetKept DEF LoadConfig, fileVars, Loading
  <2> QED BY <2>1, <2>3, <2>4
<1>2. CASE Compare(t)
  <2>1. job[t].pc = "compare" /\ Loaded(job[t].cfg)
    BY <1>2 DEF Compare, At, JobInv
  <2>2. WatcherTypes'
    BY <1>2, <2>1 DEF Compare, WatcherTypes, fileVars
  <2>3. job'[t].pc \in {"idle", "copy"} /\ \A u \in Threads : u # t => job'[u] = job[u]
    BY <1>2 DEF Compare, Go, ThreadInv, Idle
  <2>4. JobInv'
    BY <2>3 DEF JobInv, Places
  <2>5. t = Main => configPath
    BY <2>1 DEF ThreadInv, BeforeWatch, WatcherTypes
  <2>6. BudgetInv'
    <3>1. version' \in {version, version + 1} /\ UNCHANGED <<events, edits, writing, configPath>>
      BY <1>2 DEF Compare, fileVars
    <3>2. DueMain \in Nat /\ DueIo \in Nat /\ DueWrite \in Nat /\ DueWrite' = DueWrite
      BY <3>1 DEF DueMain, DueIo, DueWrite
    <3>3. CASE t = Main
      <4>1. DueMain = 1 /\ DueMain' = 0 /\ DueIo' = DueIo
        BY <2>1, <2>3, <2>5, <3>1, <3>3, WatcherAssumption DEF DueMain, DueIo, Loading, Threads
      <4>2. /\ events + DueWrite <= edits
            /\ version' + DueMain' + DueIo' + events + DueWrite <= edits + 1
        <5>1. CASE version' = version
          BY <3>2, <4>1, <5>1 DEF BudgetInv, WatcherTypes
        <5>2. CASE version' = version + 1
          BY <3>2, <4>1, <5>2 DEF BudgetInv, WatcherTypes
        <5> QED BY <3>1, <5>1, <5>2
      <4> QED BY <3>1, <3>2, <4>2 DEF BudgetInv
    <3>4. CASE t = Io
      <4>1. DueIo = 1 /\ DueIo' = 0 /\ DueMain' = DueMain
        BY <2>1, <2>3, <3>1, <3>4, WatcherAssumption DEF DueMain, DueIo, Loading, Threads
      <4>2. /\ events + DueWrite <= edits
            /\ version' + DueMain' + DueIo' + events + DueWrite <= edits + 1
        <5>1. CASE version' = version
          BY <3>2, <4>1, <5>1 DEF BudgetInv, WatcherTypes
        <5>2. CASE version' = version + 1
          BY <3>2, <4>1, <5>2 DEF BudgetInv, WatcherTypes
        <5> QED BY <3>1, <5>1, <5>2
      <4> QED BY <3>1, <3>2, <4>2 DEF BudgetInv
    <3> QED BY <3>3, <3>4 DEF Threads
  <2> QED BY <2>2, <2>4, <2>6
<1> QED BY <1>1, <1>2

(* A thread goes on to a place where nothing is loaded.                    *)
LEMMA GoTypes ==
  ASSUME ThreadInv, WatcherTypes, JobInv, BudgetInv, NEW t \in Threads, NEW j, Go(t, j),
         j.pc \in Places \ {"load", "compare"},
         UNCHANGED <<fileVars, events, watched, configPath, lastConfig, version>>,
         subscribers' \in Seq(Subscribers)
  PROVE  WatcherTypes' /\ JobInv' /\ BudgetInv'
<1>1. WatcherTypes'
  BY DEF WatcherTypes, fileVars
<1>2. job'[t] = j /\ \A u \in Threads : u # t => job'[u] = job[u]
  BY GoFacts DEF ThreadInv
<1>3. JobInv'
  BY <1>2 DEF JobInv
<1>4. BudgetInv'
  BY <1>2, BudgetKept DEF Loading, fileVars
<1> QED BY <1>1, <1>3, <1>4

(* notify.                                                                 *)
LEMMA NotifyTypes ==
  ASSUME ThreadInv, WatcherTypes, JobInv, BudgetInv, NEW t \in Threads,
         \/ CopySubscribers(t) \/ CopyCurrent(t)
         \/ CallUpdate(t) \/ UpdateReturns(t) \/ UpdateThrows(t)
  PROVE  WatcherTypes' /\ JobInv' /\ BudgetInv'
<1>1. PICK j : Go(t, j) /\ j.pc \in Places \ {"load", "compare"}
  <2>1. CASE UpdateReturns(t)
    <3>1. job[t].pc = "update" /\ DOMAIN job[t] = {"pc", "active", "cfg", "ver"}
      BY <2>1 DEF UpdateReturns, At, ThreadInv
    <3>2. PICK c : c = [job[t] EXCEPT !.pc = "notify", !.active = Tail(@)]
      OBVIOUS
    <3>3. c.pc = "notify"
      BY <3>1, <3>2, ReturnFields
    <3>4. Go(t, NotifyRest(c))
      BY <2>1, <3>2, Zenon DEF UpdateReturns
    <3>5. NotifyRest(c).pc \in Places \ {"load", "compare"}
      BY <3>3 DEF NotifyRest, Idle, Places
    <3> QED BY <3>4, <3>5
  <2>2. CASE CallUpdate(t)
    <3>1. job[t].pc = "notify" /\ DOMAIN job[t] = {"pc", "active", "cfg", "ver"}
      BY <2>2 DEF CallUpdate, At, ThreadInv
    <3>2. [job[t] EXCEPT !.pc = "update"].pc = "update"
      BY <3>1, CallFields
    <3> QED BY <2>2, <3>2 DEF CallUpdate, Places
  <2>3. CASE UpdateThrows(t)
    BY <2>3 DEF UpdateThrows, Idle, Places
  <2>4. CASE CopySubscribers(t)
    BY <2>4 DEF CopySubscribers, Places
  <2>5. CASE CopyCurrent(t)
    BY <2>5 DEF CopyCurrent, NotifyRest, Idle, Places
  <2> QED BY <2>1, <2>2, <2>3, <2>4, <2>5
<1>2. UNCHANGED <<fileVars, events, watched, configPath, lastConfig, version, subscribers>>
  BY DEF CopySubscribers, CopyCurrent, CallUpdate, UpdateReturns, UpdateThrows
<1>3. subscribers' \in Seq(Subscribers)
  BY <1>2 DEF WatcherTypes
<1> QED BY <1>1, <1>2, <1>3, GoTypes

(* attach.                                                                 *)
LEMMA AttachTypes ==
  ASSUME ThreadInv, WatcherTypes, JobInv, BudgetInv,
         (\E s \in Subscribers : Attach(s)) \/ AttachCopy \/ AttachUpdate
  PROVE  WatcherTypes' /\ JobInv' /\ BudgetInv'
<1>1. ASSUME NEW s \in Subscribers, Attach(s) PROVE WatcherTypes' /\ JobInv' /\ BudgetInv'
  <2>1. subscribers' \in Seq(Subscribers)
    BY <1>1 DEF Attach, WatcherTypes
  <2>2. CASE configPath
    BY <1>1, <2>1, <2>2, GoTypes DEF Attach, Places, Threads
  <2>3. CASE ~configPath
    <3>1. WatcherTypes' /\ job' = job
      BY <1>1, <2>1, <2>3 DEF Attach, WatcherTypes, fileVars
    <3> QED BY <1>1, <3>1, BudgetKept DEF Attach, JobInv, Loading, fileVars
  <2> QED BY <2>2, <2>3
<1>2. CASE AttachCopy
  BY <1>2, GoTypes DEF AttachCopy, Places, Threads, WatcherTypes
<1>3. CASE AttachUpdate
  BY <1>3, GoTypes DEF AttachUpdate, Places, Threads, WatcherTypes, Idle
<1> QED BY <1>1, <1>2, <1>3

-----------------------------------------------------------------------------
(* Without is a function that the definition of kept determines ...        *)
Kept(list, s, kept, k) ==
  IF k = 0 THEN <<>> ELSE IF list[k] = s THEN kept[k - 1] ELSE Append(kept[k - 1], list[k])

(* A set of numbers that has 0 and with a number below N the next has N.   *)
LEMMA Reach ==
  ASSUME NEW N \in Nat, NEW A \in SUBSET (0..N), 0 \in A, \A n \in A : n < N => n + 1 \in A
  PROVE  N \in A
<1> SUFFICES ASSUME N \notin A PROVE FALSE
  OBVIOUS
<1> DEFINE f == [n \in A |-> n + 1]
<1>1. IsFiniteSet(A)
  <2>1. IsFiniteSet(0..N)
    BY FS_Interval
  <2> QED BY <2>1, FS_Subset
<1>2. f \in Injection(A, A)
  <2>1. \A n \in A : n + 1 \in A
    OBVIOUS
  <2>2. f \in [A -> A]
    BY <2>1
  <2>3. \A a, b \in A : f[a] = f[b] => a = b
    OBVIOUS
  <2> QED BY <2>2, <2>3 DEF Injection, IsInjective
<1>3. f \in Surjection(A, A)
  BY <1>1, <1>2, FS_Injection
<1>4. \E n \in A : f[n] = 0
  BY <1>3 DEF Surjection
<1> QED BY <1>4

(* There is one: the first k entries of a list can be filtered for every k. *)
LEMMA KeptExists ==
  ASSUME NEW list, NEW s, Len(list) \in Nat
  PROVE  \E kept : kept = [k \in 0..Len(list) |-> Kept(list, s, kept, k)]
<1> DEFINE A == {n \in 0..Len(list) : \E f : f = [i \in 0..n |-> Kept(list, s, f, i)]}
<1>1. 0 \in A
  <2> DEFINE g == [i \in 0..0 |-> <<>>]
  <2>1. g = [i \in 0..0 |-> Kept(list, s, g, i)]
    BY DEF Kept
  <2> QED BY <2>1
<1>2. ASSUME NEW n \in A, n < Len(list) PROVE n + 1 \in A
  <2>1. PICK f : f = [i \in 0..n |-> Kept(list, s, f, i)]
    OBVIOUS
  <2> DEFINE next == IF list[n + 1] = s THEN f[n] ELSE Append(f[n], list[n + 1])
             g == [i \in 0..(n + 1) |-> IF i = n + 1 THEN next ELSE f[i]]
  <2>2. ASSUME NEW i \in 0..(n + 1) PROVE g[i] = Kept(list, s, g, i)
    <3>1. CASE i = n + 1
      BY <3>1 DEF Kept
    <3>2. CASE i \in 0..n
      <4>1. f[i] = Kept(list, s, f, i)
        BY <2>1, <3>2
      <4>2. i # 0 => i - 1 \in 0..n
        BY <3>2
      <4> QED BY <3>2, <4>1, <4>2 DEF Kept
    <3> QED BY <3>1, <3>2
  <2>3. g = [i \in 0..(n + 1) |-> Kept(list, s, g, i)]
    BY <2>2
  <2> QED BY <2>3
<1>3. Len(list) \in A
  <2> HIDE DEF A
  <2>1. A \in SUBSET (0..Len(list))
    BY DEF A
  <2> QED BY <1>1, <1>2, <2>1, Reach
<1> QED BY <1>3

(* ... and detach leaves a list of subscribers.                            *)
LEMMA WithoutType ==
  ASSUME NEW S, NEW list \in Seq(S), NEW s
  PROVE  Without(list, s) \in Seq(S)
<1>1. PICK F : F = CHOOSE kept : kept = [k \in 0..Len(list) |-> Kept(list, s, kept, k)]
  OBVIOUS
<1>2. Without(list, s) = F[Len(list)]
  BY <1>1 DEF Without, Kept
<1>3. Len(list) \in Nat
  OBVIOUS
<1>4. F = [k \in 0..Len(list) |-> Kept(list, s, F, k)]
  BY <1>1, <1>3, KeptExists
<1> DEFINE A == {n \in 0..Len(list) : F[n] \in Seq(S)}
<1>5. 0 \in A
  BY <1>3, <1>4 DEF Kept
<1>6. ASSUME NEW n \in A, n < Len(list) PROVE n + 1 \in A
  <2>1. n \in Nat /\ n + 1 \in 1..Len(list) /\ n + 1 \in 0..Len(list)
    BY <1>3, <1>6
  <2>2. F[n + 1] = Kept(list, s, F, n + 1)
    BY <1>4, <2>1
  <2>3. F[n] \in Seq(S) /\ list[n + 1] \in S
    BY <2>1
  <2>4. Append(F[n], list[n + 1]) \in Seq(S)
    BY <2>3
  <2>5. Kept(list, s, F, n + 1) \in {F[n], Append(F[n], list[n + 1])}
    BY <2>1 DEF Kept
  <2>6. F[n + 1] \in Seq(S)
    BY <2>2, <2>3, <2>4, <2>5
  <2> QED BY <2>1, <2>6
<1>7. Len(list) \in A
  <2> HIDE DEF A
  <2>1. A \in SUBSET (0..Len(list))
    BY DEF A
  <2> QED BY <1>3, <1>5, <1>6, <2>1, Reach
<1> QED BY <1>2, <1>7

(* detach.                                                                 *)
LEMMA DetachTypes ==
  ASSUME WatcherTypes, JobInv, BudgetInv, NEW s, Detach(s)
  PROVE  WatcherTypes' /\ JobInv' /\ BudgetInv'
<1>1. subscribers' \in Seq(Subscribers)
  BY WithoutType DEF Detach, WatcherTypes
<1>2. WatcherTypes' /\ JobInv'
  BY <1>1 DEF Detach, WatcherTypes, JobInv, fileVars
<1> QED BY <1>2, BudgetKept DEF Detach, fileVars, Loading

(* Every step keeps the types of the watcher.                              *)
LEMMA WatcherTypesStep ==
  ASSUME ThreadInv, OrderInv, WatcherTypes, JobInv, BudgetInv, [ControlNext]_controlVars
  PROVE  WatcherTypes' /\ JobInv' /\ BudgetInv'
<1>1. WatcherStep
  BY WatcherSteps
<1>2. ASSUME NEW t \in Threads,
             LoadStep(t) \/ CallUpdate(t) \/ UpdateReturns(t) \/ UpdateThrows(t)
      PROVE  WatcherTypes' /\ JobInv' /\ BudgetInv'
  BY <1>2, LoadTypes, NotifyTypes DEF LoadStep
<1>3. ASSUME UNCHANGED watcherVars PROVE WatcherTypes' /\ JobInv' /\ BudgetInv'
  <2>1. WatcherTypes' /\ JobInv'
    BY <1>3 DEF watcherVars, fileVars, WatcherTypes, JobInv
  <2> QED BY <1>3, <2>1, BudgetKept DEF watcherVars, fileVars, Loading
<1> QED BY <1>1, <1>2, <1>3, AttachTypes, DetachTypes, WatchTypes, EditTypes DEF WatcherStep

-----------------------------------------------------------------------------
(* The types of the debug server.  A client whose accept has completed     *)
(* waits in one handler, and only there.                                   *)
StartPlaces == {"no", "planned", "replace", "listen", "accept"}

HandlersInv ==
  /\ conn = [c \in Clients |-> conn[c]]
  /\ \A k \in 1..Len(handlers) : handlers[k] # Error => conn[handlers[k]] = "accepted"
  /\ \A j, k \in 1..Len(handlers) : handlers[j] # Error /\ handlers[j] = handlers[k] => j = k

StartTypes ==
  /\ running = FALSE
  /\ debugSubs \subseteq DebugSubs
  /\ \A t \in Threads : starting[t].pc \in StartPlaces

(* start and its callers.                                                  *)
LEMMA StartTypesStep ==
  ASSUME StartInv, StartTypes, [ControlNext]_controlVars
  PROVE  StartTypes'
<1>1. DebugStep
  BY DebugSteps
<1>2. CASE MainDebugStart
  <2>1. /\ starting'[Main].pc \in StartPlaces
        /\ \A u \in Threads : u # Main => starting'[u] = starting[u]
    <3>1. CASE starting[Main].pc = "planned"
      BY <1>2, <3>1 DEF MainDebugStart, StartInv, Threads, StartPlaces
    <3>2. CASE starting[Main].pc # "planned"
      BY <1>2, <3>2, NotStartingPc DEF MainDebugStart, StartInv, Threads, StartPlaces
    <3> QED BY <3>1, <3>2
  <2> QED BY <1>2, <2>1 DEF MainDebugStart, StartTypes
<1>3. ASSUME NEW t \in Threads, NEW cfg, DebugUpdate(t, cfg) PROVE StartTypes'
  <2>1. /\ starting'[t] = NotStarting \/ starting'[t] = [pc |-> "replace", addr |-> Listen(cfg)]
        /\ \A u \in Threads : u # t => starting'[u] = starting[u]
    BY <1>3 DEF DebugUpdate, StartInv
  <2>2. starting'[t].pc \in StartPlaces
    BY <2>1, NotStartingPc DEF StartPlaces
  <2> QED BY <1>3, <2>1, <2>2 DEF DebugUpdate, StopEffect, StartTypes
<1>4. ASSUME NEW t \in Threads, DebugStart(t) \/ DebugListen(t) PROVE StartTypes'
  <2>1. PICK place \in StartPlaces : StartGo(t, place)
    BY <1>4 DEF DebugStart, DebugListen, StartPlaces
  <2>2. starting'[t].pc = place /\ \A u \in Threads : u # t => starting'[u] = starting[u]
    BY <2>1, StartFacts DEF StartInv
  <2> QED BY <1>4, <2>2 DEF DebugStart, DebugListen, StartTypes
<1>5. ASSUME NEW t \in Threads, DebugListenFails(t) \/ DebugListenThrows(t) \/ DebugAccept(t)
      PROVE  StartTypes'
  <2>1. starting'[t].pc = "no" /\ \A u \in Threads : u # t => starting'[u] = starting[u]
    BY <1>5, NotStartingPc DEF DebugListenFails, DebugListenThrows, DebugAccept, StartInv
  <2> QED BY <1>5, <2>1 DEF DebugListenFails, DebugListenThrows, DebugAccept, StartTypes,
      StartPlaces
<1>6. CASE DebugAttach(DaemonSub) \/ DebugDetach(DaemonSub) \/ DebugStop
  BY <1>6, ControlAssumption DEF DebugAttach, DebugDetach, DebugStop, StopEffect, StartTypes
<1>7. CASE \/ DebugHandler \/ AcceptFails \/ UNCHANGED debugVars
          \/ \E c \in Clients : Connect(c) \/ Request(c) \/ AcceptCompletes(c)
  BY <1>7 DEF DebugHandler, AcceptFails, Connect, Request, AcceptCompletes, OnAcceptError, OnAccept,
     OnReadDebug, OnReadOther, OnReadError, debugVars, StartTypes
<1> QED BY <1>1, <1>2, <1>3, <1>4, <1>5, <1>6, <1>7 DEF DebugStep, StartStep

(* A connection moves on that is in no handler.                            *)
LEMMA ConnMoves ==
  ASSUME HandlersInv, handlers' = handlers, NEW c \in Clients, conn[c] # "accepted", NEW place,
         conn' = [conn EXCEPT ![c] = place]
  PROVE  HandlersInv'
BY DEF HandlersInv

(* A handler with an error joins the others.                               *)
LEMMA ErrorJoins ==
  ASSUME AcceptInv, HandlersInv, NEW n \in Nat, handlers' = handlers \o [k \in 1..n |-> Error],
         \/ conn' = conn
         \/ conn' = [c \in Clients |-> IF conn[c] = "backlog" THEN "closed" ELSE conn[c]]
  PROVE  HandlersInv'
<1>1. handlers \in Seq(Clients \cup {Error})
  BY DEF AcceptInv
<1>2. \A k \in 1..Len(handlers') :
        \/ k \in 1..Len(handlers) /\ handlers'[k] = handlers[k]
        \/ handlers'[k] = Error
  BY <1>1, ErrorsSeq
<1>3. \A k \in 1..Len(handlers) : handlers[k] \in Clients \cup {Error}
  BY <1>1
<1>4. \A k \in 1..Len(handlers) : handlers[k] # Error => conn'[handlers[k]] = "accepted"
  BY <1>3 DEF HandlersInv
<1>5. conn' = [c \in Clients |-> conn'[c]]
  BY DEF HandlersInv
<1>6. \A k \in 1..Len(handlers') : handlers'[k] # Error => conn'[handlers'[k]] = "accepted"
  BY <1>2, <1>4
<1>7. \A j, k \in 1..Len(handlers') :
        handlers'[j] # Error /\ handlers'[j] = handlers'[k] => j = k
  BY <1>2 DEF HandlersInv
<1> QED BY <1>5, <1>6, <1>7 DEF HandlersInv

(* The accepts that complete and the handlers that run.                    *)
LEMMA HandlersStep ==
  ASSUME AcceptInv, StartTypes, HandlersInv, [ControlNext]_controlVars
  PROVE  HandlersInv'
<1>0. handlers \in Seq(Clients \cup {Error}) /\ accepts \in Nat /\ Error \notin Clients
  BY ControlAssumption DEF AcceptInv
<1>1. DebugStep
  BY DebugSteps
<1>2. CASE \E t \in Threads : DebugStart(t)
  BY <1>0, <1>2, ErrorJoins DEF DebugStart
<1>3. CASE AcceptFails
  <2>1. handlers' = Append(handlers, Error) /\ conn' = conn
    BY <1>3 DEF AcceptFails
  <2>2. /\ Len(handlers') = Len(handlers) + 1 /\ handlers'[Len(handlers) + 1] = Error
        /\ \A k \in 1..Len(handlers) : handlers'[k] = handlers[k]
    BY <1>0, <2>1
  <2>3. \A k \in 1..Len(handlers') : k \in 1..Len(handlers) \/ k = Len(handlers) + 1
    BY <1>0, <2>2
  <2> QED BY <2>1, <2>2, <2>3 DEF HandlersInv
<1>4. ASSUME NEW c \in Clients, AcceptCompletes(c) PROVE HandlersInv'
  <2>1. /\ handlers' = Append(handlers, c) /\ conn[c] = "backlog"
        /\ conn' = [conn EXCEPT ![c] = "accepted"]
    BY <1>4 DEF AcceptCompletes
  <2>2. /\ Len(handlers') = Len(handlers) + 1 /\ handlers'[Len(handlers) + 1] = c
        /\ \A k \in 1..Len(handlers) : handlers'[k] = handlers[k]
    BY <1>0, <2>1
  <2>3. \A k \in 1..Len(handlers') : k \in 1..Len(handlers) \/ k = Len(handlers) + 1
    BY <1>0, <2>2
  <2>4. \A k \in 1..Len(handlers) : handlers[k] # c
    BY <1>0, <2>1 DEF HandlersInv
  <2>5. conn'[c] = "accepted" /\ \A d \in Clients : d # c => conn'[d] = conn[d]
    BY <2>1 DEF HandlersInv
  <2>6. \A k \in 1..Len(handlers) : handlers[k] # Error => handlers[k] \in Clients
    BY <1>0
  <2>7. conn' = [d \in Clients |-> conn'[d]]
    BY <2>1 DEF HandlersInv
  <2>8. \A k \in 1..Len(handlers') : handlers'[k] # Error => conn'[handlers'[k]] = "accepted"
    BY <2>2, <2>3, <2>5, <2>6 DEF HandlersInv
  <2>9. \A j, k \in 1..Len(handlers') :
          handlers'[j] # Error /\ handlers'[j] = handlers'[k] => j = k
    BY <2>2, <2>3, <2>4 DEF HandlersInv
  <2> QED BY <2>7, <2>8, <2>9 DEF HandlersInv
<1>5. CASE OnAcceptError \/ OnAccept
  <2>1. /\ handlers # <<>> /\ handlers' = Tail(handlers)
        /\ \/ conn' = conn
           \/ /\ handlers[1] \in Clients /\ handlers[1] # Error
              /\ conn' = [conn EXCEPT ![handlers[1]] = "reading"]
    BY <1>0, <1>5 DEF OnAcceptError, OnAccept
  <2>2. \A k \in 1..Len(handlers') : k + 1 \in 1..Len(handlers) /\ handlers'[k] = handlers[k + 1]
    BY <1>0, <2>1, TailFacts
  <2>3. 1 \in 1..Len(handlers) /\ Len(handlers') \in Nat
    BY <1>0, <2>1, TailFacts
  <2>4. \A k \in 1..Len(handlers') : handlers'[k] # Error => conn'[handlers'[k]] = "accepted"
    <3>1. SUFFICES ASSUME NEW k \in 1..Len(handlers'), handlers'[k] # Error
                   PROVE  conn'[handlers'[k]] = "accepted"
      OBVIOUS
    <3>2. conn[handlers'[k]] = "accepted" /\ handlers'[k] \in Clients
      BY <1>0, <2>2, <3>1 DEF HandlersInv
    <3>3. k + 1 # 1
      BY <2>3
    <3>4. handlers[1] # Error => handlers'[k] # handlers[1]
      BY <2>2, <2>3, <3>1, <3>3 DEF HandlersInv
    <3> QED BY <2>1, <3>2, <3>4 DEF HandlersInv
  <2>5. \A j, k \in 1..Len(handlers') :
          handlers'[j] # Error /\ handlers'[j] = handlers'[k] => j = k
    <3>1. SUFFICES ASSUME NEW j \in 1..Len(handlers'), NEW k \in 1..Len(handlers'),
                          handlers'[j] # Error, handlers'[j] = handlers'[k]
                   PROVE  j = k
      OBVIOUS
    <3>2. j + 1 = k + 1
      BY <2>2, <3>1 DEF HandlersInv
    <3> QED BY <2>3, <3>2
  <2>6. conn' = [d \in Clients |-> conn'[d]]
    BY <2>1 DEF HandlersInv
  <2> QED BY <2>4, <2>5, <2>6 DEF HandlersInv
<1>6. ASSUME NEW c \in Clients,
             Connect(c) \/ Request(c) \/ OnReadDebug(c) \/ OnReadOther(c) \/ OnReadError(c)
      PROVE  HandlersInv'
  <2>1. conn[c] # "accepted" /\ handlers' = handlers
    BY <1>6 DEF Connect, Request, OnReadDebug, OnReadOther, OnReadError
  <2>2. \E place : conn' = [conn EXCEPT ![c] = place]
    BY <1>6 DEF Connect, Request, OnReadDebug, OnReadOther, OnReadError
  <2> QED BY <2>1, <2>2, ConnMoves
<1>7. CASE handlers' = handlers /\ conn' = conn
  BY <1>7 DEF HandlersInv
<1>8. ASSUME NEW t \in Threads, NEW cfg, DebugUpdate(t, cfg) PROVE HandlersInv'
  BY <1>7, <1>8 DEF DebugUpdate, StopEffect, StartTypes
<1>9. CASE DebugStop
  BY <1>7, <1>9 DEF DebugStop, StopEffect, StartTypes
<1>10. ASSUME NEW t \in Threads,
              DebugListenFails(t) \/ DebugListenThrows(t) \/ DebugListen(t) \/ DebugAccept(t)
       PROVE  HandlersInv'
  BY <1>7, <1>10 DEF DebugListenFails, DebugListenThrows, DebugListen, DebugAccept
<1>11. CASE \/ MainDebugStart \/ DebugAttach(DaemonSub) \/ DebugDetach(DaemonSub)
           \/ UNCHANGED debugVars
  BY <1>7, <1>11 DEF MainDebugStart, DebugAttach, DebugDetach, debugVars
<1> QED BY <1>1, <1>2, <1>3, <1>4, <1>5, <1>6, <1>8, <1>9, <1>10, <1>11
        DEF DebugStep, StartStep, DebugHandler

-----------------------------------------------------------------------------
(* The end of the io thread, and the subscribers that have yet to come.    *)
EndTypes == ioAlive \in BOOLEAN /\ toCome \subseteq LateSubs

(* The io thread only ends, and subscribers only arrive.                   *)
LEMMA EndTypesStep ==
  ASSUME EndTypes, [ControlNext]_controlVars
  PROVE  EndTypes'
<1>1. toCome' \subseteq toCome /\ ioAlive' \in {ioAlive, FALSE}
  BY DEF ControlNext, MainStep, MainAttach, MainDebugAttach, MainDebugStart, MainDebugThrows,
     MainWatch, MainRun, LateAttach, LateDetach, MainDetach, MainDebugStop, MainUnwatch, MainExit,
     DeliverUpdate, DeliveryReturns, DeliveryThrows, ThreadStep, LateStep, IoStep,
     ServiceFileThrows, EnvironmentStep, KernelStep, controlVars
<1> QED BY <1>1 DEF EndTypes

(* The initial states have the types.                                      *)
LEMMA TypesInit ==
  ASSUME ControlInit
  PROVE  /\ OrderInv /\ WatcherTypes /\ JobInv /\ BudgetInv
         /\ StartTypes /\ HandlersInv /\ EndTypes
<1>1. OrderInv
  BY DEF ControlInit, WatcherInit, OrderInv
<1>2. WatcherTypes
  <2>1. /\ file \in Files \cup {EmptyConfigFile} /\ writing = FALSE /\ watched = FALSE
        /\ edits = 0 /\ events = 0 /\ version = 0 /\ configPath = FALSE
        /\ subscribers = <<>> /\ lastConfig = DefaultConfig
    BY DEF ControlInit, WatcherInit
  <2>2. Loaded(lastConfig)
    BY <2>1, DefaultLoaded
  <2>3. subscribers \in Seq(Subscribers)
    BY <2>1
  <2>4. edits \in 0..MaxEdits /\ events \in Nat /\ version \in Nat
    BY <2>1, WatcherAssumption
  <2>5. file \in Files \cup {<<>>, EmptyConfigFile}
    BY <2>1
  <2>6. writing \in BOOLEAN /\ watched \in BOOLEAN /\ configPath \in BOOLEAN
    BY <2>1
  <2> QED BY <2>2, <2>3, <2>4, <2>5, <2>6 DEF WatcherTypes
<1>3. JobInv
  BY DEF ControlInit, WatcherInit, JobInv, Idle, Places
<1>4. BudgetInv
  <2>1. job[Io].pc = "idle" /\ configPath = FALSE /\ writing = FALSE
    BY DEF ControlInit, WatcherInit, Idle, Threads
  <2>2. DueMain = 1 /\ DueIo = 0 /\ DueWrite = 0
    BY <2>1 DEF DueMain, DueIo, DueWrite, Loading
  <2> QED BY <2>2 DEF ControlInit, WatcherInit, BudgetInv
<1>5. HandlersInv
  <2>1. handlers = <<>> /\ conn = [c \in Clients |-> "none"]
    BY DEF ControlInit, DebugInit
  <2>2. Len(handlers) = 0 /\ conn = [c \in Clients |-> conn[c]]
    BY <2>1
  <2> QED BY <2>2 DEF HandlersInv
<1>8. EndTypes
  BY DEF ControlInit, EndTypes
<1>6. \A t \in Threads : starting[t].pc \in StartPlaces
  BY ControlAssumption, NotStartingPc DEF ControlInit, DebugInit, StartPlaces
<1>7. running = FALSE /\ debugSubs = {}
  BY DEF ControlInit, DebugInit
<1> QED BY <1>1, <1>2, <1>3, <1>4, <1>5, <1>6, <1>7, <1>8 DEF StartTypes

(* The types of the state, for any files, subscribers, clients and number  *)
(* of edits: an edit makes one event at most and an event one version, and *)
(* a client that was accepted waits in one handler.  And the configuration *)
(* in use can be saved and loaded, whatever was in the file it came from:  *)
(* what encode writes decode reads back (configs.hpp 120-211).             *)
THEOREM ControlSafety == ControlSpec => []ControlInv
<1> DEFINE Types == /\ OrderInv /\ WatcherTypes /\ JobInv /\ BudgetInv
                    /\ StartTypes /\ HandlersInv /\ EndTypes
           Base == ThreadInv /\ StartInv /\ AcceptInv
<1>1. ControlInit => Base /\ Types
  BY BaseInit, TypesInit
<1>2. Base /\ Types /\ [ControlNext]_controlVars => Base' /\ Types'
  BY BaseStep, OrderStep, WatcherTypesStep, StartTypesStep, HandlersStep, EndTypesStep
<1>3. ASSUME Base, Types PROVE ControlTypeOK
  <2>1. /\ events \in 0..MaxEdits /\ version \in 0..(2 * MaxEdits + 1)
    <3>1. DueMain \in Nat /\ DueIo \in Nat /\ DueWrite \in Nat
      BY DEF DueMain, DueIo, DueWrite
    <3>2. events <= edits /\ version <= edits + 1
      BY <1>3, <3>1 DEF BudgetInv, WatcherTypes
    <3> QED BY <1>3, <3>2, WatcherAssumption DEF WatcherTypes
  <2>2. DOMAIN lastConfig = DOMAIN DefaultConfig
    BY <1>3, DefaultLoaded DEF WatcherTypes, Loaded
  <2>3. /\ subMutex \in {Main, Nobody}
        /\ subMutex = Main <=> job[Main].pc \in {"attached", "attachUpdate"}
    BY <1>3, WatcherAssumption DEF ThreadInv, Attaching, Threads
  <2>4. \A t \in Threads : job[t].pc \in Places /\ starting[t].pc \in StartPlaces
    BY <1>3 DEF JobInv, StartTypes
  <2>5. \A k \in 1..Len(handlers) : handlers[k] = Error \/ conn[handlers[k]] = "accepted"
    BY <1>3 DEF HandlersInv
  <2>6. running \in BOOLEAN /\ accepts \in Nat /\ debugSubs \subseteq DebugSubs
    BY <1>3 DEF StartTypes, AcceptInv
  <2> QED BY <1>3, <2>1, <2>2, <2>3, <2>4, <2>5, <2>6
          DEF ControlTypeOK, WatcherTypes, EndTypes, Places, StartPlaces
<1>4. Types => SavedConfigLoads
  BY ConfigRoundTrip DEF WatcherTypes, SavedConfigLoads
<1>5. Base /\ Types => ControlInv
  BY <1>3, <1>4 DEF ControlInv
<1> HIDE DEF Base, Types
<1> QED BY <1>1, <1>2, <1>5, PTL DEF ControlSpec
=============================================================================
