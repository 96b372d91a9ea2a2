---------------------------- MODULE ConfigWatcher ----------------------------
(***************************************************************************)
(* ConfigWatcher (src/src/daemon/config_watcher.cc): the main              *)
(* configuration file, the Configs read from it, and the subscribers every *)
(* change is handed to.  startWatching loads the file on the main thread,  *)
(* the inotify callback on the io thread; both go through loadConfig and   *)
(* notify, and neither holds a mutex from one end to the other.            *)
(*                                                                         *)
(* A file is what Configs reads, <<>> when it is empty or missing, or      *)
(* Malformed.  ControlPlane says when the operations are called.           *)
(***************************************************************************)
EXTENDS Configs, Sequences, FiniteSets

CONSTANTS
  Main, Io,      \* the two threads
  Nobody,        \* no thread holds the mutex
  Files,         \* contents an editor may write
  Malformed,     \* contents YAML::LoadFile or a conversion throws at
  Subscribers,   \* the objects that may be attached
  Throwing,      \* subscribers whose update may throw
  MaxEdits       \* bound: how often the file is edited

Threads == {Main, Io}

ASSUME WatcherAssumption ==
  /\ Main # Io /\ Nobody \notin Threads
  /\ Throwing \subseteq Subscribers
  /\ MaxEdits \in Nat

VARIABLES
  file,         \* what a reader of hebpf.yaml finds
  writing,      \* an editor has truncated the file and not closed it yet
  edits,        \* number of edits so far
  events,       \* events of the file that onInotifyEvent has not delivered
  watched,      \* the file is watched
  configPath,   \* config_path_ is set
  lastConfig,   \* last_config_
  version,      \* how often last_config_ has been assigned
  subscribers,  \* subscribers_
  subMutex,     \* holder of subscribers_mutex_
  job,          \* [Threads -> where the thread is in loadConfig or attach]
  seen          \* [Subscribers -> the last configuration update was called with]

fileVars == <<file, writing, edits>>
watcherVars ==
  <<fileVars, events, watched, configPath, lastConfig, version, subscribers, subMutex, job, seen>>

-----------------------------------------------------------------------------
Idle == [pc |-> "idle"]
At(t, place) == job[t].pc = place
Go(t, j) == job' = [job EXCEPT ![t] = j]

-----------------------------------------------------------------------------
(* The editor: it writes the file in place, empty until it is closed, or   *)
(* moves a new file over it.  The kernel reports the close and the move.   *)
Truncate ==
  /\ ~writing /\ edits < MaxEdits
  /\ file' = <<>> /\ writing' = TRUE /\ edits' = edits + 1
  /\ UNCHANGED <<events, watched, configPath, lastConfig, version, subscribers, subMutex, job, seen>>

WriteAndClose(f) ==
  /\ writing
  /\ file' = f /\ writing' = FALSE
  /\ events' = IF watched THEN events + 1 ELSE events
  /\ UNCHANGED <<edits, watched, configPath, lastConfig, version, subscribers, subMutex, job, seen>>

MoveOver(f) ==
  /\ ~writing /\ edits < MaxEdits
  /\ file' = f /\ edits' = edits + 1
  /\ events' = IF watched THEN events + 1 ELSE events
  /\ UNCHANGED <<writing, watched, configPath, lastConfig, version, subscribers, subMutex, job, seen>>

-----------------------------------------------------------------------------
(* startWatching: the path is set and the file watched, then it is loaded. *)
(* When watchConfig fails the exception ends main().                       *)
StartWatching(ok) ==
  /\ At(Main, "idle") /\ ~configPath
  /\ configPath' = TRUE
  /\ watched' = ok
  /\ IF ok THEN Go(Main, [pc |-> "load"]) ELSE UNCHANGED job
  /\ UNCHANGED <<fileVars, events, lastConfig, version, subscribers, subMutex, seen>>

OnChangeIgnoring ==    \* mutant: the name of the event is not the one of the file
  /\ At(Io, "idle") /\ events > 0
  /\ events' = events - 1
  /\ UNCHANGED <<fileVars, watched, configPath, lastConfig, version, subscribers, subMutex, job, seen>>

(* The callback of the watch, called by the io thread.                     *)
OnChange ==
  /\ At(Io, "idle") /\ events > 0
  /\ events' = events - 1
  /\ Go(Io, [pc |-> "load"])
  /\ UNCHANGED <<fileVars, watched, configPath, lastConfig, version, subscribers, subMutex, seen>>

(* clear(), and destroyManager, which drops the callback with the watch.   *)
Unwatch ==
  /\ watched' = FALSE
  /\ events' = 0
  /\ UNCHANGED <<fileVars, configPath, lastConfig, version, subscribers, subMutex, job, seen>>

-----------------------------------------------------------------------------
(* loadConfig.  The file is read and decoded; what throws is swallowed.    *)
LoadConfig(t) ==
  /\ At(t, "load")
  /\ Go(t, IF file = Malformed THEN Idle ELSE [pc |-> "compare", cfg |-> LoadFromConfig(file)])
  /\ UNCHANGED <<fileVars, events, watched, configPath, lastConfig, version, subscribers, subMutex, seen>>

CompareKeeping(t) ==    \* mutant: last_config_ is not assigned
  /\ At(t, "compare")
  /\ Go(t, IF job[t].cfg = lastConfig THEN Idle ELSE [pc |-> "copy"])
  /\ UNCHANGED <<fileVars, events, watched, configPath, lastConfig, version, subscribers, subMutex, seen>>

(* Compared and assigned under config_mutex_.                              *)
Compare(t) ==
  /\ At(t, "compare")
  /\ IF job[t].cfg = lastConfig
     THEN Go(t, Idle) /\ UNCHANGED <<lastConfig, version>>
     ELSE /\ lastConfig' = job[t].cfg /\ version' = version + 1
          /\ Go(t, [pc |-> "copy"])
  /\ UNCHANGED <<fileVars, events, watched, configPath, subscribers, subMutex, seen>>

-----------------------------------------------------------------------------
(* notify: the subscribers are copied under one mutex, the configuration   *)
(* under the other; update is called with neither.                         *)
CopySubscribers(t) ==
  /\ At(t, "copy") /\ subMutex = Nobody
  /\ Go(t, [pc |-> "current", active |-> subscribers])
  /\ UNCHANGED <<fileVars, events, watched, configPath, lastConfig, version, subscribers, subMutex, seen>>

NotifyRest(j) == IF j.active = <<>> THEN Idle ELSE j

CopyCurrent(t) ==
  /\ At(t, "current")
  /\ Go(t, NotifyRest([pc |-> "notify", active |-> job[t].active, cfg |-> lastConfig, ver |-> version]))
  /\ UNCHANGED <<fileVars, events, watched, configPath, lastConfig, version, subscribers, subMutex, seen>>

(* update of the next subscriber is called ...                             *)
CallUpdate(t) ==
  /\ At(t, "notify")
  /\ seen' = [seen EXCEPT ![Head(job[t].active)] = [cfg |-> job[t].cfg, ver |-> job[t].ver]]
  /\ Go(t, [job[t] EXCEPT !.pc = "update"])
  /\ UNCHANGED <<fileVars, events, watched, configPath, lastConfig, version, subscribers, subMutex>>

(* ... and returns, or throws: loadConfig swallows the exception and the   *)
(* subscribers that are left are not called.                               *)
UpdateReturns(t) ==
  /\ At(t, "update")
  /\ Go(t, NotifyRest([job[t] EXCEPT !.pc = "notify", !.active = Tail(@)]))
  /\ UNCHANGED <<fileVars, events, watched, configPath, lastConfig, version, subscribers, subMutex, seen>>

UpdateThrows(t) ==
  /\ At(t, "update") /\ Head(job[t].active) \in Throwing
  /\ Go(t, Idle)
  /\ UNCHANGED <<fileVars, events, watched, configPath, lastConfig, version, subscribers, subMutex, seen>>

-----------------------------------------------------------------------------
(* attach: the subscriber is added and, once there is a configuration,     *)
(* called with it, all under subscribers_mutex_.                           *)
Attach(s) ==
  /\ At(Main, "idle") /\ subMutex = Nobody
  /\ subscribers' = Append(subscribers, s)
  /\ IF configPath
     THEN subMutex' = Main /\ Go(Main, [pc |-> "attached", sub |-> s])
     ELSE UNCHANGED <<subMutex, job>>
  /\ UNCHANGED <<fileVars, events, watched, configPath, lastConfig, version, seen>>

AttachCopyUnlocked ==    \* mutant: the mutex ends with the push
  /\ At(Main, "attached")
  /\ Go(Main, [pc |-> "attachUpdate", sub |-> job[Main].sub, cfg |-> lastConfig, ver |-> version])
  /\ subMutex' = Nobody
  /\ UNCHANGED <<fileVars, events, watched, configPath, lastConfig, version, subscribers, seen>>

AttachCopy ==
  /\ At(Main, "attached")
  /\ Go(Main, [pc |-> "attachUpdate", sub |-> job[Main].sub, cfg |-> lastConfig, ver |-> version])
  /\ UNCHANGED <<fileVars, events, watched, configPath, lastConfig, version, subscribers, subMutex, seen>>

AttachUpdate ==
  /\ At(Main, "attachUpdate")
  /\ seen' = [seen EXCEPT ![job[Main].sub] = [cfg |-> job[Main].cfg, ver |-> job[Main].ver]]
  /\ subMutex' = Nobody
  /\ Go(Main, Idle)
  /\ UNCHANGED <<fileVars, events, watched, configPath, lastConfig, version, subscribers>>

(* detach: every entry of the subscriber goes, the others keep their order. *)
Without(list, s) ==
  LET kept[k \in 0..Len(list)] ==
        IF k = 0 THEN <<>>
        ELSE IF list[k] = s THEN kept[k - 1] ELSE Append(kept[k - 1], list[k])
  IN  kept[Len(list)]

Detach(s) ==
  /\ At(Main, "idle") /\ subMutex = Nobody
  /\ subscribers' = Without(subscribers, s)
  /\ UNCHANGED <<fileVars, events, watched, configPath, lastConfig, version, subMutex, job, seen>>

-----------------------------------------------------------------------------
(* The file is the one --get-conf wrote, or has been edited.               *)
WatcherInit ==
  /\ file \in Files \cup {EmptyConfigFile}
  /\ writing = FALSE /\ edits = 0 /\ events = 0
  /\ watched = FALSE /\ configPath = FALSE
  /\ lastConfig = DefaultConfig /\ version = 0
  /\ subscribers = <<>> /\ subMutex = Nobody
  /\ job = [t \in Threads |-> Idle]
  /\ seen = [s \in Subscribers |-> [cfg |-> DefaultConfig, ver |-> 0]]

(* The steps of loadConfig and notify up to a call of update, and after.   *)
LoadStep(t) ==
  LoadConfig(t) \/ Compare(t) \/ CopySubscribers(t) \/ CopyCurrent(t)

EditStep == Truncate \/ \E f \in Files : WriteAndClose(f) \/ MoveOver(f)
=============================================================================
