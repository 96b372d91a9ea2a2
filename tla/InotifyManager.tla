--------------------------- MODULE InotifyManager ---------------------------
(***************************************************************************)
(* InotifyManager (src/src/inotify): which configuration files are watched *)
(* and which of their changes reach the callback that loads them.  The     *)
(* kernel watches directories; map_ lists the files of interest of every   *)
(* watched directory, and the first one carries the watch descriptor.      *)
(*                                                                         *)
(* Every operation looks its file up under the mutex, gives the mutex back *)
(* and takes it again to use the iterators it found: two steps, between    *)
(* which another thread may run.                                           *)
(***************************************************************************)
EXTENDS Integers, Sequences, FiniteSets

CONSTANTS
  Threads,     \* the threads that watch files: main and io
  IoThread,    \* the one that reads the events of the kernel
  Paths,       \* configured paths
  ParentDir,   \* [Paths -> directory]: getParentDir
  FileName,    \* [Paths -> file name without the directory]
  BarePaths,   \* the paths that are no more than a file name
  MainConfig,  \* hebpf.yaml, the path given to startWatching
  NoSuchDir,   \* directories inotify_add_watch fails for
  MaxPending   \* bound: events in the kernel's queue

Cwd == "."
Dirs == {ParentDir[p] : p \in Paths} \cup {Cwd}

ASSUME InotifyAssumption ==
  /\ IoThread \in Threads
  /\ MainConfig \in BarePaths /\ BarePaths \subseteq Paths
  /\ \A p \in BarePaths : ParentDir[p] = Cwd
  /\ \A p, q \in BarePaths : FileName[p] = FileName[q] => p = q
  /\ NoSuchDir \subseteq Dirs
  /\ MaxPending \in Nat

VARIABLES
  phase,     \* of main(): before startWatching, "running", after destroyManager
  map,       \* map_: [Dirs -> entries], <<>> for a directory without an item
  kernel,    \* directories the kernel watches
  pending,   \* names of changed files, in the kernel's queue
  op,        \* [Threads -> the operation the thread is in]
  watched,   \* paths that watchConfig has promised to watch
  stale      \* paths whose file has changed since it was loaded

inotifyVars == <<phase, map, kernel, pending, op, watched, stale>>

Idle == [pc |-> "idle"]
Undefined == [pc |-> "undefined"]

Listed(p) == {k \in 1..Len(map[ParentDir[p]]) : map[ParentDir[p]][k].config = p}

Begin(t, o) == op' = [op EXCEPT ![t] = o]

-----------------------------------------------------------------------------
(* watchConfig, called by startWatching for the main configuration and, by *)
(* the updates that follow, for the files of services.  A path that is     *)
(* already listed keeps the callback it has.                               *)
FindWatch(t, p) ==
  /\ op[t] = Idle
  /\ \/ phase = "init" /\ p = MainConfig
     \/ phase = "running" /\ MainConfig \in watched /\ p # MainConfig
  /\ phase' = "running"
  /\ \/ /\ Listed(p) # {}
        /\ watched' = watched \cup {p}
        /\ Begin(t, [pc |-> "load", path |-> p])
     \/ /\ Listed(p) = {}
        /\ Begin(t, [pc |-> "watch", path |-> p, hasDir |-> map[ParentDir[p]] # <<>>])
        /\ UNCHANGED watched
  /\ UNCHANGED <<map, kernel, pending, stale>>

(* The directory was not found: it is watched, and gets a list of its own. *)
AddWatch(t) ==
  /\ op[t].pc = "watch" /\ ~op[t].hasDir
  /\ LET p == op[t].path
         d == ParentDir[p]
     IN  \/ /\ d \in NoSuchDir
            /\ Begin(t, Idle)
            /\ UNCHANGED <<map, kernel, watched>>
         \/ /\ d \notin NoSuchDir
            /\ kernel' = kernel \cup {d}
            /\ map' = [map EXCEPT ![d] = <<[wd |-> TRUE, config |-> p]>>]
            /\ watched' = watched \cup {p}
            /\ Begin(t, [pc |-> "load", path |-> p])
  /\ UNCHANGED <<phase, pending, stale>>

(* The directory was found: the path joins its list, if there still is one.*)
JoinWatch(t) ==
  /\ op[t].pc = "watch" /\ op[t].hasDir
  /\ LET p == op[t].path
         d == ParentDir[p]
     IN  \/ /\ map[d] = <<>>
            /\ Begin(t, Undefined)
            /\ UNCHANGED <<map, watched>>
         \/ /\ map[d] # <<>>
            /\ map' = [map EXCEPT ![d] = Append(@, [wd |-> FALSE, config |-> p])]
            /\ watched' = watched \cup {p}
            /\ Begin(t, [pc |-> "load", path |-> p])
  /\ UNCHANGED <<phase, kernel, pending, stale>>

(* What the caller of watchConfig does when it has returned TRUE, and what *)
(* the callback does: the file is read.                                    *)
LoadFile(t) ==
  /\ op[t].pc = "load"
  /\ stale' = stale \ {op[t].path}
  /\ Begin(t, Idle)
  /\ UNCHANGED <<phase, map, kernel, pending, watched>>

-----------------------------------------------------------------------------
(* goodbyeConfig, for the files of services                                *)
FindGoodbye(t, p) ==
  /\ op[t] = Idle
  /\ phase = "running" /\ MainConfig \in watched /\ p # MainConfig
  /\ \/ Listed(p) = {} /\ watched' = watched \ {p} /\ UNCHANGED op
     \/ /\ Listed(p) # {}
        /\ \E k \in Listed(p) :
             Begin(t, [pc |-> "goodbye", path |-> p, pos |-> k, seen |-> map[ParentDir[p]]])
        /\ UNCHANGED watched
  /\ UNCHANGED <<phase, map, kernel, pending, stale>>

WithoutFirst(s, k) == Tail(s)    \* mutant: the wrong entry goes

Without(s, k) == [j \in 1..(Len(s) - 1) |-> IF j < k THEN s[j] ELSE s[j + 1]]

(* The entry goes, and with the first one the watch of the directory; an   *)
(* iterator into a list that has changed meanwhile is invalid.             *)
Goodbye(t) ==
  /\ op[t].pc = "goodbye"
  /\ LET p == op[t].path
         d == ParentDir[p]
     IN  \/ /\ map[d] # op[t].seen
            /\ Begin(t, Undefined)
            /\ UNCHANGED <<map, kernel, watched>>
         \/ /\ map[d] = op[t].seen
            /\ map' = [map EXCEPT ![d] = Without(@, op[t].pos)]
            /\ kernel' = IF map[d][op[t].pos].wd THEN kernel \ {d} ELSE kernel
            /\ watched' = watched \ {p}
            /\ Begin(t, Idle)
  /\ UNCHANGED <<phase, pending, stale>>

(* Mutant: the lists are cleared before the descriptors are looked at.     *)
DestroyManagerLeaking ==
  /\ phase = "running"
  /\ phase' = "down"
  /\ map' = [d \in Dirs |-> <<>>]
  /\ watched' = {}
  /\ UNCHANGED <<kernel, pending, op, stale>>

(* main() is about to end: what is under way goes on, nothing new begins.  *)
DestroyManager ==
  /\ phase = "running"
  /\ phase' = "down"
  /\ map' = [d \in Dirs |-> <<>>]
  /\ kernel' = kernel \ {d \in Dirs : \E k \in 1..Len(map[d]) : map[d][k].wd}
  /\ watched' = {}
  /\ UNCHANGED <<pending, op, stale>>

-----------------------------------------------------------------------------
(* The file of a path is written or replaced: the kernel has an event,     *)
(* with the name of the file, for whoever watches its directory.           *)
FileChanged(p) ==
  /\ Len(pending) < MaxPending
  /\ stale' = stale \cup {p}
  /\ pending' = IF ParentDir[p] \in kernel THEN Append(pending, FileName[p]) ELSE pending
  /\ UNCHANGED <<phase, map, kernel, op, watched>>

(* Mutant: only the first entry of the list is compared with the name.     *)
FindEventFirstOnly ==
  /\ op[IoThread] = Idle /\ pending # <<>>
  /\ pending' = Tail(pending)
  /\ LET found == {p \in BarePaths : FileName[p] = Head(pending) /\ 1 \in Listed(p)}
     IN  \/ found = {} /\ UNCHANGED op
         \/ \E p \in found :
              Begin(IoThread, [pc |-> "event", path |-> p, seen |-> map[Cwd]])
  /\ UNCHANGED <<phase, map, kernel, watched, stale>>

(* onInotifyEvent looks for the name as it is, in the list of the current  *)
(* directory; a name that is not found is dropped.                         *)
FindEvent ==
  /\ op[IoThread] = Idle /\ pending # <<>>
  /\ pending' = Tail(pending)
  /\ LET found == {p \in BarePaths : FileName[p] = Head(pending) /\ Listed(p) # {}}
     IN  \/ found = {} /\ UNCHANGED op
         \/ \E p \in found :
              Begin(IoThread, [pc |-> "event", path |-> p, seen |-> map[Cwd]])
  /\ UNCHANGED <<phase, map, kernel, watched, stale>>

(* The callback of the entry is copied, and called without the mutex.      *)
OnInotifyEvent ==
  /\ op[IoThread].pc = "event"
  /\ Begin(IoThread, IF map[Cwd] = op[IoThread].seen
                     THEN [pc |-> "load", path |-> op[IoThread].path]
                     ELSE Undefined)
  /\ UNCHANGED <<phase, map, kernel, pending, watched, stale>>

-----------------------------------------------------------------------------
InotifyInit ==
  /\ phase = "init"
  /\ map = [d \in Dirs |-> <<>>]
  /\ kernel = {}
  /\ pending = <<>>
  /\ op = [t \in Threads |-> Idle]
  /\ watched = {}
  /\ stale = Paths

InotifyNext ==
  \/ \E t \in Threads :
       \/ \E p \in Paths : FindWatch(t, p) \/ FindGoodbye(t, p)
       \/ AddWatch(t) \/ JoinWatch(t) \/ LoadFile(t) \/ Goodbye(t)
  \/ DestroyManager
  \/ \E p \in Paths : FileChanged(p)
  \/ FindEvent \/ OnInotifyEvent

InotifySpec == InotifyInit /\ [][InotifyNext]_inotifyVars

-----------------------------------------------------------------------------
(* The types of the state: every entry of map_ is for a configured path.   *)
InotifyTypeOK ==
  /\ phase \in {"init", "running", "down"}
  /\ map \in [Dirs -> Seq([wd : BOOLEAN, config : Paths])]
  /\ kernel \subseteq Dirs
  /\ Len(pending) <= MaxPending
  /\ watched \subseteq Paths /\ stale \subseteq Paths
  /\ \A t \in Threads :
       op[t].pc \in {"idle", "undefined", "watch", "load", "goodbye", "event"}

(* A path for which watchConfig has returned TRUE ("监控成功",             *)
(* inotify_manager.cc 25) stays listed until goodbyeConfig is called for   *)
(* it.                                                                     *)
WatchedIsListed == \A p \in watched : Listed(p) # {}

(* The kernel watches exactly the directories of which one entry, and only *)
(* one, holds the descriptor: no watch is leaked and none is removed twice *)
(* (inotify_manager.cc 40-46, 80-92, 133-143).                             *)
NoLeakedWatch ==
  /\ \A d \in Dirs : Cardinality({k \in 1..Len(map[d]) : map[d][k].wd}) <= 1
  /\ kernel = {d \in Dirs : \E k \in 1..Len(map[d]) : map[d][k].wd}

(* "只有数组第一个元素的 watch_fd 才有效": the first entry of a list, and  *)
(* no other, has a valid descriptor (inotify_manager.cc 48 and 81).        *)
FirstHoldsWatch ==
  \A d \in Dirs : \A k \in 1..Len(map[d]) : map[d][k].wd <=> k = 1

(* The lists of map_ and the kernel's watches agree at every step: the     *)
(* types, the first entry that holds the descriptor, and no watch without  *)
(* a list (inotify_manager.cc 31-100).                                     *)
InotifyInv == InotifyTypeOK /\ FirstHoldsWatch /\ NoLeakedWatch

(* With no event left and no operation under way, every watched file has   *)
(* been loaded since it last changed (inotify_manager.cc 192-210).         *)
ChangesDelivered ==
  pending = <<>> /\ (\A t \in Threads : op[t] = Idle) => watched \cap stale = {}
=============================================================================
