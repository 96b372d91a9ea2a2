------------------------------- MODULE Daemon -------------------------------
(***************************************************************************)
(* Daemon::update(const Configs &) and the Loader under it: bringing the   *)
(* loaded services and the tail-call chain of every hook from one          *)
(* configuration to the next.  The chain is the one of ProgChain; its      *)
(* steps interleave with the steps of the update because update runs       *)
(* without a lock, except around one loadService or unloadServices.        *)
(*                                                                         *)
(* An update that meets an exception (a library that cannot be opened or   *)
(* started, a file that cannot be watched) is abandoned where it is:       *)
(* ConfigWatcher::loadConfig swallows the exception.                       *)
(***************************************************************************)
EXTENDS ProgChain

CONSTANTS
  Libs,       \* service libraries
  LibName,    \* [Libs -> Names]: canonical name of a library's program
  Configs,    \* configurations: functions from ids to entries
  Follows,    \* pairs of configurations: the edits of the file considered
  IdOrder,    \* ids in the order of std::map, "scheduler" for all schedulers
  MayFail     \* libraries whose loading may throw

NoConfig == <<>>    \* the configuration of a daemon that has seen none

VARIABLES
  last,      \* the last configuration given to update
  current,   \* current_ebpf_: entries of the last completed update
  services,  \* services_ of the Loader: library key -> handle
  job,       \* [Threads -> the update the thread is in]
  abandoned  \* an exception has ended some update before its commit

daemonVars == <<last, current, services, job, abandoned>>

-----------------------------------------------------------------------------
(* Ids and library keys are triples, so that the ids and keys made up for  *)
(* schedulers, "scheduler;XDP_GENERIC_1" and "<path>;XDP_GENERIC_1", are   *)
(* of the same shape as the configured ones.                               *)
Id(name) == <<name, "", 0>>
LibKey(lib) == <<lib, "", 0>>
SchedulerId(h, i) == <<"scheduler", h, i>>
SchedulerKey(h, i) == <<"scheduler", h, i>>
IsScheduler(id) == id[2] # ""

Entry(lib, conf, h, i, order) ==
  [key |-> LibKey(lib), conf |-> conf, hook |-> h, ifindex |-> i, order |-> order]

SchedulerEntry(h, i) ==
  [key |-> SchedulerKey(h, i), conf |-> "", hook |-> h, ifindex |-> i, order |-> 0]

NameOf(entry) ==
  IF entry.key[2] # "" THEN Scheduler[entry.hook] ELSE LibName[entry.key[1]]

Restricted(f, S) == [x \in S |-> f[x]]

WithoutSchedulers(cfg) == Restricted(cfg, {id \in DOMAIN cfg : ~IsScheduler(id)})

(* The configurations are functions from ids to entries, and fit in the    *)
(* vectors of the chain.                                                   *)
ASSUME DaemonAssumption ==
  /\ LibName \in [Libs -> Names] /\ "" \notin Hooks
  /\ \A cfg \in Configs :
       /\ cfg = Restricted(cfg, DOMAIN cfg)
       /\ IsFiniteSet(DOMAIN cfg) /\ Cardinality(DOMAIN cfg) <= MaxVec
       /\ \A id \in DOMAIN cfg :
            /\ id = Id(id[1])
            /\ \E lib \in Libs, h \in Hooks, i \in Ifindexes :
                 cfg[id] = Entry(lib, cfg[id].conf, h, i, cfg[id].order)

(* Mutant: one scheduler per hook, on one interface.                       *)
WithSchedulersPerHook(cfg) ==
  LET needed == {cfg[id].hook : id \in DOMAIN cfg}
      nic == CHOOSE i \in Ifindexes : TRUE
      ids == {SchedulerId(h, nic) : h \in needed}
  IN  [id \in DOMAIN cfg \cup ids |->
         IF id \in DOMAIN cfg THEN cfg[id] ELSE SchedulerEntry(id[2], id[3])]

(* One scheduler per hook and interface of the configuration.              *)
WithSchedulers(cfg) ==
  LET needed == {<<cfg[id].hook, cfg[id].ifindex>> : id \in DOMAIN cfg}
      ids == {SchedulerId(p[1], p[2]) : p \in needed}
  IN  [id \in DOMAIN cfg \cup ids |->
         IF id \in DOMAIN cfg THEN cfg[id] ELSE SchedulerEntry(id[2], id[3])]

HooksOf(cfg) == {cfg[id].hook : id \in DOMAIN cfg}

(* The vectors std::sort may leave for a hook: sorted by order, equal      *)
(* orders in any arrangement.                                              *)
SortedVecs(cfg, h) ==
  LET ids == {id \in DOMAIN cfg : cfg[id].hook = h}
      n == Cardinality(ids)
      sorted == {s \in [1..n -> ids] :
                   /\ \A a, b \in 1..n : a # b => s[a] # s[b]
                   /\ \A a, b \in 1..n : a < b => cfg[s[a]].order <= cfg[s[b]].order}
  IN  {[k \in 1..n |-> <<NameOf(cfg[s[k]]), cfg[s[k]].ifindex>>] : s \in sorted}

(* The least of a set of ids in the order of std::map.                     *)
Rank(id) ==
  CHOOSE k \in 1..Len(IdOrder) : IdOrder[k] = id[1]
Leasts(ids) == {id \in ids : \A other \in ids : Rank(id) <= Rank(other)}

-----------------------------------------------------------------------------
(* Loader *)

Handle(entry, conf) == [hook |-> entry.hook, ifindex |-> entry.ifindex, conf |-> conf]

(* unloadServices: the handle goes, prog_array keeps the program.          *)
UnloadService(servs, key) == Restricted(servs, DOMAIN servs \ {key})

(* loadService: a library that is loaded stays as it is and is not put in  *)
(* the chain again; else the handle is added with its configuration file   *)
(* and the program is inserted.                                            *)
LoadService(servs, entry) ==
  IF entry.key \in DOMAIN servs THEN servs
  ELSE [k \in DOMAIN servs \cup {entry.key} |->
          IF k = entry.key THEN Handle(entry, entry.conf) ELSE servs[k]]

LoadedProg(servs, entry) ==
  IF entry.key \in DOMAIN servs THEN UNCHANGED progArray
  ELSE InsertProgEffect(entry.hook, NameOf(entry), entry.ifindex)

-----------------------------------------------------------------------------
(* Daemon::update *)

NoJob == [pc |-> "idle"]

(* An exception leaves update; loadConfig catches it and does not retry.   *)
Abandon(t) == job' = [job EXCEPT ![t] = NoJob] /\ abandoned' = TRUE

(* A new configuration arrives: the chain is rebuilt for every hook of it  *)
(* if it differs from the current one.                                     *)
Update(t, cfg) ==
  /\ alive /\ job[t] = NoJob
  /\ <<last, cfg>> \in Follows
  /\ last' = cfg
  /\ job' = [job EXCEPT ![t] =
       [pc |-> "chains", new |-> cfg, cur |-> current,
        hooks |-> IF cfg # WithoutSchedulers(current) THEN HooksOf(cfg) ELSE {},
        left |-> {}]]
  /\ UNCHANGED <<vars, current, services, abandoned>>

RebuildHook(t) ==
  /\ job[t].pc = "chains"
  /\ \E h \in job[t].hooks :
       /\ \E vec \in SortedVecs(job[t].new, h) : RebuildChain(t, h, vec)
       /\ job' = [job EXCEPT ![t].hooks = @ \ {h}]
  /\ UNCHANGED <<last, current, services, abandoned>>

ChainStep(t) == UpdateChainStep(t) /\ UNCHANGED daemonVars

(* What is no longer configured will be unloaded; schedulers are not       *)
(* looked at.                                                              *)
FindUnloads(t) ==
  /\ alive /\ job[t].pc = "chains"
  /\ job[t].hooks = {} /\ upd[t] = Idle
  /\ job' = [job EXCEPT ![t].pc = "unload",
               ![t].left = DOMAIN WithoutSchedulers(job[t].cur) \ DOMAIN job[t].new]
  /\ UNCHANGED <<vars, last, current, services, abandoned>>

UnloadEntry(t) ==
  /\ alive /\ job[t].pc = "unload"
  /\ \E id \in Leasts(job[t].left) :
       /\ services' = UnloadService(services, job[t].cur[id].key)
       /\ job' = [job EXCEPT ![t].left = @ \ {id}]
  /\ UNCHANGED <<vars, last, current, abandoned>>

AddSchedulers(t) ==
  /\ alive /\ job[t].pc = "unload" /\ job[t].left = {}
  /\ LET new == WithSchedulers(job[t].new)
     IN  job' = [job EXCEPT ![t].pc = "load", ![t].new = new, ![t].left = DOMAIN new]
  /\ UNCHANGED <<vars, last, current, services, abandoned>>

(* The entry with the id is new, or its library, hook or interface has     *)
(* changed (then what was loaded for it is unloaded), or its configuration *)
(* file has.                                                               *)
IsNew(t, id) == id \notin DOMAIN job[t].cur
IsMovedIgnoringIfindex(t, id) ==    \* mutant
  /\ ~IsNew(t, id)
  /\ LET new == job[t].new[id]
         cur == job[t].cur[id]
     IN  new.key # cur.key \/ new.hook # cur.hook

IsMoved(t, id) ==
  /\ ~IsNew(t, id)
  /\ LET new == job[t].new[id]
         cur == job[t].cur[id]
     IN  new.key # cur.key \/ new.hook # cur.hook \/ new.ifindex # cur.ifindex
IsReconfigured(t, id) ==
  /\ ~IsNew(t, id) /\ ~IsMoved(t, id)
  /\ job[t].new[id].conf # job[t].cur[id].conf

KeptServices(t, id) ==
  IF IsMoved(t, id) THEN UnloadService(services, job[t].cur[id].key) ELSE services

LoadEntry(t) ==
  /\ alive /\ job[t].pc = "load"
  /\ \E id \in Leasts(job[t].left) :
       /\ IsNew(t, id) \/ IsMoved(t, id)
       /\ services' = LoadService(KeptServices(t, id), job[t].new[id])
       /\ LoadedProg(KeptServices(t, id), job[t].new[id])
       /\ job' = [job EXCEPT ![t].left = @ \ {id}]
  /\ UNCHANGED <<alive, regions, idHash, upd, last, current, abandoned>>

(* unregisterServiceConfig and registerServiceConfig; both throw when the  *)
(* library has no handle.                                                  *)
ReconfigureEntry(t) ==
  /\ alive /\ job[t].pc = "load"
  /\ \E id \in Leasts(job[t].left) :
       /\ IsReconfigured(t, id)
       /\ LET key == job[t].new[id].key
              conf == job[t].new[id].conf
          IN  IF key \in DOMAIN services
              THEN /\ services' = [services EXCEPT ![key].conf = conf]
                   /\ job' = [job EXCEPT ![t].left = @ \ {id}]
                   /\ UNCHANGED abandoned
              ELSE Abandon(t) /\ UNCHANGED services
  /\ UNCHANGED <<vars, last, current>>

(* Mutant: an entry that needs nothing is not passed over.                 *)
KeepEntryForever(t) ==
  /\ alive /\ job[t].pc = "load"
  /\ \E id \in Leasts(job[t].left) :
       ~IsNew(t, id) /\ ~IsMoved(t, id) /\ ~IsReconfigured(t, id)
  /\ UNCHANGED <<vars, daemonVars>>

KeepEntry(t) ==
  /\ alive /\ job[t].pc = "load"
  /\ \E id \in Leasts(job[t].left) :
       /\ ~IsNew(t, id) /\ ~IsMoved(t, id) /\ ~IsReconfigured(t, id)
       /\ job' = [job EXCEPT ![t].left = @ \ {id}]
  /\ UNCHANGED <<vars, last, current, services, abandoned>>

(* dlopen, dlsym, the factory or start() fails: what the entry replaced is *)
(* already unloaded, and the update ends.                                  *)
LoadThrows(t) ==
  /\ alive /\ job[t].pc = "load"
  /\ \E id \in Leasts(job[t].left) :
       /\ IsNew(t, id) \/ IsMoved(t, id)
       /\ job[t].new[id].key[1] \in MayFail
       /\ services' = KeptServices(t, id)
       /\ Abandon(t)
  /\ UNCHANGED <<vars, last, current>>

(* The configuration file cannot be watched: the handle is there, without  *)
(* a file, and the program has not been inserted.                          *)
RegisterThrows(t) ==
  /\ alive /\ job[t].pc = "load"
  /\ \E id \in Leasts(job[t].left) :
       LET entry == job[t].new[id] IN
       /\ IsNew(t, id) \/ IsMoved(t, id)
       /\ entry.key[1] \in MayFail /\ entry.conf # ""
       /\ entry.key \notin DOMAIN KeptServices(t, id)
       /\ services' = LoadService(KeptServices(t, id), [entry EXCEPT !.conf = ""])
       /\ Abandon(t)
  /\ UNCHANGED <<vars, last, current>>

(* A changed configuration file cannot be watched: the old one no longer   *)
(* is, and the update ends.                                                *)
ReconfigureThrows(t) ==
  /\ alive /\ job[t].pc = "load"
  /\ \E id \in Leasts(job[t].left) :
       LET entry == job[t].new[id] IN
       /\ IsReconfigured(t, id)
       /\ entry.key[1] \in MayFail /\ entry.conf # ""
       /\ entry.key \in DOMAIN services
       /\ services' = [services EXCEPT ![entry.key].conf = ""]
       /\ Abandon(t)
  /\ UNCHANGED <<vars, last, current>>

Commit(t) ==
  /\ alive /\ job[t].pc = "load" /\ job[t].left = {}
  /\ current' = job[t].new
  /\ job' = [job EXCEPT ![t] = NoJob]
  /\ UNCHANGED <<vars, last, services, abandoned>>

-----------------------------------------------------------------------------
DaemonInit ==
  /\ Init
  /\ last = NoConfig
  /\ current = NoConfig
  /\ services = <<>>
  /\ job = [t \in Threads |-> NoJob]
  /\ abandoned = FALSE

JobStep(t) ==
  \/ RebuildHook(t) \/ ChainStep(t) \/ FindUnloads(t) \/ UnloadEntry(t)
  \/ AddSchedulers(t) \/ LoadEntry(t) \/ ReconfigureEntry(t) \/ KeepEntry(t)
  \/ LoadThrows(t) \/ RegisterThrows(t) \/ ReconfigureThrows(t) \/ Commit(t)

DaemonNext ==
  \E t \in Threads :
    \/ \E cfg \in Configs : Update(t, cfg)
    \/ JobStep(t)

(* The thread that delivers a configuration runs update to its end.        *)
DaemonSpec ==
  /\ DaemonInit /\ [][DaemonNext]_<<vars, daemonVars>>
  /\ \A t \in Threads : WF_<<vars, daemonVars>>(JobStep(t))

-----------------------------------------------------------------------------
Quiet == \A t \in Threads : job[t] = NoJob

KeysOf(cfg) == {cfg[id].key : id \in DOMAIN cfg}

(* The types of the state of Daemon and Loader: the entries of the last    *)
(* completed update are a configuration with schedulers added, and every   *)
(* handle has a hook and an interface (loader.h 31-39).                    *)
DaemonTypeOK ==
  /\ TypeOK
  /\ last \in Configs \cup {NoConfig} /\ abandoned \in BOOLEAN
  /\ WithoutSchedulers(current) \in Configs \cup {NoConfig}
  /\ \A k \in DOMAIN services :
       services[k].hook \in Hooks /\ services[k].ifindex \in Ifindexes
  /\ \A t \in Threads :
       job[t].pc \in {"idle", "chains", "unload", "load"}

(* As long as no update was abandoned, the libraries of the configuration, *)
(* and no others but schedulers, are loaded after an update ("需要卸载的", *)
(* "需要加载的", daemon.cc 153 and 185), each on its hook and interface    *)
(* and with its file.                                                      *)
ServicesMatchConfig ==
  Quiet /\ ~abandoned =>
    /\ WithoutSchedulers(current) = last
    /\ KeysOf(current) \subseteq DOMAIN services
    /\ \A k \in DOMAIN services : IsScheduler(k) \/ k \in KeysOf(current)
    /\ \A id \in DOMAIN current :
         services[current[id].key] = Handle(current[id], current[id].conf)

(* Every hook and interface of the configuration has its own scheduler     *)
(* (daemon.cc 161-167).                                                    *)
SchedulerPerHookAndNic ==
  Quiet =>
    \A id \in DOMAIN current :
      SchedulerKey(current[id].hook, current[id].ifindex) \in DOMAIN services

(* What every state of an update, and of its failures, keeps: the types,   *)
(* valid indices for the chain (pinned_prog_map.cc 256) and a scheduler    *)
(* where there are programs.                                               *)
DaemonInv == DaemonTypeOK /\ StartIndexAssertion /\ SchedulerPerHookAndNic

(* A packet of a hook and interface meets the scheduler and then the       *)
(* configured programs in configured order ("重建程序链顺序", daemon.cc    *)
(* 124; "更新尾调用链顺序", pinned_prog_map.cc 202).                       *)
ChainFollowsConfig ==
  Quiet =>
    \A h \in HooksOf(current) \cap MappedHooks :
      \E vec \in SortedVecs(WithoutSchedulers(current), h) :
        \A i \in Nics(vec) :
          LET Mine(p) == p[2] = i
              own == SelectSeq(vec, Mine)
          IN  Walk(h, i) = <<Scheduler[h]>> \o [k \in 1..Len(own) |-> own[k][1]]

(* unloadServices answers TRUE for an unloaded program ("卸载成功",        *)
(* loader.cc 125): the program of a library that is not loaded runs for no *)
(* packet.                                                                 *)
UnloadedProgramsDoNotRun ==
  Quiet =>
    \A id \in DOMAIN current :
      LET h == current[id].hook
          walk == Walk(h, current[id].ifindex)
      IN  h \in MappedHooks =>
            \A k \in 1..Len(walk) :
              walk[k] = Scheduler[h] \/
              \E lib \in Libs : LibKey(lib) \in DOMAIN services /\ LibName[lib] = walk[k]

(* Every update comes to an end.                                           *)
UpdateCompletes ==
  \A t \in Threads : job[t].pc # "idle" ~> job[t].pc = "idle"
=============================================================================
