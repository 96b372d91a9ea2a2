--------------------------- MODULE InotifyProofs ---------------------------
(* Theorems about InotifyManager with one thread, for any paths,           *)
(* directories and length of the kernel's queue.                           *)
EXTENDS InotifyManager, FiniteSetTheorems, TLAPS

-----------------------------------------------------------------------------
(* Inductive invariants                                                    *)

Entry == [wd : BOOLEAN, config : Paths]
Names == {FileName[p] : p \in Paths}

Watches == [pc : {"watch"}, path : Paths, hasDir : BOOLEAN]
Loads == [pc : {"load"}, path : Paths]
Goodbyes == [pc : {"goodbye"}, path : Paths, pos : Nat, seen : Seq(Entry)]
Events == [pc : {"event"}, path : Paths, seen : Seq(Entry)]
Operations == {Idle, Undefined} \cup Watches \cup Loads \cup Goodbyes \cup Events

StateInv ==
  /\ phase \in {"init", "running", "down"}
  /\ map \in [Dirs -> Seq(Entry)] /\ kernel \subseteq Dirs
  /\ pending \in Seq(Names) /\ Len(pending) <= MaxPending
  /\ watched \subseteq Paths /\ stale \subseteq Paths
  /\ op \in [Threads -> Operations]

(* The operation of the one thread, and the list of its directory.         *)
Now == op[IoThread]
List == map[ParentDir[Now.path]]

(* A list that is not there stays away until the thread makes it; the      *)
(* iterator found by goodbyeConfig is at the path.                         *)
FoundInv ==
  /\ Now.pc = "watch" /\ ~Now.hasDir => List = <<>>
  /\ Now.pc = "goodbye" =>
       Now.pos \in 1..Len(Now.seen) /\ Now.seen[Now.pos].config = Now.path

(* One entry of a list at most has the descriptor, and the kernel watches  *)
(* the directories that have one.                                          *)
HasWatch(s) == \E k \in 1..Len(s) : s[k].wd
OneWatch(s) == \A j, k \in 1..Len(s) : s[j].wd /\ s[k].wd => j = k
KernelInv ==
  /\ \A d \in Dirs : OneWatch(map[d])
  /\ kernel = {d \in Dirs : HasWatch(map[d])}

ListedInv == \A p \in watched : \E k \in 1..Len(map[ParentDir[p]]) : map[ParentDir[p]][k].config = p

ListInv == StateInv /\ FoundInv /\ KernelInv /\ ListedInv

(* With every file in the current directory, the main configuration is the *)
(* first of the list and never leaves it.                                  *)
FirstInv ==
  /\ FirstHoldsWatch
  /\ \A d \in Dirs \ {Cwd} : map[d] = <<>>
  /\ map[Cwd] # <<>> => map[Cwd][1].config = MainConfig
  /\ Now.pc = "watch" /\ ~Now.hasDir /\ ParentDir[Now.path] = Cwd => Now.path = MainConfig
  /\ Now.pc = "goodbye" => Now.path # MainConfig

(* The list the thread has found is still there, or all of them are gone.  *)
KeptInv ==
  \/ watched = {}
  \/ /\ Now # Undefined
     /\ Now.pc = "watch" /\ Now.hasDir => List # <<>>
     /\ Now.pc = "goodbye" => List = Now.seen
     /\ Now.pc = "event" => map[Cwd] = Now.seen

(* A watched file that has changed has its name in the kernel's queue or   *)
(* is about to be loaded.                                                  *)
UnderWay(p) ==
  \/ \E k \in 1..Len(pending) : pending[k] = FileName[p]
  \/ Now.pc \in {"load", "event"} /\ Now.path = p

DeliverInv == \A p \in watched \cap stale : UnderWay(p)

-----------------------------------------------------------------------------
(* Operators                                                               *)

(* What is left of a list when an entry goes: place i of it was this one.  *)
Place(k, i) == IF i < k THEN i ELSE i + 1

(* The places of the list that is left, and what is at them.               *)
LEMMA WithoutEntry ==
  ASSUME NEW s \in Seq(Entry), NEW k \in 1..Len(s)
  PROVE  /\ Without(s, k) \in Seq(Entry) /\ Len(Without(s, k)) = Len(s) - 1
         /\ \A i \in 1..(Len(s) - 1) :
              /\ Place(k, i) \in 1..Len(s) /\ Place(k, i) # k
              /\ Without(s, k)[i] = s[Place(k, i)]
<1>1. PICK n \in Nat : n = Len(s)
  OBVIOUS
<1>2. k \in 1..n /\ n - 1 \in Nat
  BY <1>1
<1>3. PICK r : r = Without(s, k)
  OBVIOUS
<1>4. r = [j \in 1..(n - 1) |-> IF j < k THEN s[j] ELSE s[j + 1]]
  BY <1>1, <1>3 DEF Without
<1>5. \A j \in 1..(n - 1) : Place(k, j) \in 1..n /\ Place(k, j) # k
  BY <1>2 DEF Place
<1>6. \A j \in 1..(n - 1) : r[j] = s[Place(k, j)]
  BY <1>4 DEF Place
<1>7. \A j \in 1..(n - 1) : r[j] \in Entry
  BY <1>1, <1>5, <1>6
<1>8. r \in Seq(Entry) /\ Len(r) = n - 1
  BY <1>2, <1>4, <1>7
<1> QED BY <1>1, <1>3, <1>5, <1>6, <1>8

(* Every other entry has its place in it.                                  *)
LEMMA OthersStay ==
  ASSUME NEW s \in Seq(Entry), NEW k \in 1..Len(s), NEW j \in 1..Len(s), j # k
  PROVE  \E i \in 1..(Len(s) - 1) : Without(s, k)[i] = s[j]
<1>1. PICK n \in Nat : n = Len(s)
  OBVIOUS
<1>2. CASE j < k
  <2>1. j \in 1..(n - 1)
    BY <1>1, <1>2
  <2>2. Place(k, j) = j
    BY <1>2 DEF Place
  <2>3. Without(s, k)[j] = s[j]
    BY <1>1, <2>1, <2>2, WithoutEntry, SMTT(30)
  <2> QED BY <1>1, <2>1, <2>3
<1>3. CASE ~(j < k)
  <2>1. j - 1 \in 1..(n - 1) /\ ~(j - 1 < k) /\ (j - 1) + 1 = j
    BY <1>1, <1>3
  <2>2. Place(k, j - 1) = j
    BY <2>1 DEF Place
  <2>3. Without(s, k)[j - 1] = s[j]
    BY <1>1, <2>1, <2>2, WithoutEntry
  <2> QED BY <1>1, <2>1, <2>3
<1> QED BY <1>2, <1>3

(* The list has a descriptor after the removal exactly if another entry    *)
(* than the removed one has it, and at most one has it still.              *)
LEMMA WithoutWatch ==
  ASSUME NEW s \in Seq(Entry), NEW k \in 1..Len(s), OneWatch(s)
  PROVE  /\ OneWatch(Without(s, k))
         /\ HasWatch(Without(s, k)) <=> HasWatch(s) /\ ~s[k].wd
<1>1. PICK n \in Nat : n = Len(s)
  OBVIOUS
<1>2. PICK r : r = Without(s, k)
  OBVIOUS
<1>3. /\ Len(r) = n - 1 /\ k \in 1..n
      /\ \A i \in 1..(n - 1) :
           Place(k, i) \in 1..n /\ Place(k, i) # k /\ r[i] = s[Place(k, i)]
  BY <1>1, <1>2, WithoutEntry
<1>4. ASSUME NEW i \in 1..(n - 1), NEW j \in 1..(n - 1), r[i].wd, r[j].wd PROVE i = j
  <2>1. Place(k, i) = Place(k, j)
    BY <1>1, <1>3, <1>4 DEF OneWatch
  <2> QED BY <1>3, <2>1 DEF Place
<1>5. HasWatch(r) => HasWatch(s) /\ ~s[k].wd
  BY <1>1, <1>3 DEF HasWatch, OneWatch
<1>6. HasWatch(s) /\ ~s[k].wd => HasWatch(r)
  <2>1. SUFFICES ASSUME NEW j \in 1..n, s[j].wd, ~s[k].wd PROVE HasWatch(r)
    BY <1>1 DEF HasWatch
  <2>2. j # k
    BY <2>1
  <2>3. PICK i \in 1..(n - 1) : r[i] = s[j]
    BY <1>1, <1>2, <2>2, OthersStay
  <2> QED BY <1>3, <2>1, <2>3 DEF HasWatch
<1> QED BY <1>2, <1>3, <1>4, <1>5, <1>6 DEF OneWatch

(* A list of one entry with the descriptor.                                *)
LEMMA SingleEntry ==
  ASSUME NEW p \in Paths, NEW s, s = <<[wd |-> TRUE, config |-> p]>>
  PROVE  /\ s \in Seq(Entry) /\ Len(s) = 1 /\ s[1].config = p /\ s[1].wd = TRUE
         /\ OneWatch(s) /\ HasWatch(s)
<1>1. [wd |-> TRUE, config |-> p] \in Entry
  BY DEF Entry
<1>2. s \in Seq(Entry) /\ Len(s) = 1 /\ s[1] = [wd |-> TRUE, config |-> p]
  BY <1>1
<1> QED BY <1>2 DEF OneWatch, HasWatch

(* An entry without it joins a list.                                       *)
LEMMA AppendedEntry ==
  ASSUME NEW s \in Seq(Entry), NEW e \in Entry, e.wd = FALSE
  PROVE  /\ Append(s, e) \in Seq(Entry) /\ Len(Append(s, e)) = Len(s) + 1
         /\ \A k \in 1..Len(s) : Append(s, e)[k] = s[k]
         /\ Append(s, e)[Len(s) + 1] = e
         /\ OneWatch(s) => OneWatch(Append(s, e))
         /\ HasWatch(Append(s, e)) <=> HasWatch(s)
<1>1. PICK r : r = Append(s, e)
  OBVIOUS
<1>2. PICK n \in Nat : n = Len(s)
  OBVIOUS
<1>3. r \in Seq(Entry) /\ Len(r) = n + 1 /\ r[n + 1] = e /\ \A k \in 1..n : r[k] = s[k]
  BY <1>1, <1>2
<1>4. ~r[n + 1].wd
  BY <1>3
<1>5. \A k \in 1..Len(r) : r[k].wd => k \in 1..n /\ s[k].wd
  <2>1. \A k \in 1..Len(r) : k = n + 1 \/ k \in 1..n
    BY <1>3
  <2> QED BY <1>3, <1>4, <2>1
<1>6. OneWatch(s) => OneWatch(r)
  BY <1>2, <1>5 DEF OneWatch
<1>7. HasWatch(r) <=> HasWatch(s)
  <2>1. \A k \in 1..n : k \in 1..Len(r)
    BY <1>3
  <2> QED BY <1>2, <1>3, <1>5, <2>1 DEF HasWatch
<1> QED BY <1>1, <1>2, <1>3, <1>6, <1>7

(* The directory of a path is a directory.                                 *)
LEMMA DirOf == \A p \in Paths : ParentDir[p] \in Dirs
BY DEF Dirs

(* The fields of an operation.                                             *)
LEMMA OperationFields ==
  ASSUME NEW o \in Operations
  PROVE  /\ o.pc \in {"idle", "undefined", "watch", "load", "goodbye", "event"}
         /\ o.pc \notin {"idle", "undefined"} => o.path \in Paths
         /\ o.pc = "watch" => o.hasDir \in BOOLEAN
         /\ o.pc = "goodbye" => o.pos \in Nat /\ o.seen \in Seq(Entry)
         /\ o.pc = "idle" <=> o = Idle
         /\ o.pc = "undefined" <=> o = Undefined
BY DEF Operations, Idle, Undefined, Watches, Loads, Goodbyes, Events

(* The thread begins an operation.                                         *)
LEMMA Begins ==
  ASSUME StateInv, NEW o \in Operations, Begin(IoThread, o)
  PROVE  op' \in [Threads -> Operations] /\ Now' = o
BY InotifyAssumption DEF StateInv, Begin, Now

-----------------------------------------------------------------------------
(* The steps, for one thread and any directories                           *)

(* The steps that change no list.                                          *)
LEMMA QuietStep ==
  ASSUME ListInv, UNCHANGED <<map, kernel>>, StateInv', FoundInv',
         \A p \in watched' : p \in watched \/ Listed(p) # {}
  PROVE  ListInv'
<1>1. KernelInv'
  BY DEF ListInv, KernelInv
<1>2. ListedInv'
  BY DEF ListInv, ListedInv, Listed
<1> QED BY <1>1, <1>2 DEF ListInv

(* The path is looked up, for watchConfig.                                 *)
LEMMA FindWatchInv ==
  ASSUME ListInv, NEW p \in Paths, FindWatch(IoThread, p)
  PROVE  ListInv'
<1>1. UNCHANGED <<map, kernel, pending, stale>> /\ phase' = "running"
  BY DEF FindWatch
<1>2. \/ /\ Listed(p) # {} /\ watched' = watched \cup {p}
         /\ Begin(IoThread, [pc |-> "load", path |-> p])
      \/ /\ watched' = watched
         /\ Begin(IoThread, [pc |-> "watch", path |-> p, hasDir |-> map[ParentDir[p]] # <<>>])
  BY DEF FindWatch
<1>3. CASE /\ Listed(p) # {} /\ watched' = watched \cup {p}
           /\ Begin(IoThread, [pc |-> "load", path |-> p])
  <2>1. PICK o : o = [pc |-> "load", path |-> p]
    OBVIOUS
  <2>2. o \in Operations /\ o.pc = "load"
    BY <2>1 DEF Operations, Loads
  <2>3. op' \in [Threads -> Operations] /\ Now' = o
    BY <1>3, <2>1, <2>2, Begins DEF ListInv
  <2>4. StateInv'
    BY <1>1, <1>3, <2>3 DEF ListInv, StateInv
  <2>5. FoundInv'
    BY <2>2, <2>3 DEF FoundInv
  <2> QED BY <1>1, <1>3, <2>4, <2>5, QuietStep
<1>4. CASE /\ watched' = watched
           /\ Begin(IoThread, [pc |-> "watch", path |-> p, hasDir |-> map[ParentDir[p]] # <<>>])
  <2>1. PICK b \in BOOLEAN : b = (map[ParentDir[p]] # <<>>)
    OBVIOUS
  <2>2. PICK o : o = [pc |-> "watch", path |-> p, hasDir |-> b]
    OBVIOUS
  <2>3. o \in Operations /\ o.pc = "watch" /\ o.path = p /\ o.hasDir = b
    BY <2>2 DEF Operations, Watches
  <2>4. op' \in [Threads -> Operations] /\ Now' = o
    BY <1>4, <2>1, <2>2, <2>3, Begins DEF ListInv
  <2>5. StateInv'
    BY <1>1, <1>4, <2>4 DEF ListInv, StateInv
  <2>6. FoundInv'
    BY <1>1, <2>1, <2>3, <2>4 DEF FoundInv, List
  <2> QED BY <1>1, <1>4, <2>5, <2>6, QuietStep
<1> QED BY <1>2, <1>3, <1>4

(* A list that was empty is made.                                          *)
LEMMA AddWatchInv ==
  ASSUME ListInv, AddWatch(IoThread)
  PROVE  ListInv'
<1>1. PICK p : p = Now.path
  OBVIOUS
<1>2. PICK d : d = ParentDir[p]
  OBVIOUS
<1>3. Now.pc = "watch" /\ ~Now.hasDir /\ UNCHANGED <<phase, pending, stale>>
  BY DEF AddWatch, Now
<1>4. p \in Paths /\ d \in Dirs /\ map[d] = <<>>
  BY <1>1, <1>2, <1>3, DirOf, OperationFields, InotifyAssumption
     DEF ListInv, StateInv, FoundInv, List, Now
<1>5. \/ Begin(IoThread, Idle) /\ UNCHANGED <<map, kernel, watched>>
      \/ /\ kernel' = kernel \cup {d}
         /\ map' = [map EXCEPT ![d] = <<[wd |-> TRUE, config |-> p]>>]
         /\ watched' = watched \cup {p} /\ Begin(IoThread, [pc |-> "load", path |-> p])
  BY <1>1, <1>2 DEF AddWatch, Now
<1>6. CASE Begin(IoThread, Idle) /\ UNCHANGED <<map, kernel, watched>>
  <2>1. Idle \in Operations /\ Idle.pc = "idle"
    BY DEF Operations, Idle
  <2>2. op' \in [Threads -> Operations] /\ Now' = Idle
    BY <1>6, <2>1, Begins DEF ListInv
  <2>3. StateInv' /\ FoundInv'
    BY <1>3, <1>6, <2>1, <2>2 DEF ListInv, StateInv, FoundInv
  <2> QED BY <1>6, <2>3, QuietStep
<1>7. CASE /\ kernel' = kernel \cup {d}
           /\ map' = [map EXCEPT ![d] = <<[wd |-> TRUE, config |-> p]>>]
           /\ watched' = watched \cup {p} /\ Begin(IoThread, [pc |-> "load", path |-> p])
  <2>1. PICK s : s = <<[wd |-> TRUE, config |-> p]>>
    OBVIOUS
  <2>2. /\ s \in Seq(Entry) /\ Len(s) = 1 /\ s[1].config = p /\ s[1].wd = TRUE
        /\ OneWatch(s) /\ HasWatch(s)
    BY <1>4, <2>1, SingleEntry
  <2>3. PICK o : o = [pc |-> "load", path |-> p]
    OBVIOUS
  <2>4. o \in Operations /\ o.pc = "load"
    BY <1>4, <2>3 DEF Operations, Loads
  <2>5. op' \in [Threads -> Operations] /\ Now' = o
    BY <1>7, <2>3, <2>4, Begins DEF ListInv
  <2>6. map \in [Dirs -> Seq(Entry)]
    BY DEF ListInv, StateInv
  <2>7. /\ map' \in [Dirs -> Seq(Entry)] /\ map'[d] = s
        /\ \A e \in Dirs : e # d => map'[e] = map[e]
    BY <1>4, <1>7, <2>1, <2>2, <2>6
  <2>8. StateInv'
    BY <1>3, <1>4, <1>7, <2>5, <2>7 DEF ListInv, StateInv
  <2>9. FoundInv'
    BY <2>4, <2>5 DEF FoundInv
  <2>10. KernelInv'
    <3>1. \A e \in Dirs : OneWatch(map'[e])
      BY <2>2, <2>7 DEF ListInv, KernelInv
    <3>2. \A e \in Dirs : HasWatch(map'[e]) <=> e = d \/ HasWatch(map[e])
      BY <2>2, <2>7
    <3>3. kernel = {e \in Dirs : HasWatch(map[e])}
      BY DEF ListInv, KernelInv
    <3>4. kernel' = {e \in Dirs : HasWatch(map'[e])}
      BY <1>4, <1>7, <3>2, <3>3
    <3> QED BY <3>1, <3>4 DEF KernelInv
  <2>11. ListedInv'
    <3>1. SUFFICES ASSUME NEW q \in watched \cup {p}
                   PROVE  \E k \in 1..Len(map'[ParentDir[q]]) : map'[ParentDir[q]][k].config = q
      BY <1>7 DEF ListedInv
    <3>2. CASE q = p
      <4>1. 1 \in 1..Len(s)
        BY <2>2
      <4> QED BY <1>2, <2>2, <2>7, <3>2, <4>1
    <3>3. CASE q # p
      <4>1. \E k \in 1..Len(map[ParentDir[q]]) : map[ParentDir[q]][k].config = q
        BY <3>1, <3>3 DEF ListInv, ListedInv
      <4>2. ParentDir[q] # d
        BY <1>4, <4>1
      <4>3. ParentDir[q] \in Dirs
        BY <3>1, <3>3, DirOf DEF ListInv, StateInv
      <4> QED BY <2>7, <4>1, <4>2, <4>3
    <3> QED BY <3>2, <3>3
  <2> QED BY <2>8, <2>9, <2>10, <2>11 DEF ListInv
<1> QED BY <1>5, <1>6, <1>7

(* A list gets an entry more.                                              *)
LEMMA JoinWatchInv ==
  ASSUME ListInv, JoinWatch(IoThread)
  PROVE  ListInv'
<1>1. PICK p : p = Now.path
  OBVIOUS
<1>2. PICK d : d = ParentDir[p]
  OBVIOUS
<1>3. Now.pc = "watch" /\ UNCHANGED <<phase, kernel, pending, stale>>
  BY DEF JoinWatch, Now
<1>4. p \in Paths /\ d \in Dirs
  BY <1>1, <1>2, <1>3, DirOf, OperationFields, InotifyAssumption DEF ListInv, StateInv, Now
<1>5. \/ Begin(IoThread, Undefined) /\ UNCHANGED <<map, watched>>
      \/ /\ map' = [map EXCEPT ![d] = Append(@, [wd |-> FALSE, config |-> p])]
         /\ watched' = watched \cup {p} /\ Begin(IoThread, [pc |-> "load", path |-> p])
  BY <1>1, <1>2 DEF JoinWatch, Now
<1>6. CASE Begin(IoThread, Undefined) /\ UNCHANGED <<map, watched>>
  <2>1. Undefined \in Operations /\ Undefined.pc = "undefined"
    BY DEF Operations, Undefined
  <2>2. op' \in [Threads -> Operations] /\ Now' = Undefined
    BY <1>6, <2>1, Begins DEF ListInv
  <2>3. StateInv' /\ FoundInv'
    BY <1>3, <1>6, <2>1, <2>2 DEF ListInv, StateInv, FoundInv
  <2> QED BY <1>3, <1>6, <2>3, QuietStep
<1>7. CASE /\ map' = [map EXCEPT ![d] = Append(@, [wd |-> FALSE, config |-> p])]
           /\ watched' = watched \cup {p} /\ Begin(IoThread, [pc |-> "load", path |-> p])
  <2>1. map \in [Dirs -> Seq(Entry)] /\ map[d] \in Seq(Entry)
    BY <1>4 DEF ListInv, StateInv
  <2>2. PICK s : s = Append(map[d], [wd |-> FALSE, config |-> p])
    OBVIOUS
  <2>3. PICK n \in Nat : n = Len(map[d])
    BY <2>1
  <2>4. /\ s \in Seq(Entry) /\ Len(s) = n + 1 /\ \A k \in 1..n : s[k] = map[d][k]
        /\ s[n + 1].config = p /\ (OneWatch(map[d]) => OneWatch(s))
        /\ HasWatch(s) <=> HasWatch(map[d])
    <3>1. PICK e : e = [wd |-> FALSE, config |-> p]
      OBVIOUS
    <3>2. e \in Entry /\ e.wd = FALSE /\ e.config = p
      BY <1>4, <3>1 DEF Entry
    <3>3. PICK m : m = map[d]
      OBVIOUS
    <3>4. m \in Seq(Entry) /\ s = Append(m, e)
      BY <2>1, <2>2, <3>1, <3>3
    <3>5. /\ s \in Seq(Entry) /\ Len(s) = Len(m) + 1 /\ \A k \in 1..Len(m) : s[k] = m[k]
          /\ s[Len(m) + 1] = e /\ (OneWatch(m) => OneWatch(s)) /\ (HasWatch(s) <=> HasWatch(m))
      BY <3>2, <3>4, AppendedEntry
    <3> QED BY <2>3, <3>2, <3>3, <3>5
  <2>5. PICK o : o = [pc |-> "load", path |-> p]
    OBVIOUS
  <2>6. o \in Operations /\ o.pc = "load"
    BY <1>4, <2>5 DEF Operations, Loads
  <2>7. op' \in [Threads -> Operations] /\ Now' = o
    BY <1>7, <2>5, <2>6, Begins DEF ListInv
  <2>8. /\ map' \in [Dirs -> Seq(Entry)] /\ map'[d] = s
        /\ \A e \in Dirs : e # d => map'[e] = map[e]
    BY <1>4, <1>7, <2>1, <2>2, <2>4
  <2>9. StateInv'
    BY <1>3, <1>4, <1>7, <2>7, <2>8 DEF ListInv, StateInv
  <2>10. FoundInv'
    BY <2>6, <2>7 DEF FoundInv
  <2>11. KernelInv'
    <3>1. \A e \in Dirs : OneWatch(map'[e])
      BY <2>4, <2>8 DEF ListInv, KernelInv
    <3>2. \A e \in Dirs : HasWatch(map'[e]) <=> HasWatch(map[e])
      BY <2>4, <2>8
    <3> QED BY <1>3, <3>1, <3>2 DEF ListInv, KernelInv
  <2>12. ListedInv'
    <3>1. SUFFICES ASSUME NEW q \in watched \cup {p}
                   PROVE  \E k \in 1..Len(map'[ParentDir[q]]) : map'[ParentDir[q]][k].config = q
      BY <1>7 DEF ListedInv
    <3>2. CASE q = p
      <4>1. n + 1 \in 1..Len(s)
        BY <2>4
      <4> QED BY <1>2, <2>4, <2>8, <3>2, <4>1
    <3>3. CASE q # p
      <4>1. PICK k \in 1..Len(map[ParentDir[q]]) : map[ParentDir[q]][k].config = q
        BY <3>1, <3>3 DEF ListInv, ListedInv
      <4>2. ParentDir[q] \in Dirs
        BY <3>1, <3>3, DirOf DEF ListInv, StateInv
      <4>3. CASE ParentDir[q] = d
        <5>1. k \in 1..n /\ k \in 1..Len(s)
          BY <2>3, <2>4, <4>1, <4>3
        <5> QED BY <2>4, <2>8, <4>1, <4>3, <5>1
      <4> QED BY <2>8, <4>1, <4>2, <4>3
    <3> QED BY <3>2, <3>3
  <2> QED BY <2>9, <2>10, <2>11, <2>12 DEF ListInv
<1> QED BY <1>5, <1>6, <1>7

(* The steps that end an operation or find an event.                       *)
LEMMA EndStep ==
  ASSUME ListInv, NEW o \in Operations, o.pc \notin {"watch", "goodbye"}, Begin(IoThread, o),
         UNCHANGED <<phase, map, kernel, watched>>,
         pending' \in Seq(Names) /\ Len(pending') <= MaxPending, stale' \subseteq Paths
  PROVE  ListInv'
<1>1. op' \in [Threads -> Operations] /\ Now' = o
  BY Begins DEF ListInv
<1>2. StateInv' /\ FoundInv'
  BY <1>1 DEF ListInv, StateInv, FoundInv
<1> QED BY <1>2, QuietStep

(* And for goodbyeConfig.                                                  *)
LEMMA FindGoodbyeInv ==
  ASSUME ListInv, NEW p \in Paths, FindGoodbye(IoThread, p)
  PROVE  ListInv'
<1>1. UNCHANGED <<phase, map, kernel, pending, stale>>
  BY DEF FindGoodbye
<1>2. CASE watched' = watched \ {p} /\ UNCHANGED op
  <2>1. StateInv' /\ FoundInv'
    BY <1>1, <1>2 DEF ListInv, StateInv, FoundInv, Now, List
  <2> QED BY <1>1, <1>2, <2>1, QuietStep
<1>3. ASSUME NEW k \in Listed(p), watched' = watched,
             Begin(IoThread, [pc |-> "goodbye", path |-> p, pos |-> k, seen |-> map[ParentDir[p]]])
      PROVE  ListInv'
  <2>1. PICK s : s = map[ParentDir[p]]
    OBVIOUS
  <2>2. s \in Seq(Entry) /\ k \in 1..Len(s) /\ s[k].config = p /\ k \in Nat
    BY <1>3, <2>1, DirOf DEF ListInv, StateInv, Listed
  <2>3. PICK o : o = [pc |-> "goodbye", path |-> p, pos |-> k, seen |-> s]
    OBVIOUS
  <2>4. o \in Operations /\ o.pc = "goodbye" /\ o.path = p /\ o.pos = k /\ o.seen = s
    BY <2>2, <2>3 DEF Operations, Goodbyes
  <2>5. op' \in [Threads -> Operations] /\ Now' = o
    BY <1>3, <2>1, <2>3, <2>4, Begins DEF ListInv
  <2>6. StateInv'
    BY <1>1, <1>3, <2>5 DEF ListInv, StateInv
  <2>7. FoundInv'
    BY <2>2, <2>4, <2>5 DEF FoundInv
  <2> QED BY <1>1, <1>3, <2>6, <2>7, QuietStep
<1> QED BY <1>2, <1>3 DEF FindGoodbye

(* An entry goes, and with the descriptor the watch.                       *)
LEMMA GoodbyeInv ==
  ASSUME ListInv, Goodbye(IoThread)
  PROVE  ListInv'
<1>1. PICK p : p = Now.path
  OBVIOUS
<1>2. PICK d : d = ParentDir[p]
  OBVIOUS
<1>3. Now.pc = "goodbye" /\ UNCHANGED <<phase, pending, stale>>
  BY DEF Goodbye, Now
<1>4. /\ p \in Paths /\ d \in Dirs /\ Now.seen \in Seq(Entry)
      /\ Now.pos \in 1..Len(Now.seen) /\ Now.seen[Now.pos].config = p
  BY <1>1, <1>2, <1>3, DirOf, OperationFields, InotifyAssumption
     DEF ListInv, StateInv, FoundInv, Now
<1>5. \/ Begin(IoThread, Undefined) /\ UNCHANGED <<map, kernel, watched>>
      \/ /\ map[d] = Now.seen /\ map' = [map EXCEPT ![d] = Without(@, Now.pos)]
         /\ kernel' = IF map[d][Now.pos].wd THEN kernel \ {d} ELSE kernel
         /\ watched' = watched \ {p} /\ Begin(IoThread, Idle)
  BY <1>1, <1>2 DEF Goodbye, Now
<1>6. CASE Begin(IoThread, Undefined) /\ UNCHANGED <<map, kernel, watched>>
  <2>1. Undefined \in Operations /\ Undefined.pc = "undefined"
    BY DEF Operations, Undefined
  <2> QED BY <1>3, <1>6, <2>1, EndStep DEF ListInv, StateInv
<1>7. CASE /\ map[d] = Now.seen /\ map' = [map EXCEPT ![d] = Without(@, Now.pos)]
           /\ kernel' = IF map[d][Now.pos].wd THEN kernel \ {d} ELSE kernel
           /\ watched' = watched \ {p} /\ Begin(IoThread, Idle)
  <2>1. PICK k : k = Now.pos
    OBVIOUS
  <2>2. PICK s : s = map[d]
    OBVIOUS
  <2>3. PICK r : r = Without(s, k)
    OBVIOUS
  <2>4. s \in Seq(Entry) /\ k \in 1..Len(s) /\ s[k].config = p /\ OneWatch(s)
    BY <1>4, <1>7, <2>1, <2>2 DEF ListInv, KernelInv
  <2>5. /\ r \in Seq(Entry) /\ Len(r) = Len(s) - 1 /\ OneWatch(r)
        /\ HasWatch(r) <=> HasWatch(s) /\ ~s[k].wd
    BY <2>3, <2>4, WithoutEntry, WithoutWatch, Zenon
  <2>6. map \in [Dirs -> Seq(Entry)]
    BY DEF ListInv, StateInv
  <2>7. /\ map' \in [Dirs -> Seq(Entry)] /\ map'[d] = r
        /\ \A e \in Dirs : e # d => map'[e] = map[e]
    BY <1>4, <1>7, <2>1, <2>2, <2>3, <2>5, <2>6
  <2>8. Idle \in Operations /\ Idle.pc = "idle"
    BY DEF Operations, Idle
  <2>9. op' \in [Threads -> Operations] /\ Now' = Idle
    BY <1>7, <2>8, Begins DEF ListInv
  <2>10. StateInv'
    BY <1>3, <1>7, <2>7, <2>9 DEF ListInv, StateInv
  <2>11. FoundInv'
    BY <2>8, <2>9 DEF FoundInv
  <2>12. KernelInv'
    <3>1. \A e \in Dirs : OneWatch(map'[e])
      BY <2>5, <2>7 DEF ListInv, KernelInv
    <3>2. \A e \in Dirs : HasWatch(map'[e]) <=> HasWatch(map[e]) /\ (e = d => ~s[k].wd)
      BY <2>2, <2>5, <2>7
    <3>3. kernel = {e \in Dirs : HasWatch(map[e])}
      BY DEF ListInv, KernelInv
    <3>4. kernel' = IF s[k].wd THEN kernel \ {d} ELSE kernel
      BY <1>7, <2>1, <2>2
    <3>5. kernel' = {e \in Dirs : HasWatch(map'[e])}
      <4>1. CASE s[k].wd
        BY <3>2, <3>3, <3>4, <4>1
      <4>2. CASE ~s[k].wd
        BY <3>2, <3>3, <3>4, <4>2
      <4> QED BY <4>1, <4>2
    <3> QED BY <3>1, <3>5 DEF KernelInv
  <2>13. ListedInv'
    <3>1. SUFFICES ASSUME NEW q \in watched, q # p
                   PROVE  \E j \in 1..Len(map'[ParentDir[q]]) : map'[ParentDir[q]][j].config = q
      BY <1>7 DEF ListedInv
    <3>2. PICK j \in 1..Len(map[ParentDir[q]]) : map[ParentDir[q]][j].config = q
      BY DEF ListInv, ListedInv
    <3>3. ParentDir[q] \in Dirs
      BY DirOf DEF ListInv, StateInv
    <3>4. CASE ParentDir[q] = d
      <4>1. j \in 1..Len(s) /\ j # k /\ s[j].config = q
        BY <2>2, <2>4, <3>1, <3>2, <3>4
      <4>2. PICK i \in 1..(Len(s) - 1) : r[i] = s[j]
        BY <2>3, <2>4, <4>1, OthersStay, Zenon
      <4> QED BY <2>5, <2>7, <3>4, <4>1, <4>2
    <3> QED BY <2>7, <3>2, <3>3, <3>4
  <2> QED BY <2>10, <2>11, <2>12, <2>13 DEF ListInv
<1> QED BY <1>5, <1>6, <1>7

(* All lists go, and the watches with them.                                *)
LEMMA DestroyManagerInv ==
  ASSUME ListInv, DestroyManager
  PROVE  ListInv'
<1>1. /\ phase' = "down" /\ map' = [d \in Dirs |-> <<>>] /\ watched' = {}
      /\ kernel' = kernel \ {d \in Dirs : HasWatch(map[d])} /\ UNCHANGED <<pending, op, stale>>
  BY DEF DestroyManager, HasWatch
<1>2. kernel' = {}
  BY <1>1 DEF ListInv, KernelInv
<1>3. map' \in [Dirs -> Seq(Entry)] /\ \A d \in Dirs : map'[d] = <<>>
  BY <1>1
<1>4. StateInv'
  BY <1>1, <1>2, <1>3 DEF ListInv, StateInv
<1>5. FoundInv'
  <2>1. Now' = Now
    BY <1>1 DEF Now
  <2>2. Now.pc = "watch" => ParentDir[Now.path] \in Dirs
    BY DirOf, OperationFields, InotifyAssumption DEF ListInv, StateInv, Now
  <2> QED BY <1>3, <2>1, <2>2 DEF ListInv, FoundInv, List
<1>6. KernelInv'
  <2>1. \A d \in Dirs : OneWatch(map'[d]) /\ ~HasWatch(map'[d])
    BY <1>3 DEF OneWatch, HasWatch
  <2> QED BY <1>2, <2>1 DEF KernelInv
<1>7. ListedInv'
  BY <1>1 DEF ListedInv
<1> QED BY <1>4, <1>5, <1>6, <1>7 DEF ListInv

(* Every step of the one thread keeps the invariant of the lists.          *)
LEMMA ListStep ==
  ASSUME \A t \in Threads : t = IoThread, ListInv, [InotifyNext]_inotifyVars
  PROVE  ListInv'
<1>1. CASE UNCHANGED inotifyVars
  BY <1>1 DEF inotifyVars, ListInv, StateInv, FoundInv, KernelInv, ListedInv, Now, List
<1>2. CASE \E p \in Paths : FileChanged(p)
  <2>1. PICK p \in Paths : FileChanged(p)
    BY <1>2
  <2>2. /\ pending \in Seq(Names) /\ Len(pending) < MaxPending /\ MaxPending \in Nat
        /\ FileName[p] \in Names
    BY <2>1, InotifyAssumption DEF FileChanged, ListInv, StateInv, Names
  <2>3. /\ Append(pending, FileName[p]) \in Seq(Names)
        /\ Len(Append(pending, FileName[p])) <= MaxPending
    BY <2>2
  <2>4. /\ pending' \in Seq(Names) /\ Len(pending') <= MaxPending /\ stale' \subseteq Paths
        /\ UNCHANGED <<phase, map, kernel, op, watched>>
    BY <2>1, <2>2, <2>3 DEF FileChanged, ListInv, StateInv
  <2>5. StateInv' /\ FoundInv'
    BY <2>4 DEF ListInv, StateInv, FoundInv, Now, List
  <2> QED BY <2>4, <2>5, QuietStep
<1>3. CASE FindEvent
  <2>1. /\ pending \in Seq(Names) /\ pending # <<>> /\ Len(pending) <= MaxPending
        /\ pending' = Tail(pending) /\ UNCHANGED <<phase, map, kernel, watched, stale>>
    BY <1>3 DEF FindEvent, ListInv, StateInv
  <2>2. pending' \in Seq(Names) /\ Len(pending') <= MaxPending
    BY <2>1, InotifyAssumption
  <2>3. CASE UNCHANGED op
    <3>1. StateInv' /\ FoundInv'
      BY <2>1, <2>2, <2>3 DEF ListInv, StateInv, FoundInv, Now, List
    <3> QED BY <2>1, <3>1, QuietStep
  <2>4. CASE \E p \in BarePaths : Begin(IoThread, [pc |-> "event", path |-> p, seen |-> map[Cwd]])
    <3>1. PICK p \in BarePaths : Begin(IoThread, [pc |-> "event", path |-> p, seen |-> map[Cwd]])
      BY <2>4
    <3>2. PICK o : o = [pc |-> "event", path |-> p, seen |-> map[Cwd]]
      OBVIOUS
    <3>3. p \in Paths /\ map[Cwd] \in Seq(Entry)
      BY InotifyAssumption DEF ListInv, StateInv, Dirs
    <3>4. o \in Operations /\ o.pc = "event"
      BY <3>2, <3>3 DEF Operations, Events
    <3>5. stale' \subseteq Paths
      BY <2>1 DEF ListInv, StateInv
    <3> QED BY <2>1, <2>2, <3>1, <3>2, <3>4, <3>5, EndStep
  <2> QED BY <1>3, <2>3, <2>4 DEF FindEvent
<1>4. CASE OnInotifyEvent
  <2>1. PICK o : o = IF map[Cwd] = Now.seen THEN [pc |-> "load", path |-> Now.path] ELSE Undefined
    OBVIOUS
  <2>2. /\ Now.pc = "event" /\ Begin(IoThread, o)
        /\ UNCHANGED <<phase, map, kernel, pending, watched, stale>>
    BY <1>4, <2>1 DEF OnInotifyEvent, Now
  <2>3. Now.path \in Paths
    BY <2>2, OperationFields, InotifyAssumption DEF ListInv, StateInv, Now
  <2>4. o \in Operations /\ o.pc \notin {"watch", "goodbye"}
    BY <2>1, <2>3 DEF Operations, Loads, Undefined
  <2>5. pending' \in Seq(Names) /\ Len(pending') <= MaxPending /\ stale' \subseteq Paths
    BY <2>2 DEF ListInv, StateInv
  <2> QED BY <2>2, <2>4, <2>5, EndStep
<1>5. CASE LoadFile(IoThread)
  <2>1. Idle \in Operations /\ Idle.pc = "idle"
    BY DEF Operations, Idle
  <2>2. /\ Begin(IoThread, Idle) /\ UNCHANGED <<phase, map, kernel, pending, watched>>
        /\ stale' \subseteq stale
    BY <1>5 DEF LoadFile
  <2>3. pending' \in Seq(Names) /\ Len(pending') <= MaxPending /\ stale' \subseteq Paths
    BY <2>2 DEF ListInv, StateInv
  <2> QED BY <2>1, <2>2, <2>3, EndStep
<1> QED
  BY <1>1, <1>2, <1>3, <1>4, <1>5, FindWatchInv, FindGoodbyeInv, AddWatchInv, JoinWatchInv,
     GoodbyeInv, DestroyManagerInv DEF InotifyNext

(* Nothing is listed at the start.                                         *)
LEMMA ListInitially == InotifyInit => ListInv
<1>1. SUFFICES ASSUME InotifyInit PROVE ListInv
  OBVIOUS
<1>2. /\ phase = "init" /\ map = [d \in Dirs |-> <<>>] /\ kernel = {} /\ pending = <<>>
      /\ watched = {} /\ stale = Paths /\ op = [t \in Threads |-> Idle]
  BY <1>1 DEF InotifyInit
<1>3. Now = Idle /\ Now.pc = "idle" /\ Idle \in Operations
  BY <1>2, InotifyAssumption DEF Now, Idle, Operations
<1>4. map \in [Dirs -> Seq(Entry)] /\ \A d \in Dirs : OneWatch(map[d]) /\ ~HasWatch(map[d])
  BY <1>2 DEF OneWatch, HasWatch
<1>5. StateInv
  BY <1>2, <1>3, <1>4, InotifyAssumption DEF StateInv
<1>6. FoundInv /\ ListedInv
  BY <1>2, <1>3 DEF FoundInv, ListedInv
<1>7. KernelInv
  BY <1>2, <1>4 DEF KernelInv
<1> QED BY <1>5, <1>6, <1>7 DEF ListInv

(* With one thread a path that watchConfig has returned TRUE for stays     *)
(* listed (inotify_manager.cc 25), whatever directories the paths are in.  *)
THEOREM WatchedStaysListed ==
  ASSUME \A t \in Threads : t = IoThread
  PROVE  InotifySpec => []WatchedIsListed
<1>1. ListInv => WatchedIsListed
  BY DEF ListInv, ListedInv, WatchedIsListed, Listed
<1>2. ListInv /\ [InotifyNext]_inotifyVars => ListInv'
  BY ListStep
<1> QED BY <1>1, <1>2, ListInitially, PTL DEF InotifySpec

-----------------------------------------------------------------------------
(* Every file in the current directory                                     *)

(* Paths in other directories cannot be watched.                           *)
AllBare == \A p \in Paths : p \in BarePaths \/ ParentDir[p] \in NoSuchDir \ {Cwd}

(* The list of the current directory grows at its end, and loses no entry  *)
(* of the main configuration.                                              *)
LEMMA FirstStep ==
  ASSUME \A t \in Threads : t = IoThread, AllBare, ListInv, FirstInv, InotifyNext
  PROVE  FirstInv'
<1>1. /\ map \in [Dirs -> Seq(Entry)] /\ Cwd \in Dirs /\ op \in [Threads -> Operations]
      /\ Now \in Operations
  BY InotifyAssumption DEF ListInv, StateInv, Dirs, Now
<1>2. ASSUME UNCHANGED map,
             \/ Now' = Now
             \/ Now'.pc \notin {"watch", "goodbye"}
             \/ /\ Now'.pc = "watch"
                /\ ~Now'.hasDir /\ ParentDir[Now'.path] = Cwd => Now'.path = MainConfig
             \/ Now'.pc = "goodbye" /\ Now'.path # MainConfig
      PROVE  FirstInv'
  BY <1>2 DEF FirstInv, FirstHoldsWatch
<1>3. ASSUME NEW p \in Paths, FindWatch(IoThread, p) PROVE FirstInv'
  <2>1. UNCHANGED map
    BY <1>3 DEF FindWatch
  <2>2. CASE Begin(IoThread, [pc |-> "load", path |-> p])
    <3>1. Now'.pc = "load"
      BY <1>1, <2>2, InotifyAssumption DEF Begin, Now
    <3> QED BY <1>2, <2>1, <3>1
  <2>3. CASE Begin(IoThread, [pc |-> "watch", path |-> p, hasDir |-> map[ParentDir[p]] # <<>>])
    <3>1. PICK b : b = (map[ParentDir[p]] # <<>>)
      OBVIOUS
    <3>2. Begin(IoThread, [pc |-> "watch", path |-> p, hasDir |-> b])
      BY <2>3, <3>1
    <3>3. Now'.pc = "watch" /\ Now'.path = p /\ Now'.hasDir = b
      BY <1>1, <3>2, InotifyAssumption DEF Begin, Now
    <3>4. p = MainConfig \/ MainConfig \in watched
      BY <1>3 DEF FindWatch
    <3>5. MainConfig \in watched => map[Cwd] # <<>>
      <4>1. ParentDir[MainConfig] = Cwd
        BY InotifyAssumption
      <4> QED BY <4>1 DEF ListInv, ListedInv
    <3> QED BY <1>2, <2>1, <3>1, <3>3, <3>4, <3>5
  <2> QED BY <1>3, <2>2, <2>3 DEF FindWatch
<1>4. ASSUME NEW p \in Paths, FindGoodbye(IoThread, p) PROVE FirstInv'
  <2>1. UNCHANGED map /\ p # MainConfig
    BY <1>4 DEF FindGoodbye
  <2>2. CASE UNCHANGED op
    BY <1>2, <2>1, <2>2 DEF Now
  <2>3. ASSUME NEW k,
               Begin(IoThread, [pc |-> "goodbye", path |-> p, pos |-> k,
                                seen |-> map[ParentDir[p]]])
        PROVE  FirstInv'
    <3>1. Now'.pc = "goodbye" /\ Now'.path = p
      BY <1>1, <2>3, InotifyAssumption DEF Begin, Now
    <3> QED BY <1>2, <2>1, <3>1
  <2> QED BY <1>4, <2>2, <2>3 DEF FindGoodbye
<1>5. CASE AddWatch(IoThread)
  <2>1. PICK p : p = Now.path
    OBVIOUS
  <2>2. Now.pc = "watch" /\ ~Now.hasDir /\ p \in Paths
    BY <1>1, <1>5, <2>1, OperationFields DEF AddWatch, Now
  <2>3. CASE UNCHANGED map /\ Begin(IoThread, Idle)
    <3>1. Now'.pc = "idle"
      BY <1>1, <2>3, InotifyAssumption DEF Begin, Now, Idle
    <3> QED BY <1>2, <2>3, <3>1
  <2>4. CASE /\ ParentDir[p] \notin NoSuchDir
             /\ map' = [map EXCEPT ![ParentDir[p]] = <<[wd |-> TRUE, config |-> p]>>]
             /\ Begin(IoThread, [pc |-> "load", path |-> p])
    <3>1. Now'.pc = "load"
      BY <1>1, <2>4, InotifyAssumption DEF Begin, Now
    <3>2. ParentDir[p] = Cwd
      BY <2>2, <2>4, InotifyAssumption DEF AllBare
    <3>3. p = MainConfig
      BY <2>1, <2>2, <3>2 DEF FirstInv
    <3>4. PICK s : s = <<[wd |-> TRUE, config |-> p]>>
      OBVIOUS
    <3>5. s \in Seq(Entry) /\ Len(s) = 1 /\ s[1].config = p /\ s[1].wd = TRUE
      BY <2>2, <3>4, SingleEntry
    <3>6. map'[Cwd] = s /\ \A e \in Dirs : e # Cwd => map'[e] = <<>>
      BY <1>1, <2>4, <3>2, <3>4 DEF FirstInv
    <3>7. FirstHoldsWatch'
      <4>1. \A k \in 1..Len(s) : s[k].wd <=> k = 1
        BY <3>5
      <4>2. \A e \in Dirs : e # Cwd => \A k \in 1..Len(map'[e]) : map'[e][k].wd <=> k = 1
        BY <3>6
      <4> QED BY <3>6, <4>1, <4>2 DEF FirstHoldsWatch
    <3> QED BY <3>1, <3>3, <3>5, <3>6, <3>7 DEF FirstInv
  <2> QED BY <1>5, <2>1, <2>3, <2>4 DEF AddWatch, Now
<1>6. CASE JoinWatch(IoThread)
  <2>1. PICK p : p = Now.path
    OBVIOUS
  <2>2. Now.pc = "watch" /\ p \in Paths
    BY <1>1, <1>6, <2>1, OperationFields DEF JoinWatch, Now
  <2>3. CASE UNCHANGED map /\ Begin(IoThread, Undefined)
    <3>1. Now'.pc = "undefined"
      BY <1>1, <2>3, InotifyAssumption DEF Begin, Now, Undefined
    <3> QED BY <1>2, <2>3, <3>1
  <2>4. CASE /\ map[ParentDir[p]] # <<>>
             /\ map' = [map EXCEPT ![ParentDir[p]] = Append(@, [wd |-> FALSE, config |-> p])]
             /\ Begin(IoThread, [pc |-> "load", path |-> p])
    <3>1. Now'.pc = "load"
      BY <1>1, <2>4, InotifyAssumption DEF Begin, Now
    <3>2. ParentDir[p] = Cwd
      BY <2>2, <2>4, DirOf DEF FirstInv
    <3>3. PICK e : e = [wd |-> FALSE, config |-> p]
      OBVIOUS
    <3>4. e \in Entry /\ e.wd = FALSE
      BY <2>2, <3>3 DEF Entry
    <3>5. PICK m : m = map[Cwd]
      OBVIOUS
    <3>6. PICK s : s = Append(m, e)
      OBVIOUS
    <3>7. m \in Seq(Entry) /\ m # <<>> /\ map'[Cwd] = s /\ \A x \in Dirs : x # Cwd => map'[x] = <<>>
      BY <1>1, <2>4, <3>2, <3>3, <3>5, <3>6 DEF FirstInv
    <3>8. PICK n \in Nat : n = Len(m) /\ n >= 1
      BY <3>7
    <3>9. Len(s) = n + 1 /\ s[n + 1] = e /\ \A k \in 1..n : s[k] = m[k]
      BY <3>4, <3>6, <3>7, <3>8, AppendedEntry
    <3>10. m[1].config = MainConfig /\ \A k \in 1..n : m[k].wd <=> k = 1
      BY <1>1, <3>5, <3>7, <3>8 DEF FirstInv, FirstHoldsWatch
    <3>11. s[1].config = MainConfig
      BY <3>8, <3>9, <3>10
    <3>12. \A k \in 1..Len(s) : s[k].wd <=> k = 1
      <4>1. \A k \in 1..Len(s) : k \in 1..n \/ k = n + 1
        BY <3>9
      <4>2. n + 1 # 1 /\ ~s[n + 1].wd
        BY <3>4, <3>8, <3>9
      <4> QED BY <3>9, <3>10, <4>1, <4>2
    <3>13. FirstHoldsWatch'
      <4>1. \A x \in Dirs : x # Cwd => \A k \in 1..Len(map'[x]) : map'[x][k].wd <=> k = 1
        BY <3>7
      <4> QED BY <3>7, <3>12, <4>1 DEF FirstHoldsWatch
    <3> QED BY <3>1, <3>7, <3>11, <3>13 DEF FirstInv
  <2> QED BY <1>6, <2>1, <2>3, <2>4 DEF JoinWatch, Now
<1>7. CASE Goodbye(IoThread)
  <2>1. PICK p : p = Now.path
    OBVIOUS
  <2>2. PICK k : k = Now.pos
    OBVIOUS
  <2>3. /\ Now.pc = "goodbye" /\ p \in Paths /\ p # MainConfig
        /\ k \in 1..Len(Now.seen) /\ Now.seen[k].config = p
    BY <1>1, <1>7, <2>1, <2>2, OperationFields DEF Goodbye, Now, FirstInv, ListInv, FoundInv
  <2>4. CASE UNCHANGED map /\ Begin(IoThread, Undefined)
    <3>1. Now'.pc = "undefined"
      BY <1>1, <2>4, InotifyAssumption DEF Begin, Now, Undefined
    <3> QED BY <1>2, <2>4, <3>1
  <2>5. CASE /\ map[ParentDir[p]] = Now.seen /\ Begin(IoThread, Idle)
             /\ map' = [map EXCEPT ![ParentDir[p]] = Without(@, k)]
    <3>1. Now'.pc = "idle"
      BY <1>1, <2>5, InotifyAssumption DEF Begin, Now, Idle
    <3>2. PICK m : m = map[ParentDir[p]]
      OBVIOUS
    <3>3. PICK s : s = Without(m, k)
      OBVIOUS
    <3>4. m \in Seq(Entry) /\ k \in 1..Len(m) /\ m[k].config = p
      BY <1>1, <2>3, <2>5, <3>2, DirOf
    <3>5. ParentDir[p] = Cwd
      <4>1. m # <<>>
        BY <3>4
      <4> QED BY <2>3, <3>2, <4>1, DirOf DEF FirstInv
    <3>6. PICK n \in Nat : n = Len(m)
      BY <3>4
    <3>7. m # <<>>
      BY <3>4
    <3>8. m[1].config = MainConfig /\ \A j \in 1..n : m[j].wd <=> j = 1
      BY <1>1, <3>2, <3>5, <3>6, <3>7 DEF FirstInv, FirstHoldsWatch
    <3>9. k # 1
      BY <2>3, <3>4, <3>8
    <3>10. /\ Len(s) = n - 1 /\ \A i \in 1..(n - 1) : Place(k, i) \in 1..n /\ s[i] = m[Place(k, i)]
      BY <3>3, <3>4, <3>6, WithoutEntry
    <3>11. \A i \in 1..(n - 1) : Place(k, i) = 1 <=> i = 1
      BY <3>4, <3>6, <3>9 DEF Place
    <3>12. \A i \in 1..Len(s) : s[i].wd <=> i = 1
      BY <3>8, <3>10, <3>11
    <3>13. 1 \in 1..Len(s) /\ s[1].config = MainConfig
      <4>1. 1 \in 1..(n - 1)
        BY <3>4, <3>6, <3>9
      <4> QED BY <3>8, <3>10, <3>11, <4>1
    <3>14. map'[Cwd] = s /\ \A x \in Dirs : x # Cwd => map'[x] = <<>>
      BY <1>1, <2>5, <3>2, <3>3, <3>5 DEF FirstInv
    <3>15. FirstHoldsWatch'
      <4>1. \A x \in Dirs : x # Cwd => \A j \in 1..Len(map'[x]) : map'[x][j].wd <=> j = 1
        BY <3>14
      <4> QED BY <3>12, <3>14, <4>1 DEF FirstHoldsWatch
    <3> QED BY <3>1, <3>13, <3>14, <3>15 DEF FirstInv
  <2> QED BY <1>7, <2>1, <2>2, <2>4, <2>5 DEF Goodbye, Now
<1>8. CASE LoadFile(IoThread)
  <2>1. UNCHANGED map /\ Now'.pc = "idle"
    BY <1>1, <1>8, InotifyAssumption DEF LoadFile, Begin, Now, Idle
  <2> QED BY <1>2, <2>1
<1>9. CASE DestroyManager
  <2>1. Now' = Now /\ \A x \in Dirs : map'[x] = <<>>
    BY <1>9 DEF DestroyManager, Now
  <2>2. FirstHoldsWatch'
    BY <2>1 DEF FirstHoldsWatch
  <2> QED BY <1>1, <2>1, <2>2 DEF FirstInv
<1>10. CASE \E p \in Paths : FileChanged(p)
  BY <1>2, <1>10 DEF FileChanged, Now
<1>11. CASE FindEvent
  <2>1. UNCHANGED map
    BY <1>11 DEF FindEvent
  <2>2. CASE UNCHANGED op
    BY <1>2, <2>1, <2>2 DEF Now
  <2>3. ASSUME NEW p, Begin(IoThread, [pc |-> "event", path |-> p, seen |-> map[Cwd]])
        PROVE  FirstInv'
    <3>1. Now'.pc = "event"
      BY <1>1, <2>3, InotifyAssumption DEF Begin, Now
    <3> QED BY <1>2, <2>1, <3>1
  <2> QED BY <1>11, <2>2, <2>3 DEF FindEvent
<1>12. CASE OnInotifyEvent
  <2>1. UNCHANGED map /\ Now'.pc \in {"load", "undefined"}
    BY <1>1, <1>12, InotifyAssumption DEF OnInotifyEvent, Begin, Now, Undefined
  <2> QED BY <1>2, <2>1
<1> QED
  BY <1>3, <1>4, <1>5, <1>6, <1>7, <1>8, <1>9, <1>10, <1>11, <1>12 DEF InotifyNext

(* The lists begin empty.                                                  *)
LEMMA FirstInitially == InotifyInit => FirstInv
<1>1. SUFFICES ASSUME InotifyInit PROVE FirstInv
  OBVIOUS
<1>2. Now.pc = "idle" /\ Cwd \in Dirs /\ \A d \in Dirs : map[d] = <<>>
  BY <1>1, InotifyAssumption DEF InotifyInit, Now, Idle, Dirs
<1>3. FirstHoldsWatch
  BY <1>2 DEF FirstHoldsWatch
<1> QED BY <1>2, <1>3 DEF FirstInv

(* The types of the state follow from the invariant of the lists.          *)
LEMMA ListTypes == ASSUME ListInv PROVE InotifyTypeOK
<1>1. \A t \in Threads : op[t].pc \in {"idle", "undefined", "watch", "load", "goodbye", "event"}
  BY OperationFields DEF ListInv, StateInv
<1> QED BY <1>1 DEF ListInv, StateInv, InotifyTypeOK, Entry

(* So does that no watch is leaked.                                        *)
LEMMA WatchesHeld == ASSUME ListInv PROVE NoLeakedWatch
<1>1. ASSUME NEW d \in Dirs PROVE Cardinality({k \in 1..Len(map[d]) : map[d][k].wd}) <= 1
  <2>1. OneWatch(map[d])
    BY <1>1 DEF ListInv, KernelInv
  <2>2. PICK H : H = {k \in 1..Len(map[d]) : map[d][k].wd}
    OBVIOUS
  <2>3. \A j, k \in H : j = k
    BY <2>1, <2>2 DEF OneWatch
  <2>4. Cardinality(H) = 0 \/ Cardinality(H) = 1
    <3>1. CASE H = {}
      BY <3>1, FS_EmptySet
    <3>2. CASE H # {}
      <4>1. PICK k : k \in H
        BY <3>2
      <4>2. H = {k}
        BY <2>3, <4>1
      <4> QED BY <4>2, FS_Singleton
    <3> QED BY <3>1, <3>2
  <2> QED BY <2>2, <2>4
<1> QED BY <1>1 DEF ListInv, KernelInv, HasWatch, NoLeakedWatch

(* With one thread the kernel watches exactly the directories of which one *)
(* entry holds the descriptor (inotify_manager.cc 40-46, 80-92, 133-143),  *)
(* whatever directories the paths are in.                                  *)
THEOREM NoWatchLeaks ==
  ASSUME \A t \in Threads : t = IoThread
  PROVE  InotifySpec => []NoLeakedWatch
<1>1. ListInv => NoLeakedWatch
  BY WatchesHeld
<1>2. ListInv /\ [InotifyNext]_inotifyVars => ListInv'
  BY ListStep
<1> QED BY <1>1, <1>2, ListInitially, PTL DEF InotifySpec

(* With one thread, and the files that can be watched next to the main     *)
(* configuration: the first entry of a list, and no other, holds the       *)
(* descriptor, and the kernel watches what is listed (inotify_manager.cc   *)
(* 31-100).                                                                *)
THEOREM WatchesFollowLists ==
  ASSUME \A t \in Threads : t = IoThread, AllBare
  PROVE  InotifySpec => []InotifyInv
<1>1. ListInv /\ FirstInv => InotifyInv
  BY ListTypes, WatchesHeld DEF FirstInv, InotifyInv
<1>2. ListInv /\ [InotifyNext]_inotifyVars => ListInv'
  BY ListStep
<1>3. ListInv /\ FirstInv /\ [InotifyNext]_inotifyVars => FirstInv'
  <2>1. FirstInv /\ UNCHANGED inotifyVars => FirstInv'
    BY DEF inotifyVars, FirstInv, FirstHoldsWatch, Now
  <2> QED BY <2>1, FirstStep
<1> QED BY <1>1, <1>2, <1>3, ListInitially, FirstInitially, PTL DEF InotifySpec

-----------------------------------------------------------------------------
(* Changes reach the callback                                              *)

(* A watched file is one the kernel sees the changes of, and its name      *)
(* finds it and no other.                                                  *)
LEMMA WatchedBare ==
  ASSUME AllBare, ListInv, FirstInv, NEW p \in watched
  PROVE  p \in BarePaths /\ ParentDir[p] = Cwd /\ Cwd \in kernel /\ Listed(p) # {}
<1>1. p \in Paths /\ ParentDir[p] \in Dirs
  BY DirOf DEF ListInv, StateInv
<1>2. PICK k \in 1..Len(map[ParentDir[p]]) : map[ParentDir[p]][k].config = p
  BY DEF ListInv, ListedInv
<1>3. map[ParentDir[p]] # <<>>
  BY <1>2
<1>4. ParentDir[p] = Cwd
  BY <1>1, <1>3 DEF FirstInv
<1>5. map[Cwd] \in Seq(Entry) /\ map[Cwd] # <<>> /\ Cwd \in Dirs
  BY <1>1, <1>3, <1>4 DEF ListInv, StateInv
<1>6. 1 \in 1..Len(map[Cwd])
  BY <1>5
<1>7. map[Cwd][1].wd
  BY <1>5, <1>6 DEF FirstInv, FirstHoldsWatch
<1>8. Cwd \in kernel
  BY <1>5, <1>6, <1>7 DEF ListInv, KernelInv, HasWatch
<1>9. p \in BarePaths
  BY <1>1, <1>4 DEF AllBare
<1> QED BY <1>2, <1>4, <1>8, <1>9 DEF Listed

(* While the thread is in an operation no other changes the lists.         *)
LEMMA KeptStep ==
  ASSUME \A t \in Threads : t = IoThread, ListInv, KeptInv, InotifyNext
  PROVE  KeptInv'
<1>1. op \in [Threads -> Operations] /\ Now \in Operations
  BY InotifyAssumption DEF ListInv, StateInv, Now
<1>2. ASSUME watched' = {} \/ Now'.pc \in {"idle", "load"} PROVE KeptInv'
  BY <1>2 DEF KeptInv, Undefined
<1>3. ASSUME NEW p \in Paths, FindWatch(IoThread, p) PROVE KeptInv'
  <2>1. CASE Begin(IoThread, [pc |-> "load", path |-> p])
    <3>1. Now'.pc = "load"
      BY <1>1, <2>1, InotifyAssumption DEF Begin, Now
    <3> QED BY <1>2, <3>1
  <2>2. CASE Begin(IoThread, [pc |-> "watch", path |-> p, hasDir |-> map[ParentDir[p]] # <<>>])
    <3>1. PICK b : b = (map[ParentDir[p]] # <<>>)
      OBVIOUS
    <3>2. Begin(IoThread, [pc |-> "watch", path |-> p, hasDir |-> b])
      BY <2>2, <3>1
    <3>3. Now'.pc = "watch" /\ Now'.path = p /\ Now'.hasDir = b
      BY <1>1, <3>2, InotifyAssumption DEF Begin, Now
    <3>4. UNCHANGED map
      BY <1>3 DEF FindWatch
    <3>5. List' = map[ParentDir[p]]
      BY <3>3, <3>4 DEF List
    <3>6. Now'.hasDir => List' # <<>>
      BY <3>1, <3>3, <3>5, Zenon
    <3>7. Now' # Undefined
      BY <3>3 DEF Undefined
    <3> QED BY <3>3, <3>6, <3>7 DEF KeptInv
  <2> QED BY <1>3, <2>1, <2>2 DEF FindWatch
<1>4. ASSUME NEW p \in Paths, FindGoodbye(IoThread, p) PROVE KeptInv'
  <2>1. CASE UNCHANGED op
    <3>1. Now'.pc = "idle"
      BY <1>4, <2>1 DEF FindGoodbye, Now, Idle
    <3> QED BY <1>2, <3>1
  <2>2. ASSUME NEW k,
               Begin(IoThread, [pc |-> "goodbye", path |-> p, pos |-> k,
                                seen |-> map[ParentDir[p]]])
        PROVE  KeptInv'
    <3>1. Now'.pc = "goodbye" /\ Now'.path = p /\ Now'.seen = map[ParentDir[p]]
      BY <1>1, <2>2, InotifyAssumption DEF Begin, Now
    <3>2. UNCHANGED map
      BY <1>4 DEF FindGoodbye
    <3> QED BY <3>1, <3>2 DEF KeptInv, List, Undefined
  <2> QED BY <1>4, <2>1, <2>2 DEF FindGoodbye
<1>5. CASE AddWatch(IoThread)
  <2>1. Begin(IoThread, Idle) \/ Begin(IoThread, [pc |-> "load", path |-> Now.path])
    BY <1>5 DEF AddWatch, Now
  <2>2. Now'.pc \in {"idle", "load"}
    BY <1>1, <2>1, InotifyAssumption DEF Begin, Now, Idle
  <2> QED BY <1>2, <2>2
<1>6. CASE JoinWatch(IoThread)
  <2>1. Now.pc = "watch" /\ Now.hasDir
    BY <1>6 DEF JoinWatch, Now
  <2>2. CASE List = <<>> /\ UNCHANGED watched
    <3>1. watched' = {}
      BY <2>1, <2>2 DEF KeptInv
    <3> QED BY <1>2, <3>1
  <2>3. CASE Begin(IoThread, [pc |-> "load", path |-> Now.path])
    <3>1. Now'.pc = "load"
      BY <1>1, <2>3, InotifyAssumption DEF Begin, Now
    <3> QED BY <1>2, <3>1
  <2> QED BY <1>6, <2>2, <2>3 DEF JoinWatch, Now, List
<1>7. CASE Goodbye(IoThread)
  <2>1. Now.pc = "goodbye"
    BY <1>7 DEF Goodbye, Now
  <2>2. CASE List # Now.seen /\ UNCHANGED watched
    <3>1. watched' = {}
      BY <2>1, <2>2 DEF KeptInv
    <3> QED BY <1>2, <3>1
  <2>3. CASE Begin(IoThread, Idle)
    <3>1. Now'.pc = "idle"
      BY <1>1, <2>3, InotifyAssumption DEF Begin, Now, Idle
    <3> QED BY <1>2, <3>1
  <2> QED BY <1>7, <2>2, <2>3 DEF Goodbye, Now, List
<1>8. CASE LoadFile(IoThread)
  <2>1. Now'.pc = "idle"
    BY <1>1, <1>8, InotifyAssumption DEF LoadFile, Begin, Now, Idle
  <2> QED BY <1>2, <2>1
<1>9. CASE DestroyManager
  BY <1>2, <1>9 DEF DestroyManager
<1>10. CASE \E p \in Paths : FileChanged(p)
  BY <1>10 DEF FileChanged, KeptInv, Now, List
<1>11. CASE FindEvent
  <2>1. CASE UNCHANGED op
    <3>1. Now'.pc = "idle"
      BY <1>11, <2>1 DEF FindEvent, Now, Idle
    <3> QED BY <1>2, <3>1
  <2>2. ASSUME NEW p, Begin(IoThread, [pc |-> "event", path |-> p, seen |-> map[Cwd]])
        PROVE  KeptInv'
    <3>1. Now'.pc = "event" /\ Now'.seen = map[Cwd]
      BY <1>1, <2>2, InotifyAssumption DEF Begin, Now
    <3>2. UNCHANGED map
      BY <1>11 DEF FindEvent
    <3> QED BY <3>1, <3>2 DEF KeptInv, Undefined
  <2> QED BY <1>11, <2>1, <2>2 DEF FindEvent
<1>12. CASE OnInotifyEvent
  <2>1. CASE map[Cwd] = Now.seen
    <3>1. Begin(IoThread, [pc |-> "load", path |-> Now.path])
      BY <1>12, <2>1 DEF OnInotifyEvent, Now
    <3>2. Now'.pc = "load"
      BY <1>1, <3>1, InotifyAssumption DEF Begin, Now
    <3> QED BY <1>2, <3>2
  <2>2. CASE map[Cwd] # Now.seen
    <3>1. watched' = {}
      BY <1>12, <2>2 DEF OnInotifyEvent, Now, KeptInv
    <3> QED BY <1>2, <3>1
  <2> QED BY <2>1, <2>2
<1> QED
  BY <1>3, <1>4, <1>5, <1>6, <1>7, <1>8, <1>9, <1>10, <1>11, <1>12 DEF InotifyNext

(* No change is lost on its way: from the kernel's queue to the callback.  *)
LEMMA DeliverStep ==
  ASSUME \A t \in Threads : t = IoThread, AllBare, ListInv, FirstInv, KeptInv, DeliverInv,
         InotifyNext
  PROVE  DeliverInv'
<1>1. /\ op \in [Threads -> Operations] /\ Now \in Operations /\ pending \in Seq(Names)
  BY InotifyAssumption DEF ListInv, StateInv, Now
(* What was in the queue stays there while nothing is taken out of it.     *)
<1>2. ASSUME NEW p \in watched \cap stale, Now.pc \notin {"load", "event"} \/ Now.path # p,
             UNCHANGED pending
      PROVE  UnderWay(p)'
  BY <1>2 DEF DeliverInv, UnderWay
<1>3. ASSUME UNCHANGED <<pending, stale>>, Now.pc \notin {"load", "event"},
             \A p \in watched' : p \in watched \/ (Now'.pc = "load" /\ Now'.path = p)
      PROVE  DeliverInv'
  <2>1. SUFFICES ASSUME NEW p \in watched', p \in stale PROVE UnderWay(p)'
    BY <1>3 DEF DeliverInv
  <2>2. CASE p \in watched
    BY <1>2, <1>3, <2>1, <2>2
  <2>3. CASE Now'.pc = "load" /\ Now'.path = p
    BY <2>3 DEF UnderWay
  <2> QED BY <1>3, <2>1, <2>2, <2>3
<1>4. ASSUME NEW p \in Paths, Begin(IoThread, [pc |-> "load", path |-> p])
      PROVE  Now'.pc = "load" /\ Now'.path = p
  BY <1>1, <1>4, InotifyAssumption DEF Begin, Now
<1>5. ASSUME NEW p \in Paths, FindWatch(IoThread, p) PROVE DeliverInv'
  <2>1. UNCHANGED <<pending, stale>> /\ Now.pc = "idle"
    BY <1>5 DEF FindWatch, Now, Idle
  <2>2. \/ watched' = watched
        \/ watched' = watched \cup {p} /\ Begin(IoThread, [pc |-> "load", path |-> p])
    BY <1>5 DEF FindWatch
  <2> QED BY <1>3, <1>4, <2>1, <2>2
<1>6. ASSUME NEW p \in Paths, FindGoodbye(IoThread, p) PROVE DeliverInv'
  <2>1. UNCHANGED <<pending, stale>> /\ Now.pc = "idle" /\ watched' \subseteq watched
    BY <1>6 DEF FindGoodbye, Now, Idle
  <2> QED BY <1>3, <2>1
<1>7. CASE AddWatch(IoThread) \/ JoinWatch(IoThread)
  <2>1. UNCHANGED <<pending, stale>> /\ Now.pc = "watch" /\ Now.path \in Paths
    BY <1>1, <1>7, OperationFields DEF AddWatch, JoinWatch, Now
  <2>2. \/ watched' = watched
        \/ /\ watched' = watched \cup {Now.path}
           /\ Begin(IoThread, [pc |-> "load", path |-> Now.path])
    BY <1>7 DEF AddWatch, JoinWatch, Now
  <2> QED BY <1>3, <1>4, <2>1, <2>2
<1>8. CASE Goodbye(IoThread)
  <2>1. UNCHANGED <<pending, stale>> /\ Now.pc = "goodbye" /\ watched' \subseteq watched
    BY <1>8 DEF Goodbye, Now
  <2> QED BY <1>3, <2>1
<1>9. CASE LoadFile(IoThread)
  <2>1. SUFFICES ASSUME NEW p \in watched \cap stale, p # Now.path PROVE UnderWay(p)'
    BY <1>9 DEF LoadFile, Now, DeliverInv
  <2>2. UNCHANGED pending
    BY <1>9 DEF LoadFile
  <2> QED BY <1>2, <2>1, <2>2
<1>10. CASE DestroyManager
  BY <1>10 DEF DestroyManager, DeliverInv
<1>11. ASSUME NEW p \in Paths, FileChanged(p) PROVE DeliverInv'
  <2>1. /\ stale' = stale \cup {p} /\ UNCHANGED <<op, watched>>
        /\ pending' = IF ParentDir[p] \in kernel THEN Append(pending, FileName[p]) ELSE pending
    BY <1>11 DEF FileChanged
  <2>2. PICK n \in Nat : n = Len(pending)
    BY <1>1
  <2>3. FileName[p] \in Names
    BY <1>11 DEF Names
  <2>4. \A k \in 1..n : k \in 1..Len(pending') /\ pending'[k] = pending[k]
    BY <1>1, <2>1, <2>2, <2>3
  <2>5. ASSUME NEW q \in watched \cap stale PROVE UnderWay(q)'
    BY <2>1, <2>2, <2>4, <2>5 DEF DeliverInv, UnderWay, Now
  <2>6. ASSUME p \in watched PROVE UnderWay(p)'
    <3>1. pending' = Append(pending, FileName[p])
      BY <2>1, <2>6, WatchedBare
    <3>2. n + 1 \in 1..Len(pending') /\ pending'[n + 1] = FileName[p]
      BY <1>1, <2>2, <2>3, <3>1
    <3> QED BY <3>2 DEF UnderWay
  <2> QED BY <2>1, <2>5, <2>6 DEF DeliverInv
<1>12. CASE FindEvent
  <2>1. /\ Now.pc = "idle" /\ pending # <<>> /\ pending' = Tail(pending)
        /\ UNCHANGED <<watched, stale>>
    BY <1>12 DEF FindEvent, Now, Idle
  <2>2. SUFFICES ASSUME NEW p \in watched \cap stale PROVE UnderWay(p)'
    BY <2>1 DEF DeliverInv
  <2>3. PICK n \in Nat : n = Len(pending) /\ n >= 1
    BY <1>1, <2>1
  <2>4. /\ Head(pending) = pending[1] /\ Len(pending') = n - 1
        /\ \A k \in 1..(n - 1) : pending'[k] = pending[k + 1]
    BY <1>1, <2>1, <2>3
  <2>5. PICK k \in 1..n : pending[k] = FileName[p]
    BY <2>1, <2>2, <2>3 DEF DeliverInv, UnderWay
  <2>6. CASE k # 1
    <3>1. k - 1 \in 1..(n - 1) /\ (k - 1) + 1 = k
      BY <2>5, <2>6
    <3>2. pending'[k - 1] = FileName[p]
      BY <2>4, <2>5, <3>1
    <3> QED BY <2>4, <3>1, <3>2 DEF UnderWay
  <2>7. CASE k = 1
    <3>1. p \in BarePaths /\ Listed(p) # {} /\ FileName[p] = Head(pending)
      BY <2>2, <2>4, <2>5, <2>7, WatchedBare
    <3>2. PICK q \in BarePaths :
            /\ FileName[q] = Head(pending)
            /\ Begin(IoThread, [pc |-> "event", path |-> q, seen |-> map[Cwd]])
      BY <1>12, <3>1 DEF FindEvent
    <3>3. q = p
      BY <3>1, <3>2, InotifyAssumption
    <3>4. Now'.pc = "event" /\ Now'.path = p
      BY <1>1, <3>2, <3>3, InotifyAssumption DEF Begin, Now
    <3> QED BY <3>4 DEF UnderWay
  <2> QED BY <2>6, <2>7
<1>13. CASE OnInotifyEvent
  <2>1. Now.pc = "event" /\ UNCHANGED <<watched, stale, pending>> /\ Now.path \in Paths
    BY <1>1, <1>13, OperationFields DEF OnInotifyEvent, Now
  <2>2. SUFFICES ASSUME NEW p \in watched \cap stale PROVE UnderWay(p)'
    BY <2>1 DEF DeliverInv
  <2>3. CASE Now.path # p
    BY <1>2, <2>1, <2>3
  <2>4. CASE Now.path = p
    <3>1. map[Cwd] = Now.seen
      BY <2>1, <2>2 DEF KeptInv
    <3>2. Begin(IoThread, [pc |-> "load", path |-> p])
      BY <1>13, <2>4, <3>1 DEF OnInotifyEvent, Now
    <3> QED BY <1>4, <2>1, <2>4, <3>2 DEF UnderWay
  <2> QED BY <2>3, <2>4
<1> QED
  BY <1>5, <1>6, <1>7, <1>8, <1>9, <1>10, <1>11, <1>12, <1>13 DEF InotifyNext

(* With one thread, and the files that can be watched next to the main     *)
(* configuration, no change of a watched file is forgotten                 *)
(* (inotify_manager.cc 192-210): when the queue is empty and the thread    *)
(* idle every watched file has been loaded since it last changed.          *)
THEOREM NoChangeForgotten ==
  ASSUME \A t \in Threads : t = IoThread, AllBare
  PROVE  InotifySpec => []ChangesDelivered
<1>1. ListInv /\ DeliverInv => ChangesDelivered
  <2>1. SUFFICES ASSUME DeliverInv, pending = <<>>, \A t \in Threads : op[t] = Idle
                 PROVE  watched \cap stale = {}
    BY DEF ChangesDelivered
  <2>2. Now.pc = "idle" /\ Len(pending) = 0
    BY <2>1, InotifyAssumption DEF Now, Idle
  <2>3. \A p : ~UnderWay(p)
    BY <2>2 DEF UnderWay
  <2> QED BY <2>1, <2>3 DEF DeliverInv
<1>2. ListInv /\ [InotifyNext]_inotifyVars => ListInv'
  BY ListStep
<1>3. ListInv /\ FirstInv /\ [InotifyNext]_inotifyVars => FirstInv'
  <2>1. FirstInv /\ UNCHANGED inotifyVars => FirstInv'
    BY DEF inotifyVars, FirstInv, FirstHoldsWatch, Now
  <2> QED BY <2>1, FirstStep
<1>4. ListInv /\ KeptInv /\ [InotifyNext]_inotifyVars => KeptInv'
  <2>1. KeptInv /\ UNCHANGED inotifyVars => KeptInv'
    BY DEF inotifyVars, KeptInv, Now, List
  <2> QED BY <2>1, KeptStep
<1>5. ListInv /\ FirstInv /\ KeptInv /\ DeliverInv /\ [InotifyNext]_inotifyVars => DeliverInv'
  <2>1. DeliverInv /\ UNCHANGED inotifyVars => DeliverInv'
    BY DEF inotifyVars, DeliverInv, UnderWay, Now
  <2> QED BY <2>1, DeliverStep
<1>6. InotifyInit => KeptInv /\ DeliverInv
  BY DEF InotifyInit, KeptInv, DeliverInv
<1> QED
  BY <1>1, <1>2, <1>3, <1>4, <1>5, <1>6, ListInitially, FirstInitially, PTL DEF InotifySpec
=============================================================================
