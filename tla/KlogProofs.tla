----------------------------- MODULE KlogProofs -----------------------------
(* Theorems about Klog, for any CPUs, any messages, any size of the ring   *)
(* and any number of deaths of the process.                                *)
EXTENDS Klog, FiniteSetTheorems, TLAPS

-----------------------------------------------------------------------------
(* A set of numbers that has 0 and with a number below N the next has N.   *)
LEMMA Reach ==
  ASSUME NEW N \in Nat, NEW A \in SUBSET (0..N), 0 \in A, \A n \in A : n < N => n + 1 \in A
  PROVE  N \in A
<1> SUFFICES ASSUME N \notin A PROVE FALSE
  OBVIOUS
<1> DEFINE f == [n \in A |-> n + 1]
<1>1. IsFiniteSet(A)
  <2>1. IsFiniteSet(0..N)
    BY FS_Interval
  <2> QED BY <2>1, FS_Subset
<1>2. f \in Injection(A, A)
  <2>1. \A n \in A : n + 1 \in A
    OBVIOUS
  <2>2. f \in [A -> A]
    BY <2>1
  <2>3. \A a, b \in A : f[a] = f[b] => a = b
    OBVIOUS
  <2> QED BY <2>2, <2>3 DEF Injection, IsInjective
<1>3. f \in Surjection(A, A)
  BY <1>1, <1>2, FS_Injection
<1>4. \E n \in A : f[n] = 0
  BY <1>3 DEF Surjection
<1> QED BY <1>4

(* And so everything from 0 to N, if the step holds everywhere.            *)
LEMMA ReachAll ==
  ASSUME NEW N \in Nat, NEW A, 0 \in A, \A n \in 0..N : n \in A /\ n < N => n + 1 \in A
  PROVE  \A n \in 0..N : n \in A
<1> SUFFICES ASSUME NEW m \in 0..N PROVE m \in A
  OBVIOUS
<1> DEFINE B == {n \in 0..m : n \in A}
<1>1. B \in SUBSET (0..m) /\ 0 \in B
  OBVIOUS
<1>2. \A n \in B : n < m => n + 1 \in B
  OBVIOUS
<1>3. m \in Nat
  OBVIOUS
<1> HIDE DEF B
<1>4. m \in B
  BY <1>1, <1>2, <1>3, Reach
<1> QED BY <1>4 DEF B

-----------------------------------------------------------------------------
(* FlattenSeq, from the definition of its recursive function.              *)
Flat(seqs, f, i) == IF i = 1 THEN seqs[1] ELSE f[i - 1] \o seqs[i]

(* The recursive function of FlattenSeq exists.                            *)
LEMMA FlatExists ==
  ASSUME NEW seqs, Len(seqs) \in Nat, Len(seqs) # 0
  PROVE  \E f : f = [i \in 1..Len(seqs) |-> Flat(seqs, f, i)]
<1> DEFINE A == {n \in 0..(Len(seqs) - 1) : \E f : f = [i \in 1..(n + 1) |-> Flat(seqs, f, i)]}
<1>1. 0 \in A
  <2> DEFINE g == [i \in 1..1 |-> seqs[1]]
  <2>1. g = [i \in 1..(0 + 1) |-> Flat(seqs, g, i)]
    BY DEF Flat
  <2> QED BY <2>1
<1>2. ASSUME NEW n \in A, n < Len(seqs) - 1 PROVE n + 1 \in A
  <2>1. PICK f : f = [i \in 1..(n + 1) |-> Flat(seqs, f, i)]
    OBVIOUS
  <2>2. PICK m \in Nat : m = n + 1 /\ m \in 0..(Len(seqs) - 1)
    BY <1>2
  <2> DEFINE g == [i \in 1..(m + 1) |-> IF i = m + 1 THEN f[m] \o seqs[m + 1] ELSE f[i]]
  <2>3. ASSUME NEW i \in 1..(m + 1) PROVE g[i] = Flat(seqs, g, i)
    <3>1. CASE i = m + 1
      <4>1. i # 1 /\ i - 1 = m /\ m \in 1..(m + 1) /\ m # m + 1
        BY <2>2, <3>1
      <4>2. g[i] = f[m] \o seqs[m + 1] /\ g[m] = f[m]
        BY <3>1, <4>1
      <4> QED BY <3>1, <4>1, <4>2 DEF Flat
    <3>2. CASE i # m + 1
      <4>1. i \in 1..m /\ (i # 1 => i - 1 \in 1..m /\ i - 1 \in 1..(m + 1) /\ i - 1 # m + 1)
        BY <3>2
      <4>2. f[i] = Flat(seqs, f, i)
        BY <2>1, <2>2, <4>1
      <4>3. g[i] = f[i] /\ (i # 1 => g[i - 1] = f[i - 1])
        BY <3>2, <4>1
      <4> QED BY <4>2, <4>3 DEF Flat
    <3> QED BY <3>1, <3>2
  <2>4. g = [i \in 1..(m + 1) |-> Flat(seqs, g, i)]
    BY <2>3
  <2> QED BY <2>2, <2>4
<1>3. Len(seqs) - 1 \in A
  <2> HIDE DEF A
  <2>1. A \in SUBSET (0..(Len(seqs) - 1)) /\ Len(seqs) - 1 \in Nat
    BY DEF A
  <2> QED BY <1>1, <1>2, <2>1, Reach
<1> QED BY <1>3

Flattens(f, seqs, S) ==
  /\ FlattenSeq(seqs) = f[Len(seqs)] /\ f[1] = seqs[1]
  /\ \A i \in 2..Len(seqs) : f[i] = f[i - 1] \o seqs[i]
  /\ \A i \in 1..Len(seqs) : f[i] \in Seq(S)

(* What it computes, piece after piece.                                    *)
LEMMA FlattenIs ==
  ASSUME NEW S, NEW seqs \in Seq(Seq(S)), Len(seqs) # 0
  PROVE  \E f : Flattens(f, seqs, S)
<1>1. PICK f : f = CHOOSE g : g = [i \in 1..Len(seqs) |-> Flat(seqs, g, i)]
  OBVIOUS
<1>2. FlattenSeq(seqs) = f[Len(seqs)]
  BY <1>1 DEF FlattenSeq, Flat
<1>3. Len(seqs) \in Nat
  OBVIOUS
<1>4. f = [i \in 1..Len(seqs) |-> Flat(seqs, f, i)]
  BY <1>1, <1>3, FlatExists
<1>5. f[1] = seqs[1]
  BY <1>3, <1>4 DEF Flat
<1>6. ASSUME NEW i \in 2..Len(seqs) PROVE f[i] = f[i - 1] \o seqs[i]
  <2>1. i \in 1..Len(seqs) /\ i # 1
    OBVIOUS
  <2>2. f[i] = Flat(seqs, f, i)
    BY <1>4, <2>1
  <2> QED BY <2>1, <2>2 DEF Flat
<1> DEFINE A == {n \in 0..(Len(seqs) - 1) : f[n + 1] \in Seq(S)}
<1>7. 0 \in A
  BY <1>3, <1>5
<1>8. ASSUME NEW n \in 0..(Len(seqs) - 1), n \in A, n < Len(seqs) - 1 PROVE n + 1 \in A
  <2>1. n + 2 \in 2..Len(seqs) /\ n + 2 \in 1..Len(seqs) /\ (n + 2) - 1 = n + 1
        /\ n + 1 \in 0..(Len(seqs) - 1) /\ (n + 1) + 1 = n + 2
    BY <1>3, <1>8
  <2>2. f[n + 2] = f[n + 1] \o seqs[n + 2]
    BY <1>6, <2>1
  <2>3. f[n + 1] \in Seq(S) /\ seqs[n + 2] \in Seq(S)
    BY <1>8, <2>1
  <2>4. f[n + 2] \in Seq(S)
    BY <2>2, <2>3
  <2> QED BY <2>1, <2>4
<1>9. \A n \in 0..(Len(seqs) - 1) : n \in A
  <2> HIDE DEF A
  <2>1. Len(seqs) - 1 \in Nat
    BY <1>3
  <2> QED BY <1>7, <1>8, <2>1, ReachAll
<1>10. ASSUME NEW i \in 1..Len(seqs) PROVE f[i] \in Seq(S)
  <2>1. i - 1 \in 0..(Len(seqs) - 1) /\ (i - 1) + 1 = i
    BY <1>3
  <2>2. i - 1 \in A
    BY <1>9, <2>1
  <2> QED BY <2>1, <2>2
<1> QED BY <1>2, <1>5, <1>6, <1>10 DEF Flattens

(* Nothing, from nothing.                                                  *)
LEMMA FlattenEmpty == FlattenSeq(<<>>) = <<>>
BY DEF FlattenSeq

(* A sequence of sequences over a set becomes a sequence over it.          *)
LEMMA FlattenType ==
  ASSUME NEW S, NEW seqs \in Seq(Seq(S))
  PROVE  FlattenSeq(seqs) \in Seq(S)
<1>1. CASE Len(seqs) = 0
  <2>1. seqs = <<>>
    BY <1>1
  <2>2. <<>> \in Seq(S)
    OBVIOUS
  <2> QED BY <2>1, <2>2, FlattenEmpty
<1>2. CASE Len(seqs) # 0
  <2>1. Len(seqs) \in 1..Len(seqs)
    BY <1>2
  <2>2. PICK f : Flattens(f, seqs, S)
    BY <1>2, FlattenIs
  <2> QED BY <2>1, <2>2 DEF Flattens
<1> QED BY <1>1, <1>2

(* The pieces one by one, from the back ...                                *)
LEMMA FlattenAppend ==
  ASSUME NEW S, NEW seqs \in Seq(Seq(S)), NEW x \in Seq(S)
  PROVE  FlattenSeq(Append(seqs, x)) = FlattenSeq(seqs) \o x
<1>1. PICK more : more = Append(seqs, x)
  OBVIOUS
<1>2. /\ more \in Seq(Seq(S)) /\ Len(more) = Len(seqs) + 1 /\ Len(seqs) \in Nat
      /\ more[Len(seqs) + 1] = x /\ \A i \in 1..Len(seqs) : more[i] = seqs[i]
  BY <1>1
<1>3. PICK g : Flattens(g, more, S)
  <2>1. Len(more) # 0
    BY <1>2
  <2> QED BY <1>2, <2>1, FlattenIs
<1>4. CASE Len(seqs) = 0
  <2>1. seqs = <<>>
    BY <1>4
  <2>2. FlattenSeq(more) = x
    <3>1. Len(more) = 1 /\ more[1] = x
      BY <1>2, <1>4
    <3> QED BY <1>3, <3>1 DEF Flattens
  <2>3. <<>> \o x = x
    OBVIOUS
  <2> QED BY <1>1, <2>1, <2>2, <2>3, FlattenEmpty
<1>5. CASE Len(seqs) # 0
  <2>1. PICK f : Flattens(f, seqs, S)
    BY <1>5, FlattenIs
  <2>2. PICK last \in Nat : last + 1 = Len(seqs) /\ Len(more) = last + 2
    <3>1. Len(seqs) - 1 \in Nat /\ (Len(seqs) - 1) + 1 = Len(seqs)
          /\ Len(more) = (Len(seqs) - 1) + 2
      BY <1>2, <1>5
    <3> QED BY <3>1
  <2> DEFINE A == {n \in 0..last : f[n + 1] = g[n + 1]}
  <2>3. 0 \in A
    <3>1. 1 \in 1..Len(seqs) /\ 0 \in 0..last /\ 0 + 1 = 1
      BY <2>2
    <3>2. f[1] = g[1]
      BY <1>2, <1>3, <2>1, <3>1 DEF Flattens
    <3> QED BY <3>1, <3>2
  <2>4. ASSUME NEW n \in 0..last, n \in A, n < last PROVE n + 1 \in A
    <3>1. PICK i \in 2..(last + 1) : i = n + 2
      BY <2>4
    <3>2. i \in 2..Len(seqs) /\ i \in 2..Len(more) /\ i \in 1..Len(seqs)
          /\ i - 1 = n + 1 /\ i = (n + 1) + 1 /\ n + 1 \in 0..last
      BY <2>2, <2>4, <3>1
    <3>3. f[i] = f[i - 1] \o seqs[i] /\ g[i] = g[i - 1] \o more[i]
      BY <1>3, <2>1, <3>2 DEF Flattens
    <3>4. f[i - 1] = g[i - 1] /\ more[i] = seqs[i]
      BY <1>2, <2>4, <3>2
    <3>5. f[i] = g[i]
      BY <3>3, <3>4
    <3> QED BY <3>2, <3>5
  <2>5. f[Len(seqs)] = g[Len(seqs)]
    <3>1. \A n \in 0..last : n \in A
      <4> HIDE DEF A
      <4> QED BY <2>3, <2>4, ReachAll
    <3>2. last \in A
      BY <3>1
    <3> QED BY <2>2, <3>2
  <2>6. Len(more) \in 2..Len(more) /\ Len(more) - 1 = Len(seqs)
    BY <2>2
  <2>7. g[Len(more)] = g[Len(seqs)] \o more[Len(more)]
    BY <1>3, <2>6 DEF Flattens
  <2> QED BY <1>1, <1>2, <1>3, <2>1, <2>5, <2>7 DEF Flattens
<1> QED BY <1>4, <1>5

(* Concatenation does not depend on the order in which it is done.         *)
LEMMA ConcatAssoc ==
  ASSUME NEW S, NEW a \in Seq(S), NEW b \in Seq(S), NEW c \in Seq(S)
  PROVE  (a \o b) \o c = a \o (b \o c)
OBVIOUS

(* From the front: the first piece, then the rest.                         *)
LEMMA FlattenHead ==
  ASSUME NEW S, NEW seqs \in Seq(Seq(S)), Len(seqs) # 0
  PROVE  FlattenSeq(seqs) = seqs[1] \o FlattenSeq(Tail(seqs))
<1>1. \A a, b, c \in Seq(S) : (a \o b) \o c = a \o (b \o c)
  BY SMTT(30)
<1>2. PICK rest : rest = Tail(seqs)
  OBVIOUS
<1>3. PICK last \in Nat : last + 1 = Len(seqs)
  <2>1. Len(seqs) - 1 \in Nat
    OBVIOUS
  <2> QED BY <2>1
<1>4. /\ rest \in Seq(Seq(S)) /\ Len(rest) = last /\ seqs[1] \in Seq(S)
      /\ \A i \in 1..last : rest[i] = seqs[i + 1] /\ rest[i] \in Seq(S)
  BY <1>2, <1>3
<1>5. PICK g : Flattens(g, seqs, S)
  BY FlattenIs
<1>6. CASE last = 0
  <2>1. rest = <<>>
    BY <1>4, <1>6
  <2>2. FlattenSeq(seqs) = seqs[1]
    <3>1. Len(seqs) = 1
      BY <1>3, <1>6
    <3> QED BY <1>5, <3>1 DEF Flattens
  <2>3. seqs[1] \o <<>> = seqs[1]
    BY <1>4
  <2> QED BY <1>2, <2>1, <2>2, <2>3, FlattenEmpty
<1>7. CASE last # 0
  <2>1. PICK f : Flattens(f, rest, S)
    BY <1>4, <1>7, FlattenIs
  <2>2. PICK m \in Nat : m + 1 = last
    <3>1. last - 1 \in Nat
      BY <1>7
    <3> QED BY <3>1
  <2> DEFINE A == {n \in 0..m : g[n + 2] = seqs[1] \o f[n + 1]}
  <2>3. 0 \in A
    <3>1. 2 \in 2..Len(seqs) /\ 2 - 1 = 1 /\ 1 \in 1..last /\ 0 + 1 = 1 /\ 0 + 2 = 2 /\ 1 + 1 = 2
          /\ 0 \in 0..m
      BY <1>3, <2>2
    <3>2. g[2] = seqs[1] \o seqs[2] /\ f[1] = seqs[2]
      BY <1>4, <1>5, <2>1, <3>1, ZenonT(30) DEF Flattens
    <3> QED BY <3>1, <3>2
  <2>4. ASSUME NEW n \in 0..m, n \in A, n < m PROVE n + 1 \in A
    <3>1. PICK i \in 2..last : i = n + 2
      BY <2>2, <2>4
    <3>2. i + 1 \in 2..Len(seqs) /\ (i + 1) - 1 = i /\ i \in 2..Len(rest) /\ i - 1 = n + 1
          /\ i \in 1..last /\ i = (n + 1) + 1 /\ i + 1 = (n + 1) + 2 /\ n + 1 \in 0..m
          /\ i - 1 \in 1..Len(rest)
      BY <1>3, <1>4, <2>2, <2>4, <3>1
    <3>3. g[i + 1] = g[i] \o seqs[i + 1] /\ f[i] = f[i - 1] \o rest[i]
      BY <1>5, <2>1, <3>2 DEF Flattens
    <3>4. g[i] = seqs[1] \o f[i - 1] /\ rest[i] = seqs[i + 1]
      BY <1>4, <2>4, <3>1, <3>2
    <3>5. f[i - 1] \in Seq(S) /\ rest[i] \in Seq(S)
      BY <1>4, <2>1, <3>2 DEF Flattens
    <3>6. (seqs[1] \o f[i - 1]) \o rest[i] = seqs[1] \o (f[i - 1] \o rest[i])
      <4>1. seqs[1] \in Seq(S)
        BY <1>4
      <4> QED BY <1>1, <3>5, <4>1, Zenon
    <3>7. g[i + 1] = seqs[1] \o f[i]
      BY <3>3, <3>4, <3>6
    <3> QED BY <3>2, <3>7
  <2>5. \A n \in 0..m : n \in A
    <3> HIDE DEF A
    <3> QED BY <2>3, <2>4, ReachAll
  <2>6. m \in A /\ m + 2 = Len(seqs) /\ m + 1 = Len(rest)
    <3>1. m \in 0..m /\ m + 2 = Len(seqs) /\ m + 1 = Len(rest)
      BY <1>3, <1>4, <2>2
    <3> QED BY <2>5, <3>1
  <2>7. g[m + 2] = seqs[1] \o f[m + 1]
    BY <2>6
  <2> QED BY <1>2, <1>5, <2>1, <2>6, <2>7 DEF Flattens
<1> QED BY <1>6, <1>7

-----------------------------------------------------------------------------
(* The room the records of a list take, from the recursive function of     *)
(* Used.                                                                   *)
Summed(q, f, n) == IF n = 0 THEN 0 ELSE f[n - 1] + SizeOf(q[n].event)
Room(q) == (CHOOSE f : f = [n \in 0..Len(q) |-> Summed(q, f, n)])[Len(q)]

(* Used is the room of the ring.                                           *)
LEMMA UsedIsRoom == Used = Room(ring) /\ Used' = Room(ring')
BY DEF Used, Room, Summed

(* The recursive function of Used exists.                                  *)
LEMMA SummedExists ==
  ASSUME NEW q, Len(q) \in Nat
  PROVE  \E f : f = [n \in 0..Len(q) |-> Summed(q, f, n)]
<1> DEFINE A == {n \in 0..Len(q) : \E f : f = [i \in 0..n |-> Summed(q, f, i)]}
<1>1. 0 \in A
  <2> DEFINE g == [i \in 0..0 |-> 0]
  <2>1. g = [i \in 0..0 |-> Summed(q, g, i)]
    BY DEF Summed
  <2> QED BY <2>1
<1>2. ASSUME NEW n \in A, n < Len(q) PROVE n + 1 \in A
  <2>1. PICK f : f = [i \in 0..n |-> Summed(q, f, i)]
    OBVIOUS
  <2> DEFINE g == [i \in 0..(n + 1) |->
                     IF i = n + 1 THEN f[n] + SizeOf(q[n + 1].event) ELSE f[i]]
  <2>2. ASSUME NEW i \in 0..(n + 1) PROVE g[i] = Summed(q, g, i)
    <3>1. CASE i = n + 1
      BY <3>1 DEF Summed
    <3>2. CASE i \in 0..n
      <4>1. f[i] = Summed(q, f, i)
        BY <2>1, <3>2
      <4>2. i # 0 => i - 1 \in 0..n
        BY <3>2
      <4> QED BY <3>2, <4>1, <4>2 DEF Summed
    <3> QED BY <3>1, <3>2
  <2>3. g = [i \in 0..(n + 1) |-> Summed(q, g, i)]
    BY <2>2
  <2> QED BY <2>3
<1>3. Len(q) \in A
  <2> HIDE DEF A
  <2>1. A \in SUBSET (0..Len(q))
    BY DEF A
  <2> QED BY <1>1, <1>2, <2>1, Reach
<1> QED BY <1>3

Sums(f, q) ==
  /\ Room(q) = f[Len(q)] /\ f[0] = 0
  /\ \A n \in 1..Len(q) : f[n] = f[n - 1] + SizeOf(q[n].event)
  /\ \A n \in 0..Len(q) : f[n] \in Nat

Sized(q) == Len(q) \in Nat /\ \A n \in 1..Len(q) : SizeOf(q[n].event) \in Nat

(* What it computes, record after record.                                  *)
LEMMA RoomIs ==
  ASSUME NEW q, Sized(q)
  PROVE  \E f : Sums(f, q)
<1>1. PICK f : f = CHOOSE g : g = [n \in 0..Len(q) |-> Summed(q, g, n)]
  OBVIOUS
<1>2. Room(q) = f[Len(q)]
  BY <1>1 DEF Room
<1>3. Len(q) \in Nat
  BY DEF Sized
<1>4. f = [n \in 0..Len(q) |-> Summed(q, f, n)]
  BY <1>1, <1>3, SummedExists
<1>5. f[0] = 0
  BY <1>3, <1>4 DEF Summed
<1>6. ASSUME NEW n \in 1..Len(q) PROVE f[n] = f[n - 1] + SizeOf(q[n].event)
  <2>1. n \in 0..Len(q) /\ n # 0
    BY <1>3
  <2>2. f[n] = Summed(q, f, n)
    BY <1>4, <2>1
  <2> QED BY <2>1, <2>2 DEF Summed
<1> DEFINE A == {n \in 0..Len(q) : f[n] \in Nat}
<1>7. 0 \in A
  BY <1>3, <1>5
<1>8. ASSUME NEW n \in 0..Len(q), n \in A, n < Len(q) PROVE n + 1 \in A
  <2>1. PICK m \in 1..Len(q) : m = n + 1 /\ m - 1 = n /\ m \in 0..Len(q)
    BY <1>3, <1>8
  <2>2. f[m] = f[n] + SizeOf(q[m].event)
    BY <1>6, <2>1
  <2>3. f[n] \in Nat /\ SizeOf(q[m].event) \in Nat
    BY <1>8 DEF Sized
  <2>4. f[m] \in Nat
    BY <2>2, <2>3
  <2> QED BY <2>1, <2>4
<1>9. \A n \in 0..Len(q) : n \in A
  <2> HIDE DEF A
  <2> QED BY <1>3, <1>7, <1>8, ReachAll
<1> QED BY <1>2, <1>5, <1>6, <1>9 DEF Sums

(* Two lists with the same events up to some place.                        *)
LEMMA SameSums ==
  ASSUME NEW q, NEW p, NEW f, NEW g, Sums(f, q), Sums(g, p), NEW k \in Nat,
         Len(q) \in Nat, Len(p) \in Nat, k <= Len(q), k <= Len(p),
         \A n \in 1..k : q[n].event = p[n].event
  PROVE  f[k] = g[k]
<1> DEFINE A == {n \in 0..k : f[n] = g[n]}
<1>1. 0 \in A
  BY DEF Sums
<1>2. ASSUME NEW n \in 0..k, n \in A, n < k PROVE n + 1 \in A
  <2>1. PICK m \in 1..k : m = n + 1 /\ m - 1 = n /\ m \in 1..Len(q) /\ m \in 1..Len(p)
          /\ m \in 0..k
    BY <1>2
  <2>2. f[m] = f[n] + SizeOf(q[m].event) /\ g[m] = g[n] + SizeOf(p[m].event)
    BY <2>1 DEF Sums
  <2>3. f[m] = g[m]
    BY <1>2, <2>1, <2>2
  <2> QED BY <2>1, <2>3
<1>3. \A n \in 0..k : n \in A
  <2> HIDE DEF A
  <2> QED BY <1>1, <1>2, ReachAll
<1> QED BY <1>3

(* Lists with the same events take the same room.                          *)
LEMMA RoomSame ==
  ASSUME NEW q, NEW p, Sized(q), Sized(p), Len(q) = Len(p),
         \A n \in 1..Len(q) : q[n].event = p[n].event
  PROVE  Room(q) = Room(p)
<1>1. PICK f : Sums(f, q)
  BY RoomIs
<1>2. PICK g : Sums(g, p)
  BY RoomIs
<1>3. Len(q) \in Nat
  BY DEF Sized
<1>4. f[Len(q)] = g[Len(q)]
  BY <1>1, <1>2, <1>3, SameSums
<1> QED BY <1>1, <1>2, <1>4 DEF Sums

(* A record that is added ...                                              *)
LEMMA RoomAppend ==
  ASSUME NEW q, NEW p, Sized(q), Sized(p), Len(p) = Len(q) + 1,
         \A n \in 1..Len(q) : q[n].event = p[n].event
  PROVE  Room(p) = Room(q) + SizeOf(p[Len(p)].event)
<1>1. PICK f : Sums(f, q)
  BY RoomIs
<1>2. PICK g : Sums(g, p)
  BY RoomIs
<1>3. Len(q) \in Nat /\ Len(p) \in 1..Len(p) /\ Len(p) - 1 = Len(q) /\ Len(q) <= Len(p)
  BY DEF Sized
<1>4. f[Len(q)] = g[Len(q)]
  BY <1>1, <1>2, <1>3, SameSums
<1> QED BY <1>1, <1>2, <1>3, <1>4 DEF Sums

(* ... and one that goes.                                                  *)
LEMMA RoomTail ==
  ASSUME NEW q, NEW p, Sized(q), Sized(p), Len(q) = Len(p) + 1,
         \A n \in 1..Len(p) : p[n].event = q[n + 1].event
  PROVE  Room(p) \in Nat /\ Room(q) \in Nat /\ Room(p) <= Room(q)
<1>1. PICK f : Sums(f, q)
  BY RoomIs
<1>2. PICK g : Sums(g, p)
  BY RoomIs
<1>3. Len(p) \in Nat /\ Len(q) \in Nat
  BY DEF Sized
<1> DEFINE A == {n \in 0..Len(p) : g[n] <= f[n + 1]}
<1>4. 0 \in A
  <2>1. 1 \in 0..Len(q) /\ 0 + 1 = 1 /\ 0 \in 0..Len(p)
    BY <1>3
  <2>2. g[0] = 0 /\ f[1] \in Nat
    BY <1>1, <1>2, <2>1 DEF Sums
  <2> QED BY <2>1, <2>2
<1>5. ASSUME NEW n \in 0..Len(p), n \in A, n < Len(p) PROVE n + 1 \in A
  <2>1. PICK m \in 1..Len(p) :
          /\ m = n + 1 /\ m - 1 = n /\ m \in 0..Len(p) /\ m + 1 \in 1..Len(q) /\ (m + 1) - 1 = n + 1
          /\ n + 1 \in 0..Len(q)
    BY <1>3, <1>5
  <2>2. g[m] = g[n] + SizeOf(p[m].event) /\ f[m + 1] = f[n + 1] + SizeOf(q[m + 1].event)
    BY <1>1, <1>2, <2>1 DEF Sums
  <2>3. g[n] \in Nat /\ f[n + 1] \in Nat /\ SizeOf(p[m].event) \in Nat
        /\ p[m].event = q[m + 1].event
    BY <1>1, <1>2, <2>1 DEF Sums, Sized
  <2>4. g[n] <= f[n + 1]
    BY <1>5
  <2>5. g[m] <= f[m + 1]
    BY <2>2, <2>3, <2>4
  <2> QED BY <2>1, <2>5
<1>6. \A n \in 0..Len(p) : n \in A
  <2> HIDE DEF A
  <2> QED BY <1>3, <1>4, <1>5, ReachAll
<1>7. Len(p) \in 0..Len(p) /\ Len(q) \in 0..Len(q)
  BY <1>3
<1>8. g[Len(p)] <= f[Len(q)]
  BY <1>6, <1>7
<1> QED BY <1>1, <1>2, <1>7, <1>8 DEF Sums

-----------------------------------------------------------------------------
(* The records and the lines.                                              *)
RecordSet == [id : Nat, event : Events, ready : BOOLEAN]

LineRec(n, e) ==
  [id |-> n, text |-> Formatted[e].buf, event |-> e, zero |-> Formatted[e].pos,
   past |-> Formatted[e].spec]

LineSet == {LineRec(n, e) : n \in Nat, e \in Events}

(* What a line says of the message it comes from.                          *)
LEMMA LineFacts ==
  ASSUME NEW l \in LineSet
  PROVE  l.id \in Nat /\ l.event \in Events /\ l.text = Formatted[l.event].buf
         /\ l.zero = Formatted[l.event].pos /\ l.past = Formatted[l.event].spec
BY DEF LineSet, LineRec

(* What Once and Pending are made of.                                      *)
NewTo(r, lines) ==
  r.event.level >= Level /\ \A l \in {lines[i] : i \in DOMAIN lines} : l.id # r.id

PendingPiece(r, lines) == IF NewTo(r, lines) THEN <<r.id>> ELSE <<>>
PendingOf(records, lines) == [n \in DOMAIN records |-> PendingPiece(records[n], lines)]

Again(lines, ids, i) == i > 1 /\ lines[i - 1].id = lines[i].id /\ lines[i].id \in ids
OncePiece(lines, ids, i) == IF Again(lines, ids, i) THEN <<>> ELSE <<lines[i].id>>
OnceOf(lines, ids) == [i \in DOMAIN lines |-> OncePiece(lines, ids, i)]

(* Once and Pending, made of these pieces.                                 *)
LEMMA OrderIs ==
  /\ Pending = FlattenSeq(PendingOf(ring, logged))
  /\ Pending' = FlattenSeq(PendingOf(ring', logged'))
  /\ Once = FlattenSeq(OnceOf(logged, twice))
  /\ Once' = FlattenSeq(OnceOf(logged', twice'))
<1>1. Pending = FlattenSeq(PendingOf(ring, logged))
  BY DEF Pending, PendingOf, PendingPiece, NewTo, Lines
<1>2. Pending' = FlattenSeq(PendingOf(ring', logged'))
  BY DEF Pending, PendingOf, PendingPiece, NewTo, Lines
<1>3. Once = FlattenSeq(OnceOf(logged, twice))
  BY DEF Once, OnceOf, OncePiece, Again
<1>4. Once' = FlattenSeq(OnceOf(logged', twice'))
  BY DEF Once, OnceOf, OncePiece, Again
<1> QED BY <1>1, <1>2, <1>3, <1>4

(* Sequences of the same length with the same elements are the same.       *)
LEMMA SeqEqual ==
  ASSUME NEW S, NEW a \in Seq(S), NEW b \in Seq(S), Len(a) = Len(b),
         \A i \in 1..Len(a) : a[i] = b[i]
  PROVE  a = b
OBVIOUS

(* The pieces of Pending are sequences of identifiers, one for each        *)
(* record.                                                                 *)
LEMMA PendingType ==
  ASSUME NEW records \in Seq(RecordSet), NEW lines
  PROVE  /\ PendingOf(records, lines) \in Seq(Seq(Nat))
         /\ Len(PendingOf(records, lines)) = Len(records)
         /\ \A n \in 1..Len(records) :
              PendingOf(records, lines)[n] = PendingPiece(records[n], lines)
<1>1. ASSUME NEW n \in 1..Len(records) PROVE PendingPiece(records[n], lines) \in Seq(Nat)
  <2>1. records[n] \in RecordSet
    OBVIOUS
  <2>2. records[n].id \in Nat
    BY <2>1 DEF RecordSet
  <2>3. PICK k \in Nat : k = records[n].id
    BY <2>2
  <2>4. <<k>> \in Seq(Nat) /\ <<>> \in Seq(Nat)
    OBVIOUS
  <2> QED BY <2>3, <2>4 DEF PendingPiece
<1>2. PendingOf(records, lines) = [n \in 1..Len(records) |-> PendingPiece(records[n], lines)]
  BY DEF PendingOf
<1>3. Len(records) \in Nat
  OBVIOUS
<1> QED BY <1>1, <1>2, <1>3

(* The pieces of Once are sequences of identifiers, one for each line.     *)
LEMMA OnceType ==
  ASSUME NEW lines \in Seq(LineSet), NEW ids
  PROVE  /\ OnceOf(lines, ids) \in Seq(Seq(Nat))
         /\ Len(OnceOf(lines, ids)) = Len(lines)
         /\ \A i \in 1..Len(lines) : OnceOf(lines, ids)[i] = OncePiece(lines, ids, i)
<1>1. \A n \in 1..Len(lines) : OncePiece(lines, ids, n) \in Seq(Nat)
  <2>1. \A n \in 1..Len(lines) : lines[n].id \in Nat
    BY LineFacts
  <2> QED BY <2>1 DEF OncePiece
<1>2. OnceOf(lines, ids) = [n \in 1..Len(lines) |-> OncePiece(lines, ids, n)]
  BY DEF OnceOf
<1>3. Len(lines) \in Nat
  OBVIOUS
<1> QED BY <1>1, <1>2, <1>3

(* A record more: its piece comes last.                                    *)
LEMMA PendingAppend ==
  ASSUME NEW records \in Seq(RecordSet), NEW r \in RecordSet, NEW lines
  PROVE  FlattenSeq(PendingOf(Append(records, r), lines))
           = FlattenSeq(PendingOf(records, lines)) \o PendingPiece(r, lines)
<1>1. PICK more : more = Append(records, r)
  OBVIOUS
<1>2. /\ more \in Seq(RecordSet) /\ Len(more) = Len(records) + 1 /\ Len(records) \in Nat
      /\ more[Len(records) + 1] = r /\ \A n \in 1..Len(records) : more[n] = records[n]
  BY <1>1
<1>3. PICK p : p = PendingOf(records, lines)
  OBVIOUS
<1>4. p \in Seq(Seq(Nat)) /\ Len(p) = Len(records)
      /\ \A n \in 1..Len(records) : p[n] = PendingPiece(records[n], lines)
  BY <1>3, PendingType
<1>5. PICK q : q = PendingOf(more, lines)
  OBVIOUS
<1>6. q \in Seq(Seq(Nat)) /\ Len(q) = Len(records) + 1
      /\ \A n \in 1..(Len(records) + 1) : q[n] = PendingPiece(more[n], lines)
  BY <1>2, <1>5, PendingType
<1>7. Len(records) + 1 \in 1..(Len(records) + 1)
  BY <1>2
<1>8. PICK x \in Seq(Nat) : x = PendingPiece(r, lines) /\ x = q[Len(records) + 1]
  BY <1>2, <1>6, <1>7
<1>9. q = Append(p, x)
  <2>1. PICK s : s = Append(p, x)
    OBVIOUS
  <2>2. s \in Seq(Seq(Nat)) /\ Len(s) = Len(records) + 1 /\ s[Len(records) + 1] = x
        /\ \A n \in 1..Len(records) : s[n] = p[n]
    BY <1>4, <2>1
  <2>3. ASSUME NEW n \in 1..(Len(records) + 1) PROVE q[n] = s[n]
    <3>1. CASE n \in 1..Len(records)
      BY <1>2, <1>4, <1>6, <2>2, <3>1
    <3>2. CASE n = Len(records) + 1
      BY <1>8, <2>2, <3>2
    <3> QED BY <1>2, <3>1, <3>2
  <2>4. q = s
    BY <1>6, <2>2, <2>3, SeqEqual
  <2> QED BY <2>1, <2>4
<1>10. FlattenSeq(Append(p, x)) = FlattenSeq(p) \o x
  BY <1>4, FlattenAppend
<1> QED BY <1>1, <1>3, <1>5, <1>8, <1>9, <1>10

(* A line more: its piece comes last.                                      *)
LEMMA OnceAppend ==
  ASSUME NEW lines \in Seq(LineSet), NEW l \in LineSet, NEW ids,
         NEW more, more = Append(lines, l)
  PROVE  FlattenSeq(OnceOf(more, ids))
           = FlattenSeq(OnceOf(lines, ids)) \o OncePiece(more, ids, Len(lines) + 1)
<1>2. /\ more \in Seq(LineSet) /\ Len(more) = Len(lines) + 1 /\ Len(lines) \in Nat
      /\ more[Len(lines) + 1] = l /\ \A n \in 1..Len(lines) : more[n] = lines[n]
  OBVIOUS
<1>3. PICK p : p = OnceOf(lines, ids)
  OBVIOUS
<1>4. p \in Seq(Seq(Nat)) /\ Len(p) = Len(lines)
      /\ \A n \in 1..Len(lines) : p[n] = OncePiece(lines, ids, n)
  BY <1>3, OnceType
<1>5. PICK q : q = OnceOf(more, ids)
  OBVIOUS
<1>6. q \in Seq(Seq(Nat)) /\ Len(q) = Len(lines) + 1
      /\ \A n \in 1..(Len(lines) + 1) : q[n] = OncePiece(more, ids, n)
  BY <1>2, <1>5, OnceType
<1>7. Len(lines) + 1 \in 1..(Len(lines) + 1)
  BY <1>2
<1>8. PICK x \in Seq(Nat) : x = OncePiece(more, ids, Len(lines) + 1) /\ x = q[Len(lines) + 1]
  BY <1>6, <1>7
<1>9. \A n \in 1..Len(lines) : OncePiece(more, ids, n) = OncePiece(lines, ids, n)
  <2>1. \A n \in 1..Len(lines) : n > 1 => n - 1 \in 1..Len(lines)
    BY <1>2
  <2> QED BY <1>2, <2>1 DEF OncePiece, Again
<1>10. q = Append(p, x)
  <2>1. PICK s : s = Append(p, x)
    OBVIOUS
  <2>2. s \in Seq(Seq(Nat)) /\ Len(s) = Len(lines) + 1 /\ s[Len(lines) + 1] = x
        /\ \A n \in 1..Len(lines) : s[n] = p[n]
    BY <1>4, <2>1
  <2>3. ASSUME NEW n \in 1..(Len(lines) + 1) PROVE q[n] = s[n]
    <3>1. CASE n \in 1..Len(lines)
      BY <1>4, <1>6, <1>9, <2>2, <3>1
    <3>2. CASE n = Len(lines) + 1
      BY <1>8, <2>2, <3>2
    <3> QED BY <1>2, <3>1, <3>2
  <2>4. q = s
    BY <1>6, <2>2, <2>3, SeqEqual
  <2> QED BY <2>1, <2>4
<1>11. FlattenSeq(Append(p, x)) = FlattenSeq(p) \o x
  BY <1>4, FlattenAppend
<1> QED BY <1>3, <1>5, <1>8, <1>10, <1>11

(* The piece of the first record comes first.                              *)
LEMMA PendingTail ==
  ASSUME NEW records \in Seq(RecordSet), Len(records) # 0, NEW lines
  PROVE  FlattenSeq(PendingOf(records, lines))
           = PendingPiece(records[1], lines) \o FlattenSeq(PendingOf(Tail(records), lines))
<1>1. PICK rest : rest = Tail(records)
  OBVIOUS
<1>2. /\ rest \in Seq(RecordSet) /\ Len(rest) = Len(records) - 1 /\ Len(records) \in Nat
      /\ \A n \in 1..Len(rest) : rest[n] = records[n + 1] /\ n + 1 \in 1..Len(records)
      /\ 1 \in 1..Len(records)
  BY <1>1
<1>3. PICK p : p = PendingOf(records, lines)
  OBVIOUS
<1>4. p \in Seq(Seq(Nat)) /\ Len(p) = Len(records)
      /\ \A n \in 1..Len(records) : p[n] = PendingPiece(records[n], lines)
  BY <1>3, PendingType
<1>5. FlattenSeq(p) = p[1] \o FlattenSeq(Tail(p))
  BY <1>4, FlattenHead
<1>6. PICK q : q = PendingOf(rest, lines)
  OBVIOUS
<1>7. q \in Seq(Seq(Nat)) /\ Len(q) = Len(rest)
      /\ \A n \in 1..Len(rest) : q[n] = PendingPiece(rest[n], lines)
  BY <1>2, <1>6, PendingType
<1>8. q = Tail(p)
  <2>1. PICK s : s = Tail(p)
    OBVIOUS
  <2>2. s \in Seq(Seq(Nat)) /\ Len(s) = Len(rest) /\ \A n \in 1..Len(rest) : s[n] = p[n + 1]
    BY <1>2, <1>4, <2>1
  <2>3. \A n \in 1..Len(rest) : q[n] = s[n]
    BY <1>2, <1>4, <1>7, <2>2
  <2>4. q = s
    BY <1>7, <2>2, <2>3, SeqEqual
  <2> QED BY <2>1, <2>4
<1>9. p[1] = PendingPiece(records[1], lines)
  BY <1>2, <1>4
<1> QED BY <1>1, <1>3, <1>5, <1>6, <1>8, <1>9

(* Two lists of records with the same identifiers, and the same news.      *)
LEMMA PendingSame ==
  ASSUME NEW records \in Seq(RecordSet), NEW others \in Seq(RecordSet), NEW lines, NEW more,
         Len(records) = Len(others),
         \A n \in 1..Len(records) :
           PendingPiece(records[n], lines) = PendingPiece(others[n], more)
  PROVE  PendingOf(records, lines) = PendingOf(others, more)
<1>1. PendingOf(records, lines) = [n \in 1..Len(records) |-> PendingPiece(records[n], lines)]
  BY DEF PendingOf
<1>2. PendingOf(others, more) = [n \in 1..Len(records) |-> PendingPiece(others[n], more)]
  BY DEF PendingOf
<1> QED BY <1>1, <1>2

-----------------------------------------------------------------------------
(* The invariant.  Records have identifiers of their own, smaller than the *)
(* next; a record that is not submitted has one writer.                    *)
RingTypes ==
  /\ ring \in Seq(RecordSet) /\ logged \in Seq(LineSet) /\ wanted \in Seq(Nat)
  /\ nextId \in 1..(MaxEvents + 1)

RingIds ==
  /\ \A i \in 1..Len(ring) : ring[i].id \in 1..(nextId - 1)
  /\ \A i, j \in 1..Len(ring) : ring[i].id = ring[j].id => i = j
  /\ \A i \in 1..Len(logged) : logged[i].id < nextId

WriterInv ==
  /\ writing \in [Cpus -> Nat \cup {NoRecord}]
  /\ \A c \in Cpus : writing[c] # NoRecord => writing[c] < nextId
  /\ \A c, d \in Cpus : writing[c] # NoRecord /\ writing[c] = writing[d] => c = d
  /\ \A i \in 1..Len(ring) : ~ring[i].ready => \E c \in Cpus : writing[c] = ring[i].id

ReaderInv ==
  /\ io \in {"down", "posted", "wait", "consume", "advance", "ended", "dead"}
  /\ alive => io \in {"posted", "wait", "consume", "advance"}
  /\ io = "advance" /\ alive => Len(ring) # 0 /\ ring[1].ready
  /\ twice \subseteq 1..MaxEvents

(* A record in the ring that has a line is the first, its line is the      *)
(* last, and either the position has not moved on yet or a process died    *)
(* there.  Two lines of one record come from such a death.                 *)
LogInv ==
  /\ \A i \in 1..Len(logged), j \in 1..Len(ring) :
       logged[i].id = ring[j].id =>
         /\ j = 1 /\ logged[Len(logged)].id = ring[1].id
         /\ io \in {"advance", "ended", "dead"} \/ ring[1].id \in twice
  /\ \A i \in 2..Len(logged) : logged[i - 1].id = logged[i].id => logged[i].id \in twice
  /\ io = "advance" /\ alive =>
       \/ ring[1].event.level < Level
       \/ Len(logged) # 0 /\ logged[Len(logged)].id = ring[1].id

SpaceInv == Room(ring) \in Nat /\ Room(ring) < RingSize

OrderInv ==
  FlattenSeq(OnceOf(logged, twice)) \o FlattenSeq(PendingOf(ring, logged)) = wanted

RingInv ==
  /\ RingTypes /\ RingIds /\ WriterInv /\ ReaderInv /\ LogInv /\ SpaceInv /\ OrderInv

(* The size of a record.                                                   *)
LEMMA SizeNat ==
  ASSUME NEW e \in Events
  PROVE  SizeOf(e) \in Nat /\ ~(SizeOf(e) < Header) /\ e.level \in Int /\ Level \in Int
BY KlogAssumption DEF SizeOf

(* The records of the ring have sizes.                                     *)
LEMMA RingSized ==
  ASSUME NEW q \in Seq(RecordSet)
  PROVE  Sized(q)
<1>1. Len(q) \in Nat
  OBVIOUS
<1>2. ASSUME NEW n \in 1..Len(q) PROVE SizeOf(q[n].event) \in Nat
  <2>1. q[n] \in RecordSet
    OBVIOUS
  <2>2. q[n].event \in Events
    BY <2>1 DEF RecordSet
  <2> QED BY <2>2, SizeNat
<1> QED BY <1>1, <1>2 DEF Sized

(* No record, no line.                                                     *)
LEMMA RingInit == KlogInit => RingInv
<1> SUFFICES ASSUME KlogInit PROVE RingInv
  OBVIOUS
<1>1. ring = <<>> /\ logged = <<>> /\ wanted = <<>> /\ nextId = 1
      /\ Len(ring) = 0 /\ Len(logged) = 0
  BY DEF KlogInit
<1>2. RingTypes /\ RingIds
  BY <1>1, KlogAssumption DEF RingTypes, RingIds
<1>3. WriterInv
  BY <1>1, KlogAssumption DEF WriterInv, KlogInit
<1>4. ReaderInv
  BY DEF ReaderInv, KlogInit
<1>5. LogInv
  BY <1>1 DEF LogInv, KlogInit
<1>6. SpaceInv
  <2>1. ring \in Seq(RecordSet)
    BY <1>2 DEF RingTypes
  <2>2. PICK f : Sums(f, ring)
    BY <2>1, RingSized, RoomIs
  <2>3. Room(ring) = 0
    BY <1>1, <2>2 DEF Sums
  <2> QED BY <2>3, KlogAssumption DEF SpaceInv
<1>7. OrderInv
  <2>1. OnceOf(logged, twice) = <<>> /\ PendingOf(ring, logged) = <<>>
    BY <1>1 DEF OnceOf, PendingOf
  <2>2. <<>> \o <<>> = <<>>
    OBVIOUS
  <2> QED BY <1>1, <2>1, <2>2, FlattenEmpty DEF OrderInv
<1> QED BY <1>2, <1>3, <1>4, <1>5, <1>6, <1>7 DEF RingInv

(* A step that is the reader's alone: the ring and the lines stay.         *)
Same == UNCHANGED <<ring, writing, nextId, wanted, logged, twice>>

(* Such a step keeps what is not about the reader.                         *)
LEMMA SameStep ==
  ASSUME RingInv, Same, ReaderInv', LogInv'
  PROVE  RingInv'
<1>1. RingTypes' /\ RingIds' /\ WriterInv'
  BY DEF RingInv, Same, RingTypes, RingIds, WriterInv
<1>2. SpaceInv' /\ OrderInv'
  BY DEF RingInv, Same, SpaceInv, OrderInv
<1> QED BY <1>1, <1>2 DEF RingInv

(* The steps of the reader that log nothing and let nothing go.            *)
LEMMA ReaderSteps ==
  ASSUME RingInv, Construct \/ StartWait \/ Readable \/ ConsumeEnd \/ Destroy \/ HandlerDangles
  PROVE  RingInv'
<1>1. Same
  BY DEF Same, Construct, StartWait, Readable, ConsumeEnd, Destroy, HandlerDangles
<1>2. ReaderInv /\ LogInv
  BY DEF RingInv
<1>3. ReaderInv'
  <2>1. CASE Construct \/ StartWait \/ Readable \/ ConsumeEnd
    BY <1>1, <1>2, <2>1 DEF Same, ReaderInv, Construct, StartWait, Readable, ConsumeEnd
  <2>2. CASE Destroy \/ HandlerDangles
    BY <1>1, <1>2, <2>2 DEF Same, ReaderInv, Destroy, HandlerDangles
  <2> QED BY <2>1, <2>2
<1>4. /\ io \in {"advance", "ended", "dead"} => io' \in {"advance", "ended", "dead"}
      /\ io' = "advance" /\ alive' => io = "advance" /\ alive
  BY <1>2 DEF ReaderInv, Construct, StartWait, Readable, ConsumeEnd, Destroy, HandlerDangles
<1>5. LogInv'
  BY <1>1, <1>2, <1>4 DEF Same, LogInv
<1> QED BY <1>1, <1>3, <1>5, SameStep

(* A record is new if it is to be logged and no line is its own.           *)
LEMMA NewMeans ==
  ASSUME NEW r, NEW lines \in Seq(LineSet)
  PROVE  NewTo(r, lines) <=> r.event.level >= Level /\ \A i \in 1..Len(lines) : lines[i].id # r.id
<1>1. DOMAIN lines = 1..Len(lines)
  OBVIOUS
<1> QED BY <1>1 DEF NewTo

(* The lists of numbers that OrderInv compares.                            *)
LEMMA OrderTypes ==
  ASSUME NEW records \in Seq(RecordSet), NEW lines \in Seq(LineSet), NEW ids
  PROVE  /\ FlattenSeq(OnceOf(lines, ids)) \in Seq(Nat)
         /\ FlattenSeq(PendingOf(records, lines)) \in Seq(Nat)
<1>1. PICK o : o = OnceOf(lines, ids)
  OBVIOUS
<1>2. PICK p : p = PendingOf(records, lines)
  OBVIOUS
<1>3. o \in Seq(Seq(Nat)) /\ p \in Seq(Seq(Nat))
  BY <1>1, <1>2, OnceType, PendingType
<1>4. FlattenSeq(o) \in Seq(Nat) /\ FlattenSeq(p) \in Seq(Nat)
  BY <1>3, FlattenType
<1> QED BY <1>1, <1>2, <1>4

(* A record that finds room is the last and has no line yet.               *)
LEMMA ReserveStep ==
  ASSUME RingInv, NEW c \in Cpus, NEW e \in Events, Reserve(c, e)
  PROVE  RingInv'
<1>1. /\ ring \in Seq(RecordSet) /\ logged \in Seq(LineSet) /\ wanted \in Seq(Nat)
      /\ nextId \in Nat \ {0} /\ nextId <= MaxEvents /\ nextId' = nextId + 1
      /\ nextId' \in 1..(MaxEvents + 1) /\ Len(ring) \in Nat /\ Len(logged) \in Nat
      /\ logged' = logged /\ io' = io /\ twice' = twice /\ (alive' <=> alive)
      /\ writing[c] = NoRecord
  <2>1. /\ ring \in Seq(RecordSet) /\ logged \in Seq(LineSet) /\ wanted \in Seq(Nat)
        /\ nextId \in Nat \ {0}
    BY KlogAssumption DEF RingInv, RingTypes
  <2>2. /\ nextId <= MaxEvents /\ nextId' = nextId + 1 /\ writing[c] = NoRecord
        /\ logged' = logged /\ io' = io /\ twice' = twice /\ (alive' <=> alive)
    BY DEF Reserve
  <2>3. nextId' \in 1..(MaxEvents + 1)
    BY <2>1, <2>2, KlogAssumption
  <2>4. Len(ring) \in Nat /\ Len(logged) \in Nat
    BY <2>1
  <2> QED BY <2>1, <2>2, <2>3, <2>4
<1>2. CASE ~(Used + SizeOf(e) < RingSize)
  <2>1. UNCHANGED <<ring, writing, wanted>>
    BY <1>2 DEF Reserve
  <2>2. RingTypes' /\ RingIds'
    <3>1. \A i \in 1..Len(logged) : logged[i].id \in Nat /\ logged[i].id < nextId
      BY <1>1, LineFacts DEF RingInv, RingIds
    <3>2. \A i \in 1..Len(logged) : logged[i].id < nextId + 1
      BY <1>1, <3>1
    <3>3. \A k \in 1..(nextId - 1) : k \in 1..((nextId + 1) - 1)
      BY <1>1
    <3>4. RingTypes'
      BY <1>1, <2>1 DEF RingTypes
    <3>5. \A i \in 1..Len(ring) : ring[i].id \in 1..((nextId + 1) - 1)
      BY <3>3 DEF RingInv, RingIds
    <3>6. RingIds'
      BY <1>1, <2>1, <3>2, <3>5 DEF RingInv, RingIds
    <3> QED BY <3>4, <3>6
  <2>3. WriterInv'
    <3>1. \A d \in Cpus : writing[d] \in Nat /\ writing[d] < nextId => writing[d] < nextId + 1
      BY <1>1
    <3> QED BY <1>1, <2>1, <3>1 DEF RingInv, WriterInv
  <2>4. ReaderInv'
    BY <1>1, <2>1 DEF RingInv, ReaderInv
  <2>5. LogInv'
    BY <1>1, <2>1 DEF RingInv, LogInv
  <2>6. SpaceInv' /\ OrderInv'
    BY <1>1, <2>1 DEF RingInv, SpaceInv, OrderInv
  <2> QED BY <2>2, <2>3, <2>4, <2>5, <2>6 DEF RingInv
<1>3. CASE Used + SizeOf(e) < RingSize
  <2> DEFINE last == Len(ring) + 1
  <2>1. PICK r \in RecordSet : r = [id |-> nextId, event |-> e, ready |-> FALSE]
    BY <1>1 DEF RecordSet
  <2>2. /\ r.id = nextId /\ r.event = e /\ r.ready = FALSE
        /\ ring' = Append(ring, r) /\ writing' = [writing EXCEPT ![c] = nextId]
        /\ wanted' = IF e.level < Level THEN wanted ELSE Append(wanted, nextId)
    BY <1>3, <2>1 DEF Reserve
  <2>3. /\ ring' \in Seq(RecordSet) /\ Len(ring') = last /\ ring'[last] = r
        /\ \A i \in 1..Len(ring) : ring'[i] = ring[i]
        /\ \A i \in 1..last : i \in 1..Len(ring) \/ i = last
        /\ last \in 1..last /\ (Len(ring) # 0 => 1 \in 1..Len(ring))
    BY <1>1, <2>2
  <2>4. RingTypes'
    BY <1>1, <2>2, <2>3 DEF RingTypes
  <2>5. RingIds'
    <3>1. \A i \in 1..Len(ring) : ring'[i].id \in 1..(nextId - 1) /\ ring'[i].id \in 1..nextId
                                  /\ ring'[i].id # nextId
      <4>1. \A k \in 1..(nextId - 1) : k \in 1..nextId /\ k # nextId
        BY <1>1
      <4>2. \A i \in 1..Len(ring) : ring[i].id \in 1..(nextId - 1)
        BY DEF RingInv, RingIds
      <4> QED BY <2>3, <4>1, <4>2
    <3>2. ring'[last].id = nextId /\ nextId \in 1..nextId /\ nextId' - 1 = nextId
      BY <1>1, <2>2, <2>3
    <3>3. \A i \in 1..last : ring'[i].id \in 1..(nextId' - 1)
      BY <2>3, <3>1, <3>2
    <3>4. \A i, j \in 1..last : ring'[i].id = ring'[j].id => i = j
      <4>1. \A i, j \in 1..Len(ring) : ring'[i].id = ring'[j].id => i = j
        BY <2>3 DEF RingInv, RingIds
      <4> QED BY <2>3, <3>1, <3>2, <4>1
    <3>5. \A i \in 1..Len(logged) : logged[i].id < nextId + 1
      <4>1. \A i \in 1..Len(logged) : logged[i].id \in Nat
        BY <1>1, LineFacts
      <4> QED BY <1>1, <4>1 DEF RingInv, RingIds
    <3> QED BY <1>1, <2>3, <3>3, <3>4, <3>5 DEF RingIds
  <2>6. WriterInv'
    <3>1. /\ writing \in [Cpus -> Nat \cup {NoRecord}]
          /\ \A d \in Cpus : writing[d] # NoRecord => writing[d] < nextId
          /\ \A a, b \in Cpus : writing[a] # NoRecord /\ writing[a] = writing[b] => a = b
          /\ \A i \in 1..Len(ring) : ~ring[i].ready => \E d \in Cpus : writing[d] = ring[i].id
      BY DEF RingInv, WriterInv
    <3>2. writing' \in [Cpus -> Nat \cup {NoRecord}] /\ writing'[c] = nextId
          /\ \A d \in Cpus : d # c => writing'[d] = writing[d]
      BY <1>1, <2>2, <3>1
    <3>3. \A d \in Cpus : writing[d] # NoRecord => writing[d] # nextId /\ writing[d] < nextId + 1
      BY <1>1, <3>1
    <3>4. \A d \in Cpus : writing'[d] # NoRecord => writing'[d] < nextId'
      BY <1>1, <3>2, <3>3
    <3>5. nextId # NoRecord
      BY <1>1, KlogAssumption
    <3>6. \A a, b \in Cpus : writing'[a] # NoRecord /\ writing'[a] = writing'[b] => a = b
      BY <3>1, <3>2, <3>3, <3>5
    <3>7. ASSUME NEW i \in 1..last, ~ring'[i].ready PROVE \E d \in Cpus : writing'[d] = ring'[i].id
      <4>1. CASE i = last
        BY <2>2, <2>3, <3>2, <4>1
      <4>2. CASE i \in 1..Len(ring)
        <5>1. PICK d \in Cpus : writing[d] = ring[i].id
          BY <2>3, <3>1, <3>7, <4>2
        <5>2. ring[i].id \in Nat
          <6>1. ring[i] \in RecordSet
            BY <1>1, <4>2
          <6> QED BY <6>1 DEF RecordSet
        <5>3. d # c
          BY <1>1, <5>1, <5>2, KlogAssumption
        <5> QED BY <2>3, <3>2, <4>2, <5>1, <5>3
      <4> QED BY <2>3, <4>1, <4>2
    <3> QED BY <2>3, <3>2, <3>4, <3>6, <3>7 DEF WriterInv
  <2>7. ReaderInv'
    BY <1>1, <2>3 DEF RingInv, ReaderInv
  <2>8. LogInv'
    <3>1. LogInv /\ RingIds /\ ReaderInv
      BY DEF RingInv
    <3>2. \A i \in 1..Len(logged) : logged[i].id # nextId
      <4>1. \A i \in 1..Len(logged) : logged[i].id \in Nat /\ logged[i].id < nextId
        BY <1>1, <3>1, LineFacts DEF RingIds
      <4> QED BY <1>1, <4>1
    <3>3. ASSUME NEW i \in 1..Len(logged), NEW j \in 1..last, logged[i].id = ring'[j].id
          PROVE  /\ j = 1 /\ logged[Len(logged)].id = ring'[1].id
                 /\ io \in {"advance", "ended", "dead"} \/ ring'[1].id \in twice
      <4>1. j \in 1..Len(ring) /\ 1 \in 1..Len(ring)
        BY <1>1, <2>2, <2>3, <3>2, <3>3
      <4>2. ring'[j] = ring[j] /\ ring'[1] = ring[1]
        BY <2>3, <4>1
      <4> QED BY <3>1, <3>3, <4>1, <4>2 DEF LogInv
    <3>4. io = "advance" /\ alive =>
            \/ ring'[1].event.level < Level
            \/ Len(logged) # 0 /\ logged[Len(logged)].id = ring'[1].id
      BY <2>3, <3>1 DEF LogInv, ReaderInv
    <3> QED BY <1>1, <2>3, <3>1, <3>3, <3>4 DEF LogInv
  <2>9. SpaceInv'
    <3>1. Sized(ring) /\ Sized(ring')
      BY <1>1, <2>3, RingSized
    <3>2. Room(ring') = Room(ring) + SizeOf(ring'[Len(ring')].event)
      BY <2>3, <3>1, RoomAppend
    <3>3. Room(ring') = Used + SizeOf(e)
      BY <2>2, <2>3, <3>2, UsedIsRoom
    <3>4. Used \in Nat /\ SizeOf(e) \in Nat
      BY UsedIsRoom, SizeNat DEF RingInv, SpaceInv
    <3> QED BY <1>3, <3>3, <3>4 DEF SpaceInv
  <2>10. OrderInv'
    <3>1. PICK o \in Seq(Nat) : o = FlattenSeq(OnceOf(logged, twice))
      BY <1>1, OrderTypes
    <3>2. PICK p \in Seq(Nat) : p = FlattenSeq(PendingOf(ring, logged))
      BY <1>1, OrderTypes
    <3>3. wanted = o \o p
      BY <3>1, <3>2 DEF RingInv, OrderInv
    <3>4. FlattenSeq(PendingOf(Append(ring, r), logged)) = p \o PendingPiece(r, logged)
      BY <1>1, <3>2, PendingAppend
    <3>5. \A i \in 1..Len(logged) : logged[i].id # r.id
      <4>1. \A i \in 1..Len(logged) : logged[i].id \in Nat /\ logged[i].id < nextId
        BY <1>1, LineFacts DEF RingInv, RingIds
      <4> QED BY <1>1, <2>2, <4>1
    <3>6. NewTo(r, logged) <=> e.level >= Level
      BY <1>1, <2>2, <3>5, NewMeans
    <3>7. PICK x \in Seq(Nat) : x = PendingPiece(r, logged) /\ wanted' = wanted \o x
      <4>1. CASE e.level < Level
        <5>1. PendingPiece(r, logged) = <<>>
          BY <3>6, <4>1, SizeNat DEF PendingPiece
        <5>2. wanted \o <<>> = wanted /\ <<>> \in Seq(Nat)
          BY <1>1
        <5> QED BY <2>2, <4>1, <5>1, <5>2
      <4>2. CASE ~(e.level < Level)
        <5>1. PendingPiece(r, logged) = <<nextId>>
          BY <2>2, <3>6, <4>2, SizeNat DEF PendingPiece
        <5>2. Append(wanted, nextId) = wanted \o <<nextId>> /\ <<nextId>> \in Seq(Nat)
          BY <1>1
        <5> QED BY <2>2, <4>2, <5>1, <5>2
      <4> QED BY <4>1, <4>2
    <3>8. (o \o p) \o x = o \o (p \o x)
      BY ConcatAssoc, SMTT(30)
    <3> QED BY <1>1, <2>2, <3>1, <3>3, <3>4, <3>7, <3>8 DEF OrderInv
  <2> QED BY <2>4, <2>5, <2>6, <2>7, <2>8, <2>9, <2>10 DEF RingInv
<1> QED BY <1>2, <1>3

(* A record that is submitted keeps its place.                             *)
LEMMA SubmitStep ==
  ASSUME RingInv, NEW c \in Cpus, Submit(c)
  PROVE  RingInv'
<1>1. /\ ring \in Seq(RecordSet) /\ logged \in Seq(LineSet) /\ wanted \in Seq(Nat)
      /\ nextId \in Nat /\ Len(ring) \in Nat
      /\ nextId' = nextId /\ wanted' = wanted /\ logged' = logged /\ io' = io /\ twice' = twice
      /\ (alive' <=> alive) /\ writing[c] # NoRecord
      /\ writing' = [writing EXCEPT ![c] = NoRecord]
  <2>1. /\ ring \in Seq(RecordSet) /\ logged \in Seq(LineSet) /\ wanted \in Seq(Nat)
        /\ nextId \in Nat
    BY KlogAssumption DEF RingInv, RingTypes
  <2>2. /\ nextId' = nextId /\ wanted' = wanted /\ logged' = logged /\ io' = io /\ twice' = twice
        /\ (alive' <=> alive) /\ writing[c] # NoRecord
        /\ writing' = [writing EXCEPT ![c] = NoRecord]
    BY DEF Submit
  <2>3. Len(ring) \in Nat
    BY <2>1
  <2> QED BY <2>1, <2>2, <2>3
<1> DEFINE done(r) == IF r.id = writing[c] THEN [r EXCEPT !.ready = TRUE] ELSE r
<1>2. \A r \in RecordSet : /\ done(r) \in RecordSet /\ done(r).id = r.id /\ done(r).event = r.event
                           /\ done(r).ready <=> (r.ready \/ r.id = writing[c])
  BY DEF RecordSet
<1>3. ring' = [i \in 1..Len(ring) |-> done(ring[i])]
  BY <1>1 DEF Submit
<1>4. \A i \in 1..Len(ring) : ring[i] \in RecordSet /\ ring'[i] = done(ring[i])
  BY <1>1, <1>3
<1> HIDE DEF done
<1>5. /\ ring' \in Seq(RecordSet) /\ Len(ring') = Len(ring)
      /\ \A i \in 1..Len(ring) : /\ ring'[i].id = ring[i].id /\ ring'[i].event = ring[i].event
                                 /\ ring'[i].ready <=> (ring[i].ready \/ ring[i].id = writing[c])
  <2>1. \A i \in 1..Len(ring) : done(ring[i]) \in RecordSet
    BY <1>2, <1>4
  <2>2. ring' \in Seq(RecordSet) /\ Len(ring') = Len(ring)
    BY <1>1, <1>3, <2>1
  <2> QED BY <1>2, <1>4, <2>2
<1>6. RingTypes'
  BY <1>1, <1>5 DEF RingInv, RingTypes
<1>7. RingIds'
  BY <1>1, <1>5 DEF RingInv, RingIds
<1>8. WriterInv'
  <2>1. /\ writing \in [Cpus -> Nat \cup {NoRecord}]
        /\ \A d \in Cpus : writing[d] # NoRecord => writing[d] < nextId
        /\ \A a, b \in Cpus : writing[a] # NoRecord /\ writing[a] = writing[b] => a = b
        /\ \A i \in 1..Len(ring) : ~ring[i].ready => \E d \in Cpus : writing[d] = ring[i].id
    BY DEF RingInv, WriterInv
  <2>2. writing' \in [Cpus -> Nat \cup {NoRecord}] /\ writing'[c] = NoRecord
        /\ \A d \in Cpus : d # c => writing'[d] = writing[d]
    BY <1>1, <2>1
  <2>3. \A d \in Cpus : writing'[d] # NoRecord => writing'[d] < nextId
    BY <2>1, <2>2
  <2>4. \A a, b \in Cpus : writing'[a] # NoRecord /\ writing'[a] = writing'[b] => a = b
    BY <2>1, <2>2
  <2>5. ASSUME NEW i \in 1..Len(ring), ~ring'[i].ready
        PROVE  \E d \in Cpus : writing'[d] = ring'[i].id
    <3>1. ~ring[i].ready /\ ring[i].id # writing[c]
      BY <1>5, <2>5
    <3>2. PICK d \in Cpus : writing[d] = ring[i].id
      BY <2>1, <3>1
    <3> QED BY <1>5, <2>2, <3>1, <3>2
  <2> QED BY <1>1, <1>5, <2>2, <2>3, <2>4, <2>5 DEF WriterInv
<1>9. Len(ring) # 0 => 1 \in 1..Len(ring)
  BY <1>1
<1>10. ReaderInv'
  BY <1>1, <1>5, <1>9 DEF RingInv, ReaderInv
<1>11. LogInv'
  <2>1. LogInv /\ ReaderInv
    BY DEF RingInv
  <2>2. ASSUME NEW i \in 1..Len(logged), NEW j \in 1..Len(ring), logged[i].id = ring'[j].id
        PROVE  /\ j = 1 /\ logged[Len(logged)].id = ring'[1].id
               /\ io \in {"advance", "ended", "dead"} \/ ring'[1].id \in twice
    <3>1. 1 \in 1..Len(ring)
      BY <1>1
    <3> QED BY <1>5, <2>1, <2>2, <3>1 DEF LogInv
  <2>3. io = "advance" /\ alive =>
          \/ ring'[1].event.level < Level
          \/ Len(logged) # 0 /\ logged[Len(logged)].id = ring'[1].id
    BY <1>5, <1>9, <2>1 DEF LogInv, ReaderInv
  <2> QED BY <1>1, <1>5, <2>1, <2>2, <2>3 DEF LogInv
<1>12. SpaceInv'
  <2>1. Sized(ring) /\ Sized(ring')
    BY <1>1, <1>5, RingSized
  <2>2. Room(ring) = Room(ring')
    BY <1>5, <2>1, RoomSame
  <2> QED BY <2>2 DEF RingInv, SpaceInv
<1>13. OrderInv'
  <2>1. \A i \in 1..Len(ring) : PendingPiece(ring[i], logged) = PendingPiece(ring'[i], logged)
    BY <1>5 DEF PendingPiece, NewTo
  <2>2. PendingOf(ring, logged) = PendingOf(ring', logged)
    BY <1>1, <1>5, <2>1, PendingSame
  <2> QED BY <1>1, <2>2 DEF RingInv, OrderInv
<1> QED BY <1>6, <1>7, <1>8, <1>10, <1>11, <1>12, <1>13 DEF RingInv

(* The first record is let go when it has its line or needs none.          *)
LEMMA AdvanceStep ==
  ASSUME RingInv, Advance
  PROVE  RingInv'
<1>1. /\ ring \in Seq(RecordSet) /\ logged \in Seq(LineSet) /\ wanted \in Seq(Nat)
      /\ nextId \in Nat /\ Len(ring) \in Nat /\ Len(logged) \in Nat /\ ring' = Tail(ring)
      /\ nextId' = nextId /\ wanted' = wanted /\ logged' = logged /\ twice' = twice
      /\ writing' = writing /\ io = "advance" /\ alive /\ io' = "consume" /\ alive' = alive
  <2>1. /\ ring \in Seq(RecordSet) /\ logged \in Seq(LineSet) /\ wanted \in Seq(Nat)
        /\ nextId \in Nat
    BY KlogAssumption DEF RingInv, RingTypes
  <2>2. /\ ring' = Tail(ring) /\ nextId' = nextId /\ wanted' = wanted /\ logged' = logged
        /\ twice' = twice /\ writing' = writing /\ io = "advance" /\ alive
        /\ io' = "consume" /\ alive' = alive
    BY DEF Advance
  <2>3. Len(ring) \in Nat /\ Len(logged) \in Nat
    BY <2>1
  <2> QED BY <2>1, <2>2, <2>3
<1>2. Len(ring) # 0 /\ ring[1].ready
  BY <1>1 DEF RingInv, ReaderInv
<1>3. /\ ring' \in Seq(RecordSet) /\ Len(ring) = Len(ring') + 1 /\ Len(ring') \in Nat
      /\ \A i \in 1..Len(ring') : ring'[i] = ring[i + 1] /\ i + 1 \in 1..Len(ring) /\ i + 1 # 1
      /\ 1 \in 1..Len(ring)
  BY <1>1, <1>2
<1>4. RingTypes'
  BY <1>1, <1>3 DEF RingInv, RingTypes
<1>5. RingIds'
  <2>1. RingIds
    BY DEF RingInv
  <2>2. \A i \in 1..Len(ring') : ring'[i].id \in 1..(nextId - 1)
    BY <1>3, <2>1 DEF RingIds
  <2>3. ASSUME NEW i \in 1..Len(ring'), NEW j \in 1..Len(ring'), ring'[i].id = ring'[j].id
        PROVE  i = j
    <3>1. PICK a \in 1..Len(ring), b \in 1..Len(ring) :
            a = i + 1 /\ b = j + 1 /\ ring'[i] = ring[a] /\ ring'[j] = ring[b]
      BY <1>3
    <3>2. a = b
      BY <2>1, <2>3, <3>1, Zenon DEF RingIds
    <3> QED BY <3>1, <3>2
  <2> QED BY <1>1, <2>1, <2>2, <2>3 DEF RingIds
<1>6. WriterInv'
  <2>1. WriterInv
    BY DEF RingInv
  <2>2. \A i \in 1..Len(ring') : ~ring'[i].ready => \E c \in Cpus : writing[c] = ring'[i].id
    BY <1>3, <2>1 DEF WriterInv
  <2> QED BY <1>1, <2>1, <2>2 DEF WriterInv
<1>7. ReaderInv'
  BY <1>1 DEF RingInv, ReaderInv
<1>8. LogInv'
  <2>1. LogInv
    BY DEF RingInv
  <2>2. \A i \in 1..Len(logged), j \in 1..Len(ring') : logged[i].id # ring'[j].id
    BY <1>3, <2>1 DEF LogInv
  <2> QED BY <1>1, <2>1, <2>2 DEF LogInv
<1>9. SpaceInv'
  <2>1. Sized(ring) /\ Sized(ring')
    BY <1>1, <1>3, RingSized
  <2>2. \A n \in 1..Len(ring') : ring'[n].event = ring[n + 1].event
    BY <1>3
  <2>3. Room(ring') \in Nat /\ Room(ring) \in Nat /\ Room(ring') <= Room(ring)
    BY <1>3, <2>1, <2>2, RoomTail
  <2> QED BY <2>3, KlogAssumption DEF RingInv, SpaceInv
<1>10. OrderInv'
  <2>1. ~NewTo(ring[1], logged)
    <3>1. ring[1].event \in Events
      <4>1. ring[1] \in RecordSet
        BY <1>1, <1>3
      <4> QED BY <4>1 DEF RecordSet
    <3>2. CASE ring[1].event.level < Level
      BY <1>1, <3>1, <3>2, NewMeans, SizeNat
    <3>3. CASE Len(logged) # 0 /\ logged[Len(logged)].id = ring[1].id
      <4>1. Len(logged) \in 1..Len(logged)
        BY <1>1, <3>3
      <4> QED BY <1>1, <3>3, <4>1, NewMeans
    <3> QED BY <1>1, <3>2, <3>3 DEF RingInv, LogInv
  <2>2. FlattenSeq(PendingOf(ring, logged))
          = PendingPiece(ring[1], logged) \o FlattenSeq(PendingOf(ring', logged))
    BY <1>1, <1>2, PendingTail
  <2>3. PICK p \in Seq(Nat) : p = FlattenSeq(PendingOf(ring', logged))
    BY <1>1, <1>3, OrderTypes
  <2>4. <<>> \o p = p
    OBVIOUS
  <2>5. FlattenSeq(PendingOf(ring, logged)) = p
    BY <2>1, <2>2, <2>3, <2>4 DEF PendingPiece
  <2> QED BY <1>1, <2>3, <2>5 DEF RingInv, OrderInv
<1> QED BY <1>4, <1>5, <1>6, <1>7, <1>8, <1>9, <1>10 DEF RingInv

(* The record that was being read when a process died may be logged again: *)
(* the lines so far mean what they meant.                                  *)
LEMMA CrashStep ==
  ASSUME RingInv, Crash
  PROVE  RingInv'
<1>1. /\ ring \in Seq(RecordSet) /\ logged \in Seq(LineSet) /\ wanted \in Seq(Nat)
      /\ ring' = ring /\ nextId' = nextId /\ wanted' = wanted /\ logged' = logged
      /\ writing' = writing /\ alive /\ io' = "down" /\ alive' = FALSE
      /\ twice' = IF io = "advance" THEN twice \cup {Head(ring).id} ELSE twice
      /\ Len(ring) \in Nat
  BY DEF RingInv, RingTypes, Crash
<1>2. RingIds /\ ReaderInv /\ LogInv
  BY DEF RingInv
<1>3. io = "advance" => 1 \in 1..Len(ring) /\ Head(ring) = ring[1] /\ ring[1].id \in 1..MaxEvents
  <2>1. io = "advance" => Len(ring) # 0
    BY <1>1, <1>2 DEF ReaderInv
  <2>2. io = "advance" => 1 \in 1..Len(ring) /\ Head(ring) = ring[1]
    BY <1>1, <2>1
  <2>3. \A k \in 1..(nextId - 1) : k \in 1..MaxEvents
    BY KlogAssumption DEF RingInv, RingTypes
  <2> QED BY <1>2, <2>2, <2>3 DEF RingIds
<1>4. RingTypes' /\ RingIds' /\ WriterInv' /\ SpaceInv'
  <2>1. RingTypes' /\ RingIds'
    BY <1>1 DEF RingInv, RingTypes, RingIds
  <2>2. WriterInv' /\ SpaceInv'
    BY <1>1 DEF RingInv, WriterInv, SpaceInv
  <2> QED BY <2>1, <2>2
<1>5. ReaderInv'
  <2>1. twice' \subseteq 1..MaxEvents
    BY <1>1, <1>2, <1>3 DEF ReaderInv
  <2> QED BY <1>1, <2>1 DEF ReaderInv
<1>6. twice \subseteq twice' /\ (io = "advance" => ring[1].id \in twice')
  BY <1>1, <1>3
<1>7. LogInv'
  <2>1. io \notin {"ended", "dead"}
    BY <1>1, <1>2 DEF ReaderInv
  <2>2. \A i \in 1..Len(logged), j \in 1..Len(ring) :
          logged[i].id = ring[j].id =>
            j = 1 /\ logged[Len(logged)].id = ring[1].id /\ ring[1].id \in twice'
    BY <1>2, <1>6, <2>1 DEF LogInv
  <2>3. \A i \in 2..Len(logged) : logged[i - 1].id = logged[i].id => logged[i].id \in twice'
    BY <1>2, <1>6 DEF LogInv
  <2> QED BY <1>1, <2>2, <2>3 DEF LogInv
<1>8. OrderInv'
  <2>1. ASSUME NEW i \in 1..Len(logged)
        PROVE  OncePiece(logged, twice, i) = OncePiece(logged, twice', i)
    <3>1. i > 1 => i \in 2..Len(logged)
      OBVIOUS
    <3>2. Again(logged, twice, i) <=> Again(logged, twice', i)
      BY <1>2, <1>6, <3>1 DEF Again, LogInv
    <3> QED BY <3>2 DEF OncePiece
  <2>2. OnceOf(logged, twice) = OnceOf(logged, twice')
    <3>1. OnceOf(logged, twice) = [i \in 1..Len(logged) |-> OncePiece(logged, twice, i)]
      BY <1>1 DEF OnceOf
    <3>2. OnceOf(logged, twice') = [i \in 1..Len(logged) |-> OncePiece(logged, twice', i)]
      BY <1>1 DEF OnceOf
    <3> QED BY <2>1, <3>1, <3>2
  <2> QED BY <1>1, <2>2 DEF RingInv, OrderInv
<1> QED BY <1>4, <1>5, <1>7, <1>8 DEF RingInv

(* What logEvent adds.                                                     *)
LEMMA LineOfIs ==
  ASSUME NEW r \in RecordSet
  PROVE  LineOf(r) = IF r.event.level < Level THEN <<>> ELSE <<LineRec(r.id, r.event)>>
<1>1. r.event \in Events
  BY DEF RecordSet
<1>2. ~(SizeOf(r.event) < Header)
  BY <1>1, SizeNat
<1> QED BY <1>2 DEF LineOf, LineRec

(* A line of the first record, for the first time or once more.            *)
LEMMA LogEventStep ==
  ASSUME RingInv, LogEvent
  PROVE  RingInv'
<1>1. /\ ring \in Seq(RecordSet) /\ logged \in Seq(LineSet) /\ wanted \in Seq(Nat)
      /\ nextId \in Nat /\ Len(ring) \in Nat /\ Len(logged) \in Nat /\ ring # <<>>
      /\ ring' = ring /\ nextId' = nextId /\ wanted' = wanted /\ twice' = twice
      /\ writing' = writing /\ io = "consume" /\ alive /\ io' = "advance" /\ (alive' <=> alive)
      /\ logged' = logged \o LineOf(Head(ring)) /\ Head(ring).ready
  <2>1. /\ ring \in Seq(RecordSet) /\ logged \in Seq(LineSet) /\ wanted \in Seq(Nat)
        /\ nextId \in Nat
    BY KlogAssumption DEF RingInv, RingTypes
  <2>2. /\ ring # <<>> /\ ring' = ring /\ nextId' = nextId /\ wanted' = wanted /\ twice' = twice
        /\ writing' = writing /\ io = "consume" /\ alive /\ io' = "advance" /\ (alive' <=> alive)
        /\ logged' = logged \o LineOf(Head(ring)) /\ Head(ring).ready
    BY DEF LogEvent
  <2>3. Len(ring) \in Nat /\ Len(logged) \in Nat
    BY <2>1
  <2> QED BY <2>1, <2>2, <2>3
<1>2. Len(ring) # 0 /\ 1 \in 1..Len(ring) /\ Head(ring) = ring[1] /\ ring[1] \in RecordSet
  BY <1>1
<1>3. ring[1].id \in Nat /\ ring[1].event \in Events /\ ring[1].ready
  BY <1>1, <1>2 DEF RecordSet
<1>4. RingTypes /\ RingIds /\ WriterInv /\ ReaderInv /\ LogInv /\ SpaceInv /\ OrderInv
  BY DEF RingInv
<1>5. WriterInv' /\ SpaceInv'
  BY <1>1, <1>4 DEF WriterInv, SpaceInv
<1>6. ReaderInv'
  BY <1>1, <1>2, <1>3, <1>4 DEF ReaderInv
<1>7. CASE ring[1].event.level < Level
  <2>1. logged' = logged
    <3>1. logged \o <<>> = logged
      BY <1>1
    <3> QED BY <1>1, <1>2, <1>7, <3>1, LineOfIs
  <2>2. RingTypes' /\ RingIds' /\ OrderInv'
    BY <1>1, <1>4, <2>1 DEF RingTypes, RingIds, OrderInv
  <2>3. LogInv'
    BY <1>1, <1>4, <1>7, <2>1 DEF LogInv
  <2> QED BY <1>5, <1>6, <2>2, <2>3 DEF RingInv
<1>8. CASE ~(ring[1].event.level < Level)
  <2>1. PICK l \in LineSet : l = LineRec(ring[1].id, ring[1].event)
    BY <1>3 DEF LineSet
  <2>2. l.id = ring[1].id
    BY <2>1 DEF LineRec
  <2>3. PICK last \in Nat \ {0} : last = Len(logged) + 1
    BY <1>1
  <2>4. logged' = Append(logged, l)
    <3>1. logged \o <<l>> = Append(logged, l)
      BY <1>1
    <3> QED BY <1>1, <1>2, <1>8, <2>1, <3>1, LineOfIs
  <2>5. /\ logged' \in Seq(LineSet) /\ Len(logged') = last /\ logged'[last] = l
        /\ \A i \in 1..Len(logged) : logged'[i] = logged[i]
        /\ \A i \in 1..last : i \in 1..Len(logged) \/ i = last
        /\ \A i \in 1..Len(logged) : i \in 1..last
        /\ last \in 1..last /\ last - 1 = Len(logged)
    <3>1. /\ \A i \in 1..last : i \in 1..Len(logged) \/ i = last
          /\ \A i \in 1..Len(logged) : i \in 1..last
          /\ last \in 1..last /\ last - 1 = Len(logged)
      BY <1>1, <2>3
    <3>2. logged' \in Seq(LineSet) /\ Len(logged') = last
      <4>1. logged \in Seq(LineSet)
        BY <1>1
      <4>2. Append(logged, l) \in Seq(LineSet) /\ Len(Append(logged, l)) = Len(logged) + 1
        BY <4>1
      <4> QED BY <2>3, <2>4, <4>2
    <3>3. logged'[last] = l
      BY <1>1, <2>3, <2>4
    <3>4. \A i \in 1..Len(logged) : logged'[i] = logged[i]
      BY <1>1, <2>3, <2>4
    <3> QED BY <3>1, <3>2, <3>3, <3>4
  <2>6. RingTypes'
    BY <1>1, <1>4, <2>5 DEF RingTypes
  <2>7. RingIds'
    <3>1. ring[1].id < nextId
      <4>1. \A k \in 1..(nextId - 1) : k < nextId
        BY <1>1
      <4> QED BY <1>2, <1>4, <4>1 DEF RingIds
    <3>2. \A i \in 1..last : logged'[i].id < nextId
      BY <1>4, <2>2, <2>5, <3>1 DEF RingIds
    <3> QED BY <1>1, <1>4, <2>5, <3>2 DEF RingIds
  <2>8. ASSUME NEW i \in 1..Len(logged), logged[i].id = ring[1].id
        PROVE  logged[Len(logged)].id = ring[1].id /\ ring[1].id \in twice
    BY <1>1, <1>2, <1>4, <2>8 DEF LogInv
  <2>9. LogInv'
    <3>1. ASSUME NEW i \in 1..last, NEW j \in 1..Len(ring), logged'[i].id = ring[j].id
          PROVE  j = 1
      <4>1. CASE i \in 1..Len(logged)
        BY <1>4, <2>5, <3>1, <4>1 DEF LogInv
      <4>2. CASE i = last
        BY <1>2, <1>4, <2>2, <2>5, <3>1, <4>2 DEF RingIds
      <4> QED BY <2>5, <4>1, <4>2
    <3>2. ASSUME NEW i \in 2..last, logged'[i - 1].id = logged'[i].id
          PROVE  logged'[i].id \in twice
      <4>1. i - 1 \in 1..Len(logged) /\ (i \in 2..Len(logged) \/ i = last) /\ i \in 1..last
        BY <1>1, <2>3
      <4>2. CASE i \in 2..Len(logged)
        <5>1. i \in 1..Len(logged)
          BY <4>2
        <5> QED BY <1>4, <2>5, <3>2, <4>1, <4>2, <5>1 DEF LogInv
      <4>3. CASE i = last
        BY <2>2, <2>5, <2>8, <3>2, <4>1, <4>3
      <4> QED BY <4>1, <4>2, <4>3
    <3>3. logged'[Len(logged')].id = ring[1].id /\ Len(logged') # 0
      BY <2>2, <2>5
    <3> QED BY <1>1, <2>5, <3>1, <3>2, <3>3 DEF LogInv
  <2>10. OrderInv'
    <3>1. PICK more : more = logged'
      OBVIOUS
    <3>2. more = Append(logged, l) /\ more \in Seq(LineSet) /\ Len(more) = last
          /\ more[last] = l /\ \A i \in 1..Len(logged) : more[i] = logged[i]
      BY <2>4, <2>5, <3>1
    <3>3. PICK o \in Seq(Nat) : o = FlattenSeq(OnceOf(logged, twice))
      BY <1>1, OrderTypes
    <3>4. PICK rest : rest = Tail(ring)
      OBVIOUS
    <3>5. /\ rest \in Seq(RecordSet)
          /\ \A n \in 1..Len(rest) : rest[n] = ring[n + 1] /\ n + 1 \in 1..Len(ring) /\ n + 1 # 1
      BY <1>1, <1>2, <3>4
    <3>6. PICK p \in Seq(Nat) : p = FlattenSeq(PendingOf(rest, logged))
      BY <1>1, <3>5, OrderTypes
    <3>7. FlattenSeq(PendingOf(rest, more)) = p
      <4>1. ASSUME NEW n \in 1..Len(rest)
            PROVE  PendingPiece(rest[n], logged) = PendingPiece(rest[n], more)
        <5>1. rest[n].id # l.id
          BY <1>2, <1>4, <2>2, <3>5 DEF RingIds
        <5>2. NewTo(rest[n], logged) <=> NewTo(rest[n], more)
          <6>1. NewTo(rest[n], logged) <=>
                  /\ rest[n].event.level >= Level
                  /\ \A i \in 1..Len(logged) : logged[i].id # rest[n].id
            BY <1>1, NewMeans
          <6>2. NewTo(rest[n], more) <=>
                  /\ rest[n].event.level >= Level
                  /\ \A i \in 1..last : more[i].id # rest[n].id
            BY <3>2, NewMeans, ZenonT(30)
          <6> QED BY <2>5, <3>2, <5>1, <6>1, <6>2
        <5> QED BY <5>2 DEF PendingPiece
      <4>2. PendingOf(rest, logged) = PendingOf(rest, more)
        BY <3>5, <4>1, PendingSame, ZenonT(30)
      <4> QED BY <3>6, <4>2
    <3>8. FlattenSeq(PendingOf(ring, logged)) = PendingPiece(ring[1], logged) \o p
      BY <1>1, <1>2, <3>4, <3>6, PendingTail
    <3>9. FlattenSeq(PendingOf(ring, more)) = PendingPiece(ring[1], more) \o p
      BY <1>1, <1>2, <3>4, <3>7, PendingTail
    <3>10. PendingPiece(ring[1], more) = <<>>
      <4>1. NewTo(ring[1], more) => \A i \in 1..last : more[i].id # ring[1].id
        BY <3>2, NewMeans
      <4>2. ~NewTo(ring[1], more)
        BY <2>2, <2>5, <3>2, <4>1
      <4> QED BY <4>2 DEF PendingPiece
    <3>11. <<>> \o p = p
      OBVIOUS
    <3>12. FlattenSeq(OnceOf(more, twice)) = o \o OncePiece(more, twice, last)
      <4>1. FlattenSeq(OnceOf(more, twice))
              = FlattenSeq(OnceOf(logged, twice)) \o OncePiece(more, twice, Len(logged) + 1)
        <5>1. logged \in Seq(LineSet) /\ more = Append(logged, l)
          BY <1>1, <3>2
        <5> QED BY <5>1, OnceAppend
      <4> QED BY <2>3, <3>3, <4>1
    <3>13. wanted = o \o FlattenSeq(PendingOf(ring, logged))
      BY <1>4, <3>3 DEF OrderInv
    <3>14. CASE \E i \in 1..Len(logged) : logged[i].id = ring[1].id
      <4>1. logged[Len(logged)].id = ring[1].id /\ ring[1].id \in twice /\ last > 1
            /\ Len(logged) \in 1..Len(logged)
        BY <1>1, <2>3, <2>8, <3>14
      <4>2. OncePiece(more, twice, last) = <<>>
        BY <2>2, <2>5, <3>2, <4>1 DEF OncePiece, Again
      <4>3. PendingPiece(ring[1], logged) = <<>>
        <5>1. ~NewTo(ring[1], logged)
          BY <1>1, <3>14, NewMeans
        <5> QED BY <5>1 DEF PendingPiece
      <4>4. o \o <<>> = o
        OBVIOUS
      <4> QED BY <1>1, <3>1, <3>8, <3>9, <3>10, <3>12, <3>13, <4>2, <4>3, <4>4 DEF OrderInv
    <3>15. CASE ~\E i \in 1..Len(logged) : logged[i].id = ring[1].id
      <4>1. PICK k \in Nat : k = ring[1].id
        BY <1>3
      <4>2. OncePiece(more, twice, last) = <<k>>
        <5>1. ~Again(more, twice, last)
          <6>1. last > 1 => last - 1 \in 1..Len(logged)
            BY <1>1, <2>3
          <6> QED BY <2>2, <3>2, <3>15, <6>1 DEF Again
        <5> QED BY <2>2, <3>2, <4>1, <5>1 DEF OncePiece
      <4>3. PendingPiece(ring[1], logged) = <<k>>
        <5>1. ring[1].event.level >= Level
          BY <1>3, <1>8, SizeNat
        <5>2. NewTo(ring[1], logged)
          BY <1>1, <3>15, <5>1, NewMeans
        <5> QED BY <4>1, <5>2 DEF PendingPiece
      <4>4. PICK x \in Seq(Nat) : x = <<k>>
        <5>1. <<k>> \in Seq(Nat)
          OBVIOUS
        <5> QED BY <5>1
      <4>5. (o \o x) \o p = o \o (x \o p)
        BY ConcatAssoc
      <4> QED BY <1>1, <3>1, <3>8, <3>9, <3>10, <3>11, <3>12, <3>13, <4>2, <4>3, <4>4, <4>5
            DEF OrderInv
    <3> QED BY <3>14, <3>15
  <2> QED BY <1>5, <1>6, <2>6, <2>7, <2>9, <2>10 DEF RingInv
<1> QED BY <1>7, <1>8

(* Every step keeps the invariant.                                         *)
LEMMA RingNext == RingInv /\ [KlogNext]_klogVars => RingInv'
<1> SUFFICES ASSUME RingInv, [KlogNext]_klogVars PROVE RingInv'
  OBVIOUS
<1>1. ASSUME NEW c \in Cpus, NEW e \in Events, Reserve(c, e) PROVE RingInv'
  BY <1>1, ReserveStep
<1>2. ASSUME NEW c \in Cpus, Submit(c) PROVE RingInv'
  BY <1>2, SubmitStep
<1>3. CASE Construct \/ StartWait \/ Readable \/ ConsumeEnd \/ Destroy \/ HandlerDangles
  BY <1>3, ReaderSteps
<1>4. CASE LogEvent
  BY <1>4, LogEventStep
<1>5. CASE Advance
  BY <1>5, AdvanceStep
<1>6. CASE Crash
  BY <1>6, CrashStep
<1>7. CASE UNCHANGED klogVars
  <2>1. Same
    BY <1>7 DEF Same, klogVars
  <2>2. ReaderInv'
    BY <1>7 DEF RingInv, ReaderInv, klogVars
  <2>3. LogInv'
    BY <1>7 DEF RingInv, LogInv, klogVars
  <2> QED BY <2>1, <2>2, <2>3, SameStep
<1> QED BY <1>1, <1>2, <1>3, <1>4, <1>5, <1>6, <1>7 DEF KlogNext, IoStep

(* Whatever the CPUs interleave and wherever the process dies, the lines   *)
(* come out in the order of the reservations, every record that found room *)
(* has its line or is still to have it, and only a record at which a       *)
(* process died has two (ringbuffer.cc 53-78, klog_helpers.bpf.h 35-54).   *)
THEOREM LinesInOrder == KlogSpec => []LoggedInOrder
<1>1. KlogInit => RingInv
  BY RingInit
<1>2. RingInv /\ [KlogNext]_klogVars => RingInv'
  BY RingNext
<1>3. RingInv => LoggedInOrder
  BY OrderIs DEF RingInv, OrderInv, LoggedInOrder
<1> QED BY <1>1, <1>2, <1>3, PTL DEF KlogSpec

-----------------------------------------------------------------------------
(* The states of logEvent's loop.                                          *)
IsState(s) ==
  /\ DOMAIN s = {"spec", "pos", "arg", "buf"}
  /\ s.spec \in BOOLEAN /\ s.pos \in Nat /\ s.arg \in Nat

(* Characters that are put move the position by their number ...           *)
LEMMA PutIs ==
  ASSUME NEW s, IsState(s), NEW cells, Len(cells) \in Nat
  PROVE  /\ IsState(Put(s, cells)) /\ ~Put(s, cells).spec
         /\ Put(s, cells).pos = s.pos + Len(cells) /\ Put(s, cells).arg = s.arg
BY DEF IsState, Put

(* ... and so do those of snprintf, the ones that are cut included.        *)
LEMMA SnprintfIs ==
  ASSUME NEW s, IsState(s), NEW cells, Len(cells) \in Nat
  PROVE  /\ IsState(Snprintf(s, cells)) /\ ~Snprintf(s, cells).spec
         /\ Snprintf(s, cells).pos = s.pos + Len(cells) /\ Snprintf(s, cells).arg = s.arg
BY DEF IsState, Snprintf

(* A character of the loop.                                                *)
LEMMA ScanPlain ==
  ASSUME NEW args, NEW s, IsState(s), NEW ch, NEW last \in Nat, ~s.spec
  PROVE  /\ IsState(Scan(args, s, ch, last)) /\ Scan(args, s, ch, last).arg = s.arg
         /\ s.pos >= last => Scan(args, s, ch, last) = s
         /\ s.pos < last /\ ch = "%" =>
              Scan(args, s, ch, last).spec /\ Scan(args, s, ch, last).pos = s.pos
         /\ s.pos < last /\ ch # "%" =>
              ~Scan(args, s, ch, last).spec /\ Scan(args, s, ch, last).pos = s.pos + 1
<1>1. s.pos \in Nat
  BY DEF IsState
<1>2. CASE s.pos >= last
  <2>1. Scan(args, s, ch, last) = s
    BY <1>1, <1>2 DEF Scan
  <2> QED BY <1>1, <1>2, <2>1
<1>3. CASE s.pos < last /\ ch = "%"
  <2>1. PICK t : t = [s EXCEPT !.spec = TRUE]
    OBVIOUS
  <2>2. IsState(t) /\ t.spec /\ t.pos = s.pos /\ t.arg = s.arg
    BY <2>1 DEF IsState
  <2>3. Scan(args, s, ch, last) = t
    BY <1>1, <1>3, <2>1 DEF Scan
  <2> QED BY <1>1, <1>3, <2>2, <2>3
<1>4. CASE s.pos < last /\ ch # "%"
  <2>1. PICK cells : cells = <<Literal(ch)>>
    OBVIOUS
  <2>2. Len(cells) = 1
    BY <2>1
  <2>3. PICK t : t = Put(s, cells)
    OBVIOUS
  <2>4. IsState(t) /\ ~t.spec /\ t.pos = s.pos + 1 /\ t.arg = s.arg
    <3>1. Len(cells) \in Nat
      BY <2>2
    <3>2. /\ IsState(Put(s, cells)) /\ ~Put(s, cells).spec
          /\ Put(s, cells).pos = s.pos + Len(cells) /\ Put(s, cells).arg = s.arg
      BY <3>1, PutIs
    <3> QED BY <2>2, <2>3, <3>2
  <2>5. Scan(args, s, ch, last) = t
    BY <1>1, <1>4, <2>1, <2>3 DEF Scan
  <2> QED BY <1>1, <1>4, <2>4, <2>5
<1> QED BY <1>1, <1>2, <1>3, <1>4

(* The length of <missing>.                                                *)
LEMMA MissingIs == Len(Missing) = 9
BY DEF Missing

(* The character after a '%' takes no more room than its conversion needs, *)
(* and a conversion takes an argument if there is one left.                *)
LEMMA ScanSpec ==
  ASSUME NEW args, NEW s, IsState(s), NEW ch, NEW last \in Nat, s.spec, NEW room \in Nat,
         room = IF ch = "%" THEN 1
                ELSE IF ~Conversion(ch) THEN 2
                ELSE IF s.arg <= MaxArgs THEN Width[ch] ELSE Len(Missing)
  PROVE  /\ IsState(Scan(args, s, ch, last)) /\ ~Scan(args, s, ch, last).spec
         /\ Scan(args, s, ch, last).pos <= s.pos + room
         /\ Scan(args, s, ch, last).arg =
              s.arg + (IF Conversion(ch) /\ s.arg <= MaxArgs THEN 1 ELSE 0)
<1>1. s.pos \in Nat /\ s.arg \in Nat
  BY DEF IsState
<1>2. CASE ch = "%"
  <2>1. PICK cells : cells = <<Literal("%")>>
    OBVIOUS
  <2>2. Len(cells) = 1
    BY <2>1
  <2>3. PICK t : t = Put(s, cells)
    OBVIOUS
  <2>4. IsState(t) /\ ~t.spec /\ t.pos = s.pos + 1 /\ t.arg = s.arg
    <3>1. Len(cells) \in Nat
      BY <2>2
    <3>2. /\ IsState(Put(s, cells)) /\ ~Put(s, cells).spec
          /\ Put(s, cells).pos = s.pos + Len(cells) /\ Put(s, cells).arg = s.arg
      BY <3>1, PutIs
    <3> QED BY <2>2, <2>3, <3>2
  <2>5. Scan(args, s, ch, last) = t
    BY <1>1, <1>2, <2>1, <2>3 DEF Scan
  <2> QED BY <1>1, <1>2, <2>4, <2>5 DEF Conversion
<1>3. CASE ch # "%" /\ ch \in Specs
  <2>1. /\ MaxArgs \in Nat /\ s.arg \in Nat /\ Conversion(ch)
        /\ room = IF s.arg <= MaxArgs THEN Width[ch] ELSE 9
    BY <1>3, KlogAssumption, MissingIs DEF Conversion, IsState
  <2>2. CASE s.arg > MaxArgs
    <3>1. PICK cells : cells = Missing
      OBVIOUS
    <3>2. Len(cells) = 9
      BY <3>1, MissingIs
    <3>3. PICK t : t = Snprintf(s, cells)
      OBVIOUS
    <3>4. IsState(t) /\ ~t.spec /\ t.pos = s.pos + 9 /\ t.arg = s.arg
      <4>1. Len(cells) \in Nat
        BY <3>2
      <4>2. /\ IsState(Snprintf(s, cells)) /\ ~Snprintf(s, cells).spec
            /\ Snprintf(s, cells).pos = s.pos + Len(cells) /\ Snprintf(s, cells).arg = s.arg
        BY <4>1, SnprintfIs
      <4> QED BY <3>2, <3>3, <4>2
    <3>5. Scan(args, s, ch, last) = t
      BY <1>1, <1>3, <2>2, <3>1, <3>3 DEF Scan
    <3> QED BY <1>1, <2>1, <2>2, <3>4, <3>5
  <2>3. CASE ~(s.arg > MaxArgs)
    <3>1. PICK cells : cells = Text(ch, args[s.arg])
      OBVIOUS
    <3>2. Len(cells) = room
      BY <2>1, <2>3, <3>1 DEF Text
    <3>3. PICK t : t = Snprintf(s, cells)
      OBVIOUS
    <3>4. IsState(t) /\ ~t.spec /\ t.pos = s.pos + room /\ t.arg = s.arg
      BY <3>2, <3>3, SnprintfIs
    <3>5. Scan(args, s, ch, last) = [t EXCEPT !.arg = @ + 1]
      BY <1>3, <2>3, <3>1, <3>3 DEF Scan
    <3> QED BY <1>1, <2>1, <2>3, <3>4, <3>5 DEF IsState
  <2> QED BY <2>2, <2>3
<1>4. CASE ch # "%" /\ ch \notin Specs
  <2>1. PICK cells : cells = <<Literal("%"), Literal(ch)>>
    OBVIOUS
  <2>2. Len(cells) = 2
    BY <2>1
  <2>3. PICK t : t = Put(s, cells)
    OBVIOUS
  <2>4. IsState(t) /\ ~t.spec /\ t.pos = s.pos + 2 /\ t.arg = s.arg
    <3>1. Len(cells) \in Nat
      BY <2>2
    <3>2. /\ IsState(Put(s, cells)) /\ ~Put(s, cells).spec
          /\ Put(s, cells).pos = s.pos + Len(cells) /\ Put(s, cells).arg = s.arg
      BY <3>1, PutIs
    <3> QED BY <2>2, <2>3, <3>2
  <2>5. Scan(args, s, ch, last) = t
    BY <1>1, <1>4, <2>1, <2>3 DEF Scan
  <2> QED BY <1>1, <1>4, <2>4, <2>5 DEF Conversion
<1> QED BY <1>2, <1>3, <1>4

(* The loop, from the recursive function of Format.                        *)
Stepped(e, f, i) == IF i = 0 THEN Start ELSE Scan(e.args, f[i - 1], e.msg[i], BufSize - 1)

(* The recursive function of Format exists.                                *)
LEMMA SteppedExists ==
  ASSUME NEW e, Len(e.msg) \in Nat
  PROVE  \E f : f = [i \in 0..Len(e.msg) |-> Stepped(e, f, i)]
<1> DEFINE A == {n \in 0..Len(e.msg) : \E f : f = [i \in 0..n |-> Stepped(e, f, i)]}
<1>1. 0 \in A
  <2> DEFINE g == [i \in 0..0 |-> Start]
  <2>1. g = [i \in 0..0 |-> Stepped(e, g, i)]
    BY DEF Stepped
  <2> QED BY <2>1
<1>2. ASSUME NEW n \in A, n < Len(e.msg) PROVE n + 1 \in A
  <2>1. PICK f : f = [i \in 0..n |-> Stepped(e, f, i)]
    OBVIOUS
  <2> DEFINE g == [i \in 0..(n + 1) |->
                     IF i = n + 1 THEN Scan(e.args, f[n], e.msg[n + 1], BufSize - 1) ELSE f[i]]
  <2>2. ASSUME NEW i \in 0..(n + 1) PROVE g[i] = Stepped(e, g, i)
    <3>1. CASE i = n + 1
      BY <3>1 DEF Stepped
    <3>2. CASE i \in 0..n
      <4>1. f[i] = Stepped(e, f, i)
        BY <2>1, <3>2
      <4>2. i # 0 => i - 1 \in 0..n
        BY <3>2
      <4> QED BY <3>2, <4>1, <4>2 DEF Stepped
    <3> QED BY <3>1, <3>2
  <2>3. g = [i \in 0..(n + 1) |-> Stepped(e, g, i)]
    BY <2>2
  <2>4. n + 1 \in 0..Len(e.msg)
    BY <1>2
  <2> HIDE DEF g
  <2>5. \E f1 : f1 = [i \in 0..(n + 1) |-> Stepped(e, f1, i)]
    BY <2>3
  <2> QED BY <2>4, <2>5
<1>3. Len(e.msg) \in A
  <2> HIDE DEF A
  <2>1. A \in SUBSET (0..Len(e.msg))
    BY DEF A
  <2> QED BY <1>1, <1>2, <2>1, Reach
<1> QED BY <1>3

(* Where the loop stands after i characters of a message that fits: what   *)
(* has begun has its room, and what should have begun has not only when    *)
(* the text is cut; until then the next argument is that of the next       *)
(* conversion.                                                             *)
NextArg(n) == IF n < MaxArgs THEN n + 1 ELSE MaxArgs + 1

Fits(s, msg, open, nth, at, i) ==
  /\ IsState(s) /\ s.pos < BufSize /\ s.pos <= at[i]
  /\ s.spec => open[i] /\ Need(msg, i, nth[i]) \in Nat /\ s.pos + Need(msg, i, nth[i]) <= at[i]
  /\ ~s.spec /\ open[i] => s.pos >= BufSize - 1
  /\ s.spec \/ s.pos < BufSize - 1 => s.arg = NextArg(nth[i])

(* One more character of a message that fits.                              *)
LEMMA FitsStep ==
  ASSUME NEW args, NEW msg, Len(msg) \in Nat, NEW open, NEW nth, NEW at, Layout(msg, open, nth, at),
         NEW i \in 1..Len(msg), NEW s, Fits(s, msg, open, nth, at, i - 1)
  PROVE  Fits(Scan(args, s, msg[i], BufSize - 1), msg, open, nth, at, i)
<1>1. PICK t : t = Scan(args, s, msg[i], BufSize - 1)
  OBVIOUS
<1>2. PICK last \in Nat : last + 1 = BufSize /\ last = BufSize - 1
  BY KlogAssumption
<1>3. PICK b \in Nat : b = at[i - 1]
  <2>1. i - 1 \in 0..Len(msg)
    OBVIOUS
  <2> QED BY <2>1 DEF Layout
<1>10. PICK n \in Nat : n = nth[i - 1] /\ nth[i] = n + (IF open[i - 1] /\ Conversion(msg[i]) THEN 1 ELSE 0)
  <2>1. i - 1 \in 0..Len(msg)
    OBVIOUS
  <2> QED BY <2>1 DEF Layout
<1>11. s.spec \/ s.pos < last => s.arg = NextArg(n)
  BY <1>2, <1>10 DEF Fits
<1>4. /\ open[i] <=> (msg[i] = "%" /\ ~open[i - 1])
      /\ at[i] = b + (IF open[i - 1] THEN 0 ELSE IF open[i] THEN Need(msg, i, nth[i]) ELSE 1)
      /\ open[i] => i < Len(msg) /\ at[i] < BufSize
      /\ open[i - 1] => b < BufSize
  <2>1. /\ open[i] <=> (msg[i] = "%" /\ ~open[i - 1])
        /\ at[i] = b + (IF open[i - 1] THEN 0 ELSE IF open[i] THEN Need(msg, i, nth[i]) ELSE 1)
        /\ open[i] => i < Len(msg) /\ at[i] < BufSize
    BY <1>3 DEF Layout
  <2>2. open[i - 1] => b < BufSize
    <3>1. CASE i = 1
      BY <3>1 DEF Layout
    <3>2. CASE i # 1
      <4>1. i - 1 \in 1..Len(msg)
        BY <3>2
      <4> QED BY <1>3, <4>1 DEF Layout
    <3> QED BY <3>1, <3>2
  <2> QED BY <2>1, <2>2
<1>5. Need(msg, i, nth[i]) \in Nat \ {0}
  BY KlogAssumption, MissingIs DEF Need, Conversion
<1>6. IsState(s) /\ s.pos \in Nat /\ s.pos <= last /\ s.pos <= b
  <2>1. IsState(s) /\ s.pos < BufSize /\ s.pos <= b
    BY <1>3 DEF Fits
  <2>2. s.pos \in Nat
    BY <2>1 DEF IsState
  <2> QED BY <1>2, <2>1, <2>2
<1>7. CASE ~s.spec /\ s.pos >= last
  <2>1. t = s
    BY <1>1, <1>2, <1>6, <1>7, ScanPlain
  <2>2. at[i] \in Nat /\ at[i] >= b
    BY <1>4, <1>5
  <2>3. ~(s.spec \/ s.pos < BufSize - 1)
    BY <1>2, <1>6, <1>7
  <2> QED BY <1>1, <1>2, <1>6, <1>7, <2>1, <2>2, <2>3 DEF Fits
<1>8. CASE ~s.spec /\ s.pos < last
  <2>1. ~open[i - 1]
    BY <1>2, <1>6, <1>8 DEF Fits
  <2>4. t.arg = NextArg(nth[i])
    <3>1. Scan(args, s, msg[i], last).arg = s.arg
      BY <1>6, <1>8, ScanPlain
    <3>2. nth[i] = n
      BY <1>10, <2>1
    <3> QED BY <1>1, <1>2, <1>8, <1>11, <3>1, <3>2
  <2>2. CASE msg[i] = "%"
    <3>1. open[i] /\ at[i] = b + Need(msg, i, nth[i])
      BY <1>4, <2>1, <2>2
    <3>2. IsState(Scan(args, s, msg[i], last))
          /\ Scan(args, s, msg[i], last).spec /\ Scan(args, s, msg[i], last).pos = s.pos
      BY <1>6, <1>8, <2>2, ScanPlain
    <3>3. IsState(t) /\ t.spec /\ t.pos = s.pos
      BY <1>1, <1>2, <3>2
    <3>4. s.pos + Need(msg, i, nth[i]) <= at[i] /\ s.pos <= at[i] /\ s.pos < BufSize
      BY <1>2, <1>3, <1>5, <1>6, <3>1
    <3> QED BY <1>1, <1>5, <2>4, <3>1, <3>3, <3>4 DEF Fits
  <2>3. CASE msg[i] # "%"
    <3>1. ~open[i] /\ at[i] = b + 1
      BY <1>4, <2>1, <2>3
    <3>2. IsState(Scan(args, s, msg[i], last))
          /\ ~Scan(args, s, msg[i], last).spec /\ Scan(args, s, msg[i], last).pos = s.pos + 1
      BY <1>6, <1>8, <2>3, ScanPlain
    <3>3. IsState(t) /\ ~t.spec /\ t.pos = s.pos + 1
      BY <1>1, <1>2, <3>2
    <3>4. s.pos + 1 <= at[i] /\ s.pos + 1 < BufSize
      BY <1>2, <1>6, <1>8, <3>1
    <3> QED BY <1>1, <2>4, <3>1, <3>3, <3>4 DEF Fits
  <2> QED BY <2>2, <2>3
<1>9. CASE s.spec
  <2>1. open[i - 1] /\ Need(msg, i - 1, nth[i - 1]) \in Nat /\ s.pos + Need(msg, i - 1, nth[i - 1]) <= b
    BY <1>3, <1>9 DEF Fits
  <2>2. ~open[i] /\ at[i] = b /\ b < BufSize
    BY <1>4, <2>1
  <2>3. Need(msg, i - 1, nth[i - 1]) =
          IF msg[i] = "%" THEN 1
          ELSE IF ~Conversion(msg[i]) THEN 2
          ELSE IF s.arg <= MaxArgs THEN Width[msg[i]] ELSE Len(Missing)
    <3>1. (i - 1) + 1 = i
      OBVIOUS
    <3>2. nth[i - 1] < MaxArgs <=> s.arg <= MaxArgs
      BY <1>9, <1>10, <1>11, KlogAssumption DEF NextArg
    <3> QED BY <3>1, <3>2 DEF Need
  <2>4. PICK room \in Nat : room = Need(msg, i - 1, nth[i - 1])
    BY <2>1
  <2>5. IsState(Scan(args, s, msg[i], last)) /\ ~Scan(args, s, msg[i], last).spec
        /\ Scan(args, s, msg[i], last).pos <= s.pos + room
        /\ Scan(args, s, msg[i], last).arg =
             s.arg + (IF Conversion(msg[i]) /\ s.arg <= MaxArgs THEN 1 ELSE 0)
    BY <1>6, <1>9, <2>3, <2>4, ScanSpec
  <2>6. /\ IsState(t) /\ ~t.spec /\ t.pos <= s.pos + room
        /\ t.arg = s.arg + (IF Conversion(msg[i]) /\ s.arg <= MaxArgs THEN 1 ELSE 0)
    BY <1>1, <1>2, <2>5
  <2>7. t.pos \in Nat
    BY <2>6 DEF IsState
  <2>8. t.pos < BufSize /\ t.pos <= at[i]
    BY <1>2, <1>6, <2>1, <2>2, <2>4, <2>6, <2>7
  <2>9. t.arg = NextArg(nth[i])
    <3>1. nth[i] = n + (IF Conversion(msg[i]) THEN 1 ELSE 0)
      BY <1>10, <2>1
    <3> QED BY <1>9, <1>11, <2>6, <3>1, KlogAssumption DEF NextArg
  <2> QED BY <1>1, <2>2, <2>6, <2>8, <2>9 DEF Fits
<1> QED BY <1>6, <1>7, <1>8, <1>9

(* The line of a message that fits has its 0, and no '%' is left open.     *)
LEMMA FormatFits ==
  ASSUME NEW e \in Events, NEW open, NEW nth, NEW at, Layout(e.msg, open, nth, at)
  PROVE  Format(e).pos < BufSize /\ ~Format(e).spec
<1>1. Len(e.msg) \in Nat
  BY KlogAssumption
<1>2. PICK f : f = CHOOSE g : g = [i \in 0..Len(e.msg) |-> Stepped(e, g, i)]
  OBVIOUS
<1>3. Format(e) = f[Len(e.msg)]
  BY <1>2 DEF Format, Stepped
<1>4. f = [i \in 0..Len(e.msg) |-> Stepped(e, f, i)]
  BY <1>1, <1>2, SteppedExists
<1> DEFINE A == {n \in 0..Len(e.msg) : Fits(f[n], e.msg, open, nth, at, n)}
<1>5. 0 \in A
  <2>1. PICK s : s = Start
    OBVIOUS
  <2>2. f[0] = s
    BY <1>1, <1>4, <2>1 DEF Stepped
  <2>3. IsState(s) /\ s.pos = 0 /\ s.arg = 1 /\ ~s.spec
    BY <2>1 DEF Start, IsState
  <2>4. at[0] = 0 /\ nth[0] = 0 /\ ~open[0]
    BY DEF Layout
  <2>5. Fits(s, e.msg, open, nth, at, 0)
    BY <2>3, <2>4, KlogAssumption DEF Fits, NextArg
  <2> QED BY <1>1, <2>2, <2>5
<1>6. ASSUME NEW n \in 0..Len(e.msg), n \in A, n < Len(e.msg) PROVE n + 1 \in A
  <2>1. PICK i \in 1..Len(e.msg) : i = n + 1 /\ i - 1 = n /\ i \in 0..Len(e.msg) /\ i # 0
    BY <1>1, <1>6
  <2>2. f[i] = Scan(e.args, f[i - 1], e.msg[i], BufSize - 1)
    BY <1>4, <2>1 DEF Stepped
  <2>3. Fits(f[i - 1], e.msg, open, nth, at, i - 1)
    BY <1>6, <2>1
  <2>4. Fits(f[i], e.msg, open, nth, at, i)
    BY <1>1, <2>1, <2>2, <2>3, FitsStep
  <2> QED BY <2>1, <2>4
<1>7. Len(e.msg) \in A
  <2>1. \A n \in 0..Len(e.msg) : n \in A
    <3> HIDE DEF A
    <3> QED BY <1>1, <1>5, <1>6, ReachAll
  <2> QED BY <1>1, <2>1
<1>8. ~open[Len(e.msg)]
  <2>1. CASE Len(e.msg) = 0
    BY <2>1 DEF Layout
  <2>2. CASE Len(e.msg) # 0
    <3>1. PICK n \in 1..Len(e.msg) : n = Len(e.msg)
      BY <1>1, <2>2
    <3>2. open[n] => n < Len(e.msg)
      BY <3>1 DEF Layout
    <3> QED BY <1>1, <3>1, <3>2
  <2> QED BY <2>1, <2>2
<1> QED BY <1>3, <1>7, <1>8 DEF Fits

(* The reading of KlogTypeOK.                                              *)
LEMMA RingGivesTypes == RingInv => KlogTypeOK
<1> SUFFICES ASSUME RingInv PROVE KlogTypeOK
  OBVIOUS
<1>1. RingTypes /\ RingIds /\ WriterInv /\ ReaderInv /\ SpaceInv
  BY DEF RingInv
<1>2. ring \in Seq(RecordSet) /\ Len(ring) \in Nat
  BY <1>1 DEF RingTypes
<1>3. nextId \in 1..(MaxEvents + 1) /\ twice \subseteq 1..MaxEvents
      /\ io \in {"down", "posted", "wait", "consume", "advance", "ended", "dead"}
  BY <1>1 DEF RingTypes, ReaderInv
<1>4. Used < RingSize
  BY <1>1, UsedIsRoom DEF SpaceInv
<1>5. ASSUME NEW r \in Records, ~r.ready
      PROVE  Cardinality({c \in Cpus : writing[c] = r.id}) = 1
  <2>1. PICK i \in 1..Len(ring) : r = ring[i]
    BY <1>2, <1>5 DEF Records
  <2>2. PICK c \in Cpus : writing[c] = r.id
    BY <1>1, <1>5, <2>1 DEF WriterInv
  <2>3. r.id # NoRecord
    <3>1. ring[i] \in RecordSet
      BY <1>2
    <3>2. r.id \in Nat
      BY <2>1, <3>1 DEF RecordSet
    <3> QED BY <3>2, KlogAssumption
  <2>4. {d \in Cpus : writing[d] = r.id} = {c}
    BY <1>1, <2>2, <2>3 DEF WriterInv
  <2> QED BY <2>4, FS_Singleton
<1>6. io = "advance" /\ alive => ring # <<>> /\ Head(ring).ready
  <2>1. io = "advance" /\ alive => Len(ring) # 0 /\ ring[1].ready
    BY <1>1 DEF ReaderInv
  <2>2. Len(ring) # 0 => ring # <<>> /\ Head(ring) = ring[1]
    BY <1>2
  <2> QED BY <2>1, <2>2
<1> QED BY <1>3, <1>4, <1>5, <1>6 DEF KlogTypeOK

(* If every message fits, the ring and the buffer for a line are kept      *)
(* within their sizes (klog_helpers.bpf.h 34-54, klog.cc 65-142).          *)
THEOREM KlogSafety == ASSUME MessagesFit PROVE KlogSpec => []KlogInv
<1>1. KlogInit => RingInv
  BY RingInit
<1>2. RingInv /\ [KlogNext]_klogVars => RingInv'
  BY RingNext
<1>3. RingInv => WithinBuffers
  <2> SUFFICES ASSUME RingInv, NEW l \in Lines PROVE l.zero < BufSize /\ ~l.past
    BY DEF WithinBuffers
  <2>1. l \in LineSet
    BY DEF RingInv, RingTypes, Lines
  <2>2. l.event \in Events /\ l.zero = Formatted[l.event].pos /\ l.past = Formatted[l.event].spec
    BY <2>1, LineFacts
  <2>3. PICK e \in Events : e = l.event /\ Formatted[e] = Format(e)
    BY <2>2 DEF Formatted
  <2>4. PICK open, nth, at : Layout(e.msg, open, nth, at)
    BY DEF MessagesFit
  <2>5. Format(e).pos < BufSize /\ ~Format(e).spec
    BY <2>4, FormatFits
  <2> QED BY <2>2, <2>3, <2>5
<1>4. RingInv => KlogInv
  BY <1>3, RingGivesTypes DEF KlogInv
<1> QED BY <1>1, <1>2, <1>4, PTL DEF KlogSpec
=============================================================================
