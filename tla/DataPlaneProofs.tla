--------------------------- MODULE DataPlaneProofs ---------------------------
(* Theorems about DataPlane, for any configuration files, packets and      *)
(* chains, and tables of any size.                                         *)
EXTENDS DataPlane, FiniteSetTheorems, TLAPS

-----------------------------------------------------------------------------
(* The inductive invariant of the ACL's update.                            *)

AllRules == UNION {Elements(AclParse(file)) : file \in AclFiles}

JobFields == {"pc", "keys", "rules", "success"}

AclTypeInv ==
  /\ aclJob = AclIdle \/ (DOMAIN aclJob = JobFields /\ aclJob.pc \in {"clear", "insert"})
  /\ aclRules \in Seq(AllRules) /\ aclConf \in Seq(AllRules) /\ aclBefore \in Seq(AllRules)
  /\ aclJob # AclIdle => aclJob.rules \in Seq(AllRules)

(* The table is within its limit and its actions are actions.              *)
TableTypeInv ==
  /\ aclTable = [k \in DOMAIN aclTable |-> aclTable[k]]
  /\ \A k \in DOMAIN aclTable : aclTable[k] \in {"DROP", "ACCEPT"}
  /\ IsFiniteSet(DOMAIN aclTable) /\ Cardinality(DOMAIN aclTable) \in 0..AclMaxEntries

(* Rule n is the last one for tuple k.                                     *)
IsLast(rules, n, k) ==
  /\ Tuple(rules[n]) = k
  /\ \A m \in (n + 1)..Len(rules) : Tuple(rules[m]) # k

(* Every entry of the table comes from the last rule for its tuple, and    *)
(* while the table is not being emptied every rule has its entry.          *)
TableInv ==
  /\ \A k \in DOMAIN aclTable :
       \E n \in 1..Len(aclRules) : IsLast(aclRules, n, k) /\ aclTable[k] = aclRules[n].action
  /\ aclJob.pc # "clear" => DOMAIN aclTable = {Tuple(r) : r \in Elements(aclRules)}

(* Where the rules come from: the table is emptied of those in force       *)
(* before, and filled with those of the configuration.                     *)
SourceInv ==
  /\ aclJob.pc = "clear" =>
       /\ aclJob.keys = DOMAIN aclTable /\ aclBefore = aclRules
       /\ aclJob.rules = aclConf /\ aclJob.success = 0
  /\ aclJob.pc # "clear" => Elements(aclRules) \subseteq Elements(aclConf)
  /\ aclJob.pc = "insert" => Elements(aclJob.rules) \subseteq Elements(aclConf)

(* A valid rule of the configuration is still to come, in the table, or    *)
(* kept out by a limit.                                                    *)
ToCome(r) == aclJob.pc = "insert" /\ r \in Elements(aclJob.rules)

ConfInv ==
  /\ aclJob.pc = "insert" =>
       /\ aclJob.success = Len(aclRules)
       /\ aclJob.rules # <<>> => aclJob.success < AclMaxRules
  /\ aclJob.pc # "clear" =>
       \A r \in Elements(aclConf) :
         AclValid(r) => \/ ToCome(r)
                        \/ Tuple(r) \in DOMAIN aclTable
                        \/ Cardinality(DOMAIN aclTable) = AclMaxEntries
                        \/ Len(aclRules) = AclMaxRules

AclInv == AclTypeInv /\ TableTypeInv /\ TableInv /\ SourceInv /\ ConfInv

-----------------------------------------------------------------------------
(* Operators                                                               *)

(* What follows an append: the old elements and the new one.               *)
LEMMA AppendElements ==
  ASSUME NEW S, NEW q \in Seq(S), NEW e \in S
  PROVE  /\ Append(q, e) \in Seq(S) /\ Len(Append(q, e)) = Len(q) + 1
         /\ \A n \in 1..Len(q) : Append(q, e)[n] = q[n]
         /\ Append(q, e)[Len(q) + 1] = e
         /\ Elements(Append(q, e)) = Elements(q) \cup {e}
<1>1. /\ Append(q, e) \in Seq(S) /\ Len(Append(q, e)) = Len(q) + 1 /\ Len(q) \in Nat
      /\ \A n \in 1..Len(q) : Append(q, e)[n] = q[n]
      /\ Append(q, e)[Len(q) + 1] = e
  OBVIOUS
<1>2. 1..(Len(q) + 1) = (1..Len(q)) \cup {Len(q) + 1}
  BY <1>1
<1>3. Elements(Append(q, e)) = Elements(q) \cup {e}
  BY <1>1, <1>2, Zenon DEF Elements
<1> QED BY <1>1, <1>3

(* Head and tail of a list of rules.                                       *)
LEMMA HeadTail ==
  ASSUME NEW S, NEW q \in Seq(S), q # <<>>
  PROVE  /\ Head(q) \in S /\ Head(q) \in Elements(q) /\ Tail(q) \in Seq(S)
         /\ \A e \in Elements(q) : e = Head(q) \/ e \in Elements(Tail(q))
         /\ Elements(Tail(q)) \subseteq Elements(q)
<1>1. /\ Len(q) \in Nat /\ Len(q) >= 1 /\ Head(q) = q[1] /\ q[1] \in S
      /\ Tail(q) \in Seq(S) /\ Len(Tail(q)) = Len(q) - 1
      /\ \A n \in 1..Len(Tail(q)) : Tail(q)[n] = q[n + 1]
  OBVIOUS
<1>2. 1 \in 1..Len(q)
  BY <1>1
<1>3. ASSUME NEW n \in 1..Len(q) PROVE q[n] = Head(q) \/ q[n] \in Elements(Tail(q))
  <2>1. n = 1 \/ n - 1 \in 1..Len(Tail(q))
    BY <1>1
  <2>2. CASE n - 1 \in 1..Len(Tail(q))
    <3>1. Tail(q)[n - 1] = q[n]
      BY <1>1, <2>2
    <3> QED BY <2>2, <3>1 DEF Elements
  <2> QED BY <1>1, <2>1, <2>2
<1>4. ASSUME NEW n \in 1..Len(Tail(q)) PROVE Tail(q)[n] \in Elements(q)
  <2>1. n + 1 \in 1..Len(q) /\ Tail(q)[n] = q[n + 1]
    BY <1>1
  <2> QED BY <2>1 DEF Elements
<1>5. Head(q) \in Elements(q)
  BY <1>1, <1>2 DEF Elements
<1>6. \A e \in Elements(q) : e = Head(q) \/ e \in Elements(Tail(q))
  BY <1>3 DEF Elements
<1>7. Elements(Tail(q)) \subseteq Elements(q)
  BY <1>4 DEF Elements
<1> QED BY <1>1, <1>5, <1>6, <1>7

(* The elements of a sequence over a set are in the set.                   *)
LEMMA ElementsIn ==
  ASSUME NEW S, NEW q \in Seq(S)
  PROVE  Elements(q) \subseteq S
BY DEF Elements

(* A rule that was read has one of the three actions (acl_rules.cc).       *)
LEMMA RuleAction ==
  ASSUME NEW r \in AllRules
  PROVE  r.action \in {"DROP", "ACCEPT", "UNKNOWN"}
<1>0. PICK file \in AclFiles : r \in Elements(AclParse(file))
  BY DEF AllRules
<1>1. PICK k \in 1..Len(AclParse(file)) : r = AclParse(file)[k]
  BY <1>0 DEF Elements
<1>2. Len(file) \in Nat
  BY AclAssumption
<1>3. Len(AclParse(file)) = Len(file)
  BY <1>2 DEF AclParse
<1>4. r = AclRule(file[k])
  BY <1>1, <1>3 DEF AclParse
<1>5. PICK q : q = [f \in DOMAIN AclDefaults |->
                      IF f \in DOMAIN file[k] THEN file[k][f] ELSE AclDefaults[f]]
  OBVIOUS
<1>6. r = [q EXCEPT !.protocol = IF @ \in {"TCP", "UDP"} THEN @ ELSE "UNKNOWN",
                    !.action = IF @ \in {"DROP", "ACCEPT"} THEN @ ELSE "UNKNOWN"]
  BY <1>4, <1>5, Zenon DEF AclRule
<1>7. "action" \in DOMAIN q
  BY <1>5 DEF AclDefaults
<1>8. r.action = IF q.action \in {"DROP", "ACCEPT"} THEN q.action ELSE "UNKNOWN"
  BY <1>6, <1>7
<1> QED BY <1>8

(* The file is read into a sequence of rules.                              *)
LEMMA ParseSeq ==
  ASSUME NEW file \in AclFiles
  PROVE  AclParse(file) \in Seq(AllRules)
<1>1. Len(file) \in Nat
  BY AclAssumption
<1>2. Len(AclParse(file)) = Len(file) /\ DOMAIN AclParse(file) = 1..Len(file)
  BY <1>1 DEF AclParse
<1>3. \A k \in 1..Len(file) : AclParse(file)[k] \in AllRules
  BY <1>2 DEF AllRules, Elements
<1>4. AclParse(file) = [k \in 1..Len(file) |-> AclParse(file)[k]]
  BY DEF AclParse
<1> QED BY <1>1, <1>3, <1>4

(* The entries of the table are those of TableOf: the last rule for a      *)
(* tuple is the only one LastAction can choose.                            *)
LEMMA TableIsTableOf ==
  ASSUME aclRules \in Seq(AllRules), TableInv, aclJob.pc # "clear",
         aclTable = [k \in DOMAIN aclTable |-> aclTable[k]]
  PROVE  aclTable = TableOf(aclRules)
<1>1. ASSUME NEW k \in DOMAIN aclTable PROVE aclTable[k] = LastAction(aclRules, k)
  <2>1. PICK n \in 1..Len(aclRules) : IsLast(aclRules, n, k) /\ aclTable[k] = aclRules[n].action
    BY <1>1 DEF TableInv
  <2>2. \A i \in 1..Len(aclRules) : IsLast(aclRules, i, k) => i = n
    <3>1. SUFFICES ASSUME NEW i \in 1..Len(aclRules), IsLast(aclRules, i, k), i # n PROVE FALSE
      OBVIOUS
    <3>2. i \in (n + 1)..Len(aclRules) \/ n \in (i + 1)..Len(aclRules)
      BY <3>1
    <3> QED BY <2>1, <3>1, <3>2 DEF IsLast
  <2>3. (CHOOSE i \in 1..Len(aclRules) : IsLast(aclRules, i, k)) = n
    BY <2>1, <2>2
  <2> QED BY <2>1, <2>3, Zenon DEF LastAction, IsLast
<1>2. DOMAIN aclTable = {Tuple(r) : r \in Elements(aclRules)}
  BY DEF TableInv
<1> QED BY <1>1, <1>2, Zenon DEF TableOf

-----------------------------------------------------------------------------
(* Steps of the ACL's update                                               *)

(* An update begins: the rules in force are those of before, and every key *)
(* of the table is to be deleted.                                          *)
LEMMA AclUpdateKeeps ==
  ASSUME AclInv, NEW file \in AclFiles, AclUpdate(file)
  PROVE  AclInv'
<1>1. /\ DOMAIN aclJob' = JobFields /\ aclJob'.pc = "clear" /\ aclJob'.keys = DOMAIN aclTable
      /\ aclJob'.rules = AclParse(file) /\ aclJob'.success = 0 /\ aclJob.pc = "idle"
      /\ aclConf' = AclParse(file) /\ aclBefore' = aclRules
      /\ aclTable' = aclTable /\ aclRules' = aclRules
  BY DEF AclUpdate, JobFields, AclIdle
<1>2. AclTypeInv'
  BY <1>1, ParseSeq DEF AclInv, AclTypeInv
<1>3. TableTypeInv'
  BY <1>1 DEF AclInv, TableTypeInv
<1>4. TableInv' /\ SourceInv' /\ ConfInv'
  BY <1>1 DEF AclInv, TableInv, SourceInv, ConfInv, IsLast
<1> QED BY <1>2, <1>3, <1>4 DEF AclInv

(* A key is deleted: what is left is as it was.                            *)
LEMMA AclDeleteKeyKeeps ==
  ASSUME AclInv, AclDeleteKey
  PROVE  AclInv'
<1>1. PICK k \in aclJob.keys :
        /\ aclTable' = [x \in DOMAIN aclTable \ {k} |-> aclTable[x]]
        /\ aclJob' = [aclJob EXCEPT !.keys = @ \ {k}]
  BY DEF AclDeleteKey
<1>2. /\ aclJob.pc = "clear" /\ aclJob # AclIdle /\ DOMAIN aclJob = JobFields
      /\ aclRules' = aclRules /\ aclConf' = aclConf /\ aclBefore' = aclBefore
  BY DEF AclDeleteKey, AclInv, AclTypeInv, AclIdle
<1>3. /\ DOMAIN aclJob' = JobFields /\ aclJob'.pc = "clear" /\ aclJob'.keys = aclJob.keys \ {k}
      /\ aclJob'.rules = aclJob.rules /\ aclJob'.success = aclJob.success
  BY <1>1, <1>2, Zenon DEF JobFields
<1>4. aclJob.keys = DOMAIN aclTable /\ DOMAIN aclTable' = DOMAIN aclTable \ {k}
  BY <1>1, <1>2 DEF AclInv, SourceInv
<1>5. AclTypeInv'
  BY <1>2, <1>3 DEF AclInv, AclTypeInv, AclIdle
<1>6. TableTypeInv'
  <2>1. /\ IsFiniteSet(DOMAIN aclTable')
        /\ Cardinality(DOMAIN aclTable') = Cardinality(DOMAIN aclTable) - 1
    BY <1>4, FS_RemoveElement DEF AclInv, TableTypeInv
  <2>2. Cardinality(DOMAIN aclTable') \in Nat
    BY <2>1, FS_CardinalityType
  <2>3. Cardinality(DOMAIN aclTable') \in 0..AclMaxEntries
    BY <2>1, <2>2, AclAssumption DEF AclInv, TableTypeInv
  <2>4. aclTable' = [x \in DOMAIN aclTable' |-> aclTable'[x]]
    BY <1>1
  <2>5. \A x \in DOMAIN aclTable' : aclTable'[x] \in {"DROP", "ACCEPT"}
    BY <1>1 DEF AclInv, TableTypeInv
  <2> QED BY <2>1, <2>3, <2>4, <2>5 DEF TableTypeInv
<1>7. TableInv'
  <2>1. \A x \in DOMAIN aclTable' : x \in DOMAIN aclTable /\ aclTable'[x] = aclTable[x]
    BY <1>1
  <2> QED BY <1>2, <1>3, <2>1 DEF AclInv, TableInv, IsLast
<1>8. SourceInv' /\ ConfInv'
  BY <1>2, <1>3, <1>4 DEF AclInv, SourceInv, ConfInv
<1> QED BY <1>5, <1>6, <1>7, <1>8 DEF AclInv

(* The table is empty when rules_ is cleared.                              *)
LEMMA AclClearRulesKeeps ==
  ASSUME AclInv, AclClearRules
  PROVE  AclInv'
<1>1. /\ aclJob.pc = "clear" /\ DOMAIN aclJob = JobFields /\ DOMAIN aclTable = {}
      /\ aclRules' = <<>> /\ aclConf' = aclConf /\ aclBefore' = aclBefore /\ aclTable' = aclTable
      /\ aclJob' = [aclJob EXCEPT !.pc = "insert"]
  BY DEF AclClearRules, AclInv, AclTypeInv, SourceInv, AclIdle
<1>2. /\ DOMAIN aclJob' = JobFields /\ aclJob'.pc = "insert"
      /\ aclJob'.rules = aclJob.rules /\ aclJob'.success = aclJob.success
  BY <1>1, Zenon DEF JobFields
<1>3. aclJob'.rules = aclConf /\ aclJob'.success = 0
  BY <1>1, <1>2 DEF AclInv, SourceInv
<1>4. Elements(aclRules') = {} /\ aclRules' \in Seq(AllRules) /\ Len(aclRules') = 0
  BY <1>1 DEF Elements
<1>5. AclTypeInv'
  BY <1>1, <1>2, <1>3, <1>4 DEF AclInv, AclTypeInv, AclIdle
<1>6. TableTypeInv'
  BY <1>1 DEF AclInv, TableTypeInv
<1>7. TableInv' /\ SourceInv'
  BY <1>1, <1>2, <1>3, <1>4 DEF TableInv, SourceInv
<1>8. ConfInv'
  BY <1>1, <1>2, <1>3, <1>4, AclAssumption DEF ConfInv, ToCome
<1> QED BY <1>5, <1>6, <1>7, <1>8 DEF AclInv

(* The last rule is in: no valid one is to come.                           *)
LEMMA AclUpdatedKeeps ==
  ASSUME AclInv, AclUpdated
  PROVE  AclInv'
<1>1. /\ aclJob.pc = "insert" /\ aclJob.rules = <<>> /\ aclJob' = AclIdle
      /\ aclRules' = aclRules /\ aclConf' = aclConf /\ aclBefore' = aclBefore
      /\ aclTable' = aclTable /\ aclJob'.pc = "idle"
  BY DEF AclUpdated, AclIdle
<1>2. \A r : ~ToCome(r)
  BY <1>1 DEF ToCome, Elements
<1>3. AclTypeInv' /\ TableTypeInv'
  BY <1>1 DEF AclInv, AclTypeInv, TableTypeInv
<1>4. TableInv' /\ SourceInv'
  BY <1>1 DEF AclInv, TableInv, SourceInv, IsLast
<1>5. ConfInv'
  BY <1>1, <1>2 DEF AclInv, ConfInv
<1> QED BY <1>3, <1>4, <1>5 DEF AclInv

(* A rule that is not inserted is not valid or meets a full table.         *)
LEMMA AclSkipRuleKeeps ==
  ASSUME AclInv, aclJob.pc = "insert", aclJob.rules # <<>>,
         ~AclValid(Head(aclJob.rules)) \/ ~AclFits(Tuple(Head(aclJob.rules))),
         aclJob' = [aclJob EXCEPT !.rules = Tail(@)],
         UNCHANGED <<aclTable, aclRules, aclConf, aclBefore>>
  PROVE  AclInv'
<1>1. DOMAIN aclJob = JobFields /\ aclJob.rules \in Seq(AllRules)
  BY DEF AclInv, AclTypeInv, AclIdle
<1>2. /\ DOMAIN aclJob' = JobFields /\ aclJob'.pc = "insert"
      /\ aclJob'.rules = Tail(aclJob.rules) /\ aclJob'.success = aclJob.success
  BY <1>1, Zenon DEF JobFields
<1>3. AclTypeInv' /\ TableTypeInv'
  BY <1>1, <1>2, HeadTail DEF AclInv, AclTypeInv, TableTypeInv, AclIdle
<1>4. TableInv'
  BY <1>2 DEF AclInv, TableInv, IsLast
<1>6. SourceInv'
  BY <1>1, <1>2, HeadTail DEF AclInv, SourceInv
<1>5. ConfInv'
  <2>1. ASSUME NEW r, AclValid(r), ToCome(r)
        PROVE  \/ ToCome(r)'
               \/ Tuple(r) \in DOMAIN aclTable
               \/ Cardinality(DOMAIN aclTable) = AclMaxEntries
    <3>1. r = Head(aclJob.rules) \/ r \in Elements(Tail(aclJob.rules))
      BY <1>1, <2>1, HeadTail DEF ToCome
    <3>2. CASE r \in Elements(Tail(aclJob.rules))
      BY <1>2, <3>2 DEF ToCome
    <3>3. CASE r = Head(aclJob.rules)
      <4>1. ~AclFits(Tuple(r))
        BY <2>1, <3>3
      <4> QED BY <4>1, AclAssumption DEF AclFits, AclInv, TableTypeInv
    <3> QED BY <3>1, <3>2, <3>3
  <2>2. aclJob.success = Len(aclRules) /\ aclJob.success < AclMaxRules
    BY DEF AclInv, ConfInv
  <2> QED BY <1>2, <2>1, <2>2 DEF AclInv, ConfInv
<1> QED BY <1>3, <1>4, <1>5, <1>6 DEF AclInv

(* A rule that is inserted is the last one for its tuple.                  *)
LEMMA AclAddRuleKeeps ==
  ASSUME AclInv, aclJob.pc = "insert", aclJob.rules # <<>>,
         NEW rule, rule = Head(aclJob.rules), NEW k, k = Tuple(rule),
         AclValid(rule), AclFits(k),
         aclTable' = [x \in DOMAIN aclTable \cup {k} |->
                        IF x = k THEN rule.action ELSE aclTable[x]],
         aclRules' = Append(aclRules, rule),
         aclJob' = [aclJob EXCEPT !.success = @ + 1,
                      !.rules = IF aclJob.success + 1 >= AclMaxRules THEN <<>> ELSE Tail(@)],
         UNCHANGED <<aclConf, aclBefore>>
  PROVE  AclInv'
<1>1. /\ DOMAIN aclJob = JobFields /\ aclJob.rules \in Seq(AllRules)
      /\ aclRules \in Seq(AllRules) /\ rule \in AllRules
      /\ rule \in Elements(aclJob.rules)
  BY HeadTail DEF AclInv, AclTypeInv, AclIdle
<1>2. PICK left : left = IF aclJob.success + 1 >= AclMaxRules THEN <<>> ELSE Tail(aclJob.rules)
  OBVIOUS
<1>3. /\ DOMAIN aclJob' = JobFields /\ aclJob'.pc = "insert"
      /\ aclJob'.rules = left /\ aclJob'.success = aclJob.success + 1
  BY <1>1, <1>2, Zenon DEF JobFields
<1>4. left \in Seq(AllRules)
  BY <1>1, <1>2, HeadTail
<1>5. /\ aclRules' \in Seq(AllRules) /\ Len(aclRules') = Len(aclRules) + 1
      /\ \A n \in 1..Len(aclRules) : aclRules'[n] = aclRules[n]
      /\ aclRules'[Len(aclRules) + 1] = rule
      /\ Elements(aclRules') = Elements(aclRules) \cup {rule}
      /\ Len(aclRules) \in Nat
  BY <1>1, AppendElements
<1>6. /\ DOMAIN aclTable' = DOMAIN aclTable \cup {k} /\ aclTable'[k] = rule.action
      /\ \A x \in DOMAIN aclTable : x # k => aclTable'[x] = aclTable[x]
  OBVIOUS
<1>7. AclTypeInv'
  BY <1>3, <1>4, <1>5 DEF AclInv, AclTypeInv, AclIdle
<1>8. /\ IsFiniteSet(DOMAIN aclTable') /\ Cardinality(DOMAIN aclTable') \in 0..AclMaxEntries
      /\ Cardinality(DOMAIN aclTable) = AclMaxEntries =>
           Cardinality(DOMAIN aclTable') = AclMaxEntries
  <2>1. CASE k \in DOMAIN aclTable
    <3>1. DOMAIN aclTable' = DOMAIN aclTable
      BY <1>6, <2>1
    <3> QED BY <3>1 DEF AclInv, TableTypeInv
  <2>2. CASE k \notin DOMAIN aclTable
    <3>1. /\ IsFiniteSet(DOMAIN aclTable')
          /\ Cardinality(DOMAIN aclTable') = Cardinality(DOMAIN aclTable) + 1
      BY <1>6, <2>2, FS_AddElement DEF AclInv, TableTypeInv
    <3> QED BY <2>2, <3>1, AclAssumption DEF AclInv, TableTypeInv, AclFits
  <2> QED BY <2>1, <2>2
<1>9. TableTypeInv'
  <2>1. rule.action \in {"DROP", "ACCEPT"}
    BY <1>1, RuleAction DEF AclValid
  <2>2. \A x \in DOMAIN aclTable' : aclTable'[x] \in {"DROP", "ACCEPT"}
    BY <1>6, <2>1 DEF AclInv, TableTypeInv
  <2>3. aclTable' = [x \in DOMAIN aclTable' |-> aclTable'[x]]
    BY <1>6
  <2> QED BY <1>8, <2>2, <2>3 DEF TableTypeInv
<1>10. TableInv'
  <2>1. ASSUME NEW x \in DOMAIN aclTable'
        PROVE  \E n \in 1..Len(aclRules') :
                 IsLast(aclRules', n, x) /\ aclTable'[x] = aclRules'[n].action
    <3>1. CASE x = k
      <4>1. Len(aclRules') \in 1..Len(aclRules') /\ aclRules'[Len(aclRules')] = rule
        BY <1>5
      <4>2. \A m \in (Len(aclRules') + 1)..Len(aclRules') : FALSE
        BY <1>5
      <4> QED BY <1>6, <3>1, <4>1, <4>2 DEF IsLast
    <3>2. CASE x # k
      <4>1. x \in DOMAIN aclTable /\ aclTable'[x] = aclTable[x]
        BY <1>6, <3>2
      <4>2. PICK n \in 1..Len(aclRules) :
              IsLast(aclRules, n, x) /\ aclTable[x] = aclRules[n].action
        BY <4>1 DEF AclInv, TableInv
      <4>3. n \in 1..Len(aclRules') /\ aclRules'[n] = aclRules[n]
        BY <1>5
      <4>4. ASSUME NEW m \in (n + 1)..Len(aclRules') PROVE Tuple(aclRules'[m]) # x
        <5>1. m \in (n + 1)..Len(aclRules) \/ m = Len(aclRules) + 1
          BY <1>5
        <5>2. CASE m \in (n + 1)..Len(aclRules)
          <6>1. aclRules'[m] = aclRules[m]
            BY <1>5, <5>2
          <6> QED BY <4>2, <5>2, <6>1 DEF IsLast
        <5>3. CASE m = Len(aclRules) + 1
          BY <1>5, <3>2, <5>3
        <5> QED BY <5>1, <5>2, <5>3
      <4> QED BY <4>1, <4>2, <4>3, <4>4 DEF IsLast
    <3> QED BY <3>1, <3>2
  <2>2. DOMAIN aclTable' = {Tuple(r) : r \in Elements(aclRules')}
    <3>1. DOMAIN aclTable = {Tuple(r) : r \in Elements(aclRules)}
      BY DEF AclInv, TableInv
    <3> QED BY <1>5, <1>6, <3>1
  <2> QED BY <2>1, <2>2 DEF TableInv
<1>11. SourceInv'
  <2>1. rule \in Elements(aclConf)
    BY <1>1 DEF AclInv, SourceInv
  <2>2. Elements(left) \subseteq Elements(aclJob.rules)
    <3>1. Elements(<<>>) = {}
      BY DEF Elements
    <3> QED BY <1>1, <1>2, <3>1, HeadTail
  <2> QED BY <1>3, <1>5, <2>1, <2>2 DEF AclInv, SourceInv
<1>12. ConfInv'
  <2>1. /\ aclJob.success = Len(aclRules) /\ aclJob.success < AclMaxRules
    BY DEF AclInv, ConfInv
  <2>2. aclJob'.success = Len(aclRules')
    BY <1>3, <1>5, <2>1
  <2>3. left # <<>> => aclJob'.success < AclMaxRules
    BY <1>2, <1>3, <1>5, <2>1, AclAssumption
  <2>4. aclJob.success + 1 >= AclMaxRules => Len(aclRules') = AclMaxRules
    BY <1>5, <2>1, AclAssumption
  <2>5. ASSUME NEW r, ToCome(r)
        PROVE  ToCome(r)' \/ Tuple(r) \in DOMAIN aclTable' \/ Len(aclRules') = AclMaxRules
    <3>1. r = rule \/ r \in Elements(Tail(aclJob.rules))
      BY <1>1, <2>5, HeadTail DEF ToCome
    <3> QED BY <1>2, <1>3, <1>6, <2>4, <3>1 DEF ToCome
  <2> QED BY <1>3, <1>6, <1>8, <2>1, <2>2, <2>3, <2>5 DEF AclInv, ConfInv
<1> QED BY <1>7, <1>9, <1>10, <1>11, <1>12 DEF AclInv

(* Every step keeps the invariant of the ACL's update; packets and the     *)
(* load balancer do not touch its state.                                   *)
LEMMA AclStep ==
  ASSUME AclInv, [PlaneNext]_planeVars
  PROVE  AclInv'
<1>1. CASE UNCHANGED aclVars
  BY <1>1 DEF aclVars, AclInv, AclTypeInv, TableTypeInv, TableInv, SourceInv, ConfInv, ToCome,
     IsLast
<1>2. CASE \E file \in AclFiles : AclUpdate(file)
  BY <1>2, AclUpdateKeeps
<1>3. CASE AclDeleteKey
  BY <1>3, AclDeleteKeyKeeps
<1>4. CASE AclClearRules
  BY <1>4, AclClearRulesKeeps
<1>5. CASE AclUpdated
  BY <1>5, AclUpdatedKeeps
<1>6. CASE AclInsertRule
  BY <1>6, AclSkipRuleKeeps, AclAddRuleKeeps DEF AclInsertRule
<1>7. \/ UNCHANGED aclVars \/ (\E file \in AclFiles : AclUpdate(file))
      \/ AclDeleteKey \/ AclClearRules \/ AclUpdated \/ AclInsertRule
  BY DEF PlaneNext, planeVars, UpdateStep, UpdateAcl, UpdateLb, AclUpdateStep, Arrive,
     PacketStep, AclPassUnparsed, AclLookupAny, AclLookupExact, LbPassUnparsed, LbLookup,
     LbForward
<1> QED BY <1>1, <1>2, <1>3, <1>4, <1>5, <1>6, <1>7

(* The tables are empty at the start.                                      *)
LEMMA AclInitially == PlaneInit => AclInv
<1> SUFFICES ASSUME PlaneInit PROVE AclInv
  OBVIOUS
<1>1. /\ aclTable = <<>> /\ aclRules = <<>> /\ aclConf = <<>> /\ aclBefore = <<>>
      /\ aclJob = AclIdle /\ aclJob.pc = "idle"
  BY DEF PlaneInit, AclInit, AclIdle
<1>2. DOMAIN aclTable = {} /\ Elements(aclRules) = {} /\ Elements(aclConf) = {}
  BY <1>1 DEF Elements
<1>3. IsFiniteSet({}) /\ Cardinality({}) = 0
  BY FS_EmptySet
<1>4. AclTypeInv
  BY <1>1 DEF AclTypeInv
<1>5. TableTypeInv
  <2>1. aclTable = [k \in DOMAIN aclTable |-> aclTable[k]]
    BY <1>1
  <2> QED BY <1>2, <1>3, <2>1, AclAssumption DEF TableTypeInv
<1>6. TableInv /\ SourceInv /\ ConfInv
  BY <1>1, <1>2 DEF TableInv, SourceInv, ConfInv
<1> QED BY <1>4, <1>5, <1>6 DEF AclInv

(* Between updates the kernel's table holds the rules the debug server     *)
(* shows, the later of two for a tuple, and every valid rule of the        *)
(* configuration unless a limit kept it out (acl_base.tpp 100-157 and      *)
(* 180-199).  For any files and limits.                                    *)
THEOREM TableFollowsRules == PlaneSpec => []RulesInForce
<1>1. AclInv => RulesInForce
  <2>1. SUFFICES ASSUME AclInv, aclJob = AclIdle
                 PROVE  /\ aclTable = TableOf(aclRules)
                        /\ Elements(aclRules) \subseteq Elements(aclConf)
                        /\ \A r \in Elements(aclConf) :
                             AclValid(r) => \/ Tuple(r) \in DOMAIN aclTable
                                            \/ Cardinality(DOMAIN aclTable) = AclMaxEntries
                                            \/ Len(aclRules) = AclMaxRules
    BY DEF RulesInForce
  <2>2. aclJob.pc = "idle"
    BY <2>1 DEF AclIdle
  <2>3. aclTable = TableOf(aclRules)
    BY <2>1, <2>2, TableIsTableOf DEF AclInv, AclTypeInv, TableTypeInv
  <2> QED BY <2>1, <2>2, <2>3 DEF AclInv, SourceInv, ConfInv, ToCome
<1> QED BY <1>1, AclInitially, AclStep, PTL DEF PlaneSpec

-----------------------------------------------------------------------------
(* The packet                                                              *)

PacketFields == {"pc", "p", "pos", "src", "dest", "slot", "verdict", "overlap"}

(* Where a packet is; one that has met no update is not meeting one now.   *)
PacketInv ==
  /\ pkt.pc \in {"none", "start", "exact", "forward", "done"}
  /\ pkt.pc = "none" => pkt = NoPacket
  /\ pkt.pc # "none" =>
       /\ DOMAIN pkt = PacketFields /\ pkt.p \in Packets /\ pkt.pos \in 1..Len(Chain)
       /\ pkt.overlap \in BOOLEAN /\ (~pkt.overlap => ~Updating)

(* The program returns.                                                    *)
LEMMA ReturnFields ==
  ASSUME DOMAIN pkt = PacketFields, NEW v, Return(v)
  PROVE  /\ DOMAIN pkt' = PacketFields /\ pkt'.pc = "done" /\ pkt'.verdict = v
         /\ pkt'.p = pkt.p /\ pkt'.pos = pkt.pos /\ pkt'.overlap = pkt.overlap
         /\ pkt'.dest = pkt.dest
BY Zenon DEF PacketFields, Return

(* The next program has the packet, or this was the last one.              *)
LEMMA ChainFields ==
  ASSUME NEW q, DOMAIN q = PacketFields, q.pos \in 1..Len(Chain), NEW v, ChainNext(q, v)
  PROVE  /\ DOMAIN pkt' = PacketFields
         /\ pkt'.p = q.p /\ pkt'.overlap = q.overlap /\ pkt'.dest = q.dest
         /\ \/ pkt'.pc = "start" /\ pkt'.pos = q.pos + 1 /\ pkt'.pos \in 2..Len(Chain)
            \/ pkt'.pc = "done" /\ pkt'.pos = q.pos /\ pkt'.verdict = v /\ q.pos = Len(Chain)
<1>1. Len(Chain) \in Nat
  BY ChainAssumption
<1>2. CASE q.pos < Len(Chain)
  <2>1. pkt' = [q EXCEPT !.pc = "start", !.pos = @ + 1]
    BY <1>2 DEF ChainNext
  <2>2. /\ DOMAIN pkt' = PacketFields /\ pkt'.p = q.p /\ pkt'.overlap = q.overlap
        /\ pkt'.dest = q.dest /\ pkt'.pc = "start" /\ pkt'.pos = q.pos + 1
    BY <2>1, Zenon DEF PacketFields
  <2>3. q.pos + 1 \in 2..Len(Chain)
    BY <1>1, <1>2
  <2> QED BY <2>2, <2>3
<1>3. CASE ~(q.pos < Len(Chain))
  <2>1. pkt' = [q EXCEPT !.pc = "done", !.verdict = v]
    BY <1>3 DEF ChainNext
  <2>2. /\ DOMAIN pkt' = PacketFields /\ pkt'.p = q.p /\ pkt'.overlap = q.overlap
        /\ pkt'.dest = q.dest /\ pkt'.pc = "done" /\ pkt'.pos = q.pos /\ pkt'.verdict = v
    BY <2>1, Zenon DEF PacketFields
  <2>3. q.pos = Len(Chain)
    BY <1>1, <1>3
  <2> QED BY <2>2, <2>3
<1> QED BY <1>2, <1>3

(* What a step of the packet can do: return, go on or look further.        *)
LEMMA PacketStepCases ==
  ASSUME PacketInv, PacketStep
  PROVE  /\ pkt.pc \in {"start", "exact", "forward"}
         /\ DOMAIN pkt' = PacketFields /\ pkt'.p = pkt.p /\ pkt'.overlap = pkt.overlap
         /\ pkt'.pc \in {"start", "exact", "forward", "done"} /\ pkt'.pos \in 1..Len(Chain)
         /\ UNCHANGED <<aclVars, lbVars>>
<1>1. /\ pkt.pc \in {"start", "exact", "forward"} /\ UNCHANGED <<aclVars, lbVars>>
  BY DEF PacketStep, AclPassUnparsed, AclLookupAny, AclLookupExact, LbPassUnparsed, LbLookup,
     LbForward, At
<1>2. DOMAIN pkt = PacketFields /\ pkt.pos \in 1..Len(Chain)
  BY <1>1 DEF PacketInv
<1>3. CASE \E v : Return(v)
  BY <1>1, <1>2, <1>3, ReturnFields
<1>4. CASE \E v : ChainNext(pkt, v)
  BY <1>1, <1>2, <1>4, ChainFields, ChainAssumption
<1>5. CASE pkt' = [pkt EXCEPT !.pc = "exact"]
  <2>1. /\ DOMAIN pkt' = PacketFields /\ pkt'.p = pkt.p /\ pkt'.overlap = pkt.overlap
        /\ pkt'.pc = "exact" /\ pkt'.pos = pkt.pos
    BY <1>2, <1>5, Zenon DEF PacketFields
  <2> QED BY <1>1, <1>2, <2>1
<1>6. CASE pkt' = [pkt EXCEPT !.pc = "forward", !.slot = LbSlot(pkt.p)]
  <2>1. /\ DOMAIN pkt' = PacketFields /\ pkt'.p = pkt.p /\ pkt'.overlap = pkt.overlap
        /\ pkt'.pc = "forward" /\ pkt'.pos = pkt.pos
    BY <1>2, <1>6, Zenon DEF PacketFields
  <2> QED BY <1>1, <1>2, <2>1
<1>7. CASE ChainNext(Rewritten, "TX")
  <2>1. /\ DOMAIN Rewritten = PacketFields /\ Rewritten.p = pkt.p /\ Rewritten.pos = pkt.pos
        /\ Rewritten.overlap = pkt.overlap
    BY <1>2, Zenon DEF Rewritten, PacketFields
  <2> QED BY <1>1, <1>2, <1>7, <2>1, ChainFields, ChainAssumption
<1>8. \/ (\E v : Return(v)) \/ (\E v : ChainNext(pkt, v)) \/ pkt' = [pkt EXCEPT !.pc = "exact"]
      \/ pkt' = [pkt EXCEPT !.pc = "forward", !.slot = LbSlot(pkt.p)]
      \/ ChainNext(Rewritten, "TX")
  BY Zenon DEF PacketStep, AclPassUnparsed, AclLookupAny, AclLookupExact, AclDecide,
     LbPassUnparsed, LbLookup, LbForward
<1> QED BY <1>3, <1>4, <1>5, <1>6, <1>7, <1>8

(* A packet arrives.                                                       *)
LEMMA ArriveFields ==
  ASSUME NEW p \in Packets, Arrive(p)
  PROVE  /\ DOMAIN pkt' = PacketFields /\ pkt'.pc = "start" /\ pkt'.p = p /\ pkt'.pos = 1
         /\ pkt'.dest = "" /\ pkt'.overlap = Updating /\ UNCHANGED <<aclVars, lbVars>>
BY DEF Arrive, PacketFields

(* An update begins: the packet that is under way is noticed.              *)
LEMMA NoticeFields ==
  ASSUME PacketInv, Notice
  PROVE  \/ pkt.pc = "none" /\ pkt' = pkt
         \/ /\ pkt.pc # "none" /\ DOMAIN pkt' = PacketFields /\ pkt'.overlap = TRUE
            /\ pkt'.pc = pkt.pc /\ pkt'.p = pkt.p /\ pkt'.pos = pkt.pos
            /\ pkt'.dest = pkt.dest /\ pkt'.verdict = pkt.verdict
<1>1. CASE pkt.pc = "none"
  BY <1>1 DEF Notice
<1>2. CASE pkt.pc # "none"
  <2>1. pkt' = [pkt EXCEPT !.overlap = TRUE] /\ DOMAIN pkt = PacketFields
    BY <1>2 DEF Notice, PacketInv
  <2> QED BY <1>2, <2>1, Zenon DEF PacketFields
<1> QED BY <1>1, <1>2

(* What is left of an update is under way: the packet knows.               *)
LEMMA UpdatingSteps ==
  ASSUME UpdateStep
  PROVE  Updating /\ pkt' = pkt
BY DEF UpdateStep, AclUpdateStep, LbUpdateStep, AclDeleteKey, AclClearRules, AclInsertRule,
   AclUpdated, LbDeleteVip, LbSetLocalMac, LbSkipRule, LbAddBackend, LbPublish, LbUpdated, InRule,
   Updating, AclIdle, LbIdle

(* Every step keeps the packet's invariant.                                *)
LEMMA PacketInvStep ==
  ASSUME PacketInv, [PlaneNext]_planeVars
  PROVE  PacketInv'
<1>1. ASSUME NEW p \in Packets, Arrive(p) PROVE PacketInv'
  <2>1. Updating' <=> Updating
    BY <1>1, ArriveFields DEF Updating, aclVars, lbVars
  <2>2. 1 \in 1..Len(Chain)
    BY ChainAssumption
  <2>3. pkt'.overlap \in BOOLEAN /\ (~pkt'.overlap => ~Updating)
    BY <1>1, ArriveFields, Zenon DEF Updating
  <2> QED BY <1>1, <2>1, <2>2, <2>3, ArriveFields DEF PacketInv
<1>2. CASE PacketStep
  <2>1. Updating' <=> Updating
    BY <1>2, PacketStepCases DEF Updating, aclVars, lbVars
  <2> QED BY <1>2, <2>1, PacketStepCases DEF PacketInv
<1>3. CASE UpdateAcl \/ UpdateLb
  BY <1>3, NoticeFields DEF UpdateAcl, UpdateLb, PacketInv, NoPacket
<1>4. CASE UpdateStep
  BY <1>4, UpdatingSteps DEF PacketInv
<1>5. CASE UNCHANGED planeVars
  BY <1>5 DEF planeVars, aclVars, lbVars, PacketInv, Updating
<1> QED BY <1>1, <1>2, <1>3, <1>4, <1>5 DEF PlaneNext

(* There is no packet at the start.                                        *)
LEMMA PacketInitially == PlaneInit => PacketInv
BY DEF PlaneInit, PacketInv, NoPacket

-----------------------------------------------------------------------------
(* Verdicts                                                                *)

(* The entry that denies is that of a rule which matches the packet.       *)
LEMMA DeniedByARule ==
  ASSUME AclInv, NEW p \in Packets, NEW sport \in {ANY_PORT, AclSourcePort(p)},
         AclDenies(AclKey(p, sport))
  PROVE  \E r \in Elements(aclBefore) \cup Elements(aclConf) :
           Matches(r, p) /\ r.action = "DROP"
<1>1. PICK n \in 1..Len(aclRules) :
        Tuple(aclRules[n]) = AclKey(p, sport) /\ aclRules[n].action = "DROP"
  BY DEF AclInv, TableInv, IsLast, AclDenies
<1>2. PICK r : r = aclRules[n]
  OBVIOUS
<1>3. r \in Elements(aclBefore) \cup Elements(aclConf)
  BY <1>2 DEF AclInv, SourceInv, Elements
<1>4. /\ r.saddr = p.saddr /\ r.daddr = p.daddr /\ r.protocol = p.protocol /\ r.sport = sport
      /\ r.dport = IF AclHasPorts(p) THEN p.dport ELSE ANY_PORT
  BY <1>1, <1>2 DEF Tuple, AclKey
<1>5. Matches(r, p)
  BY <1>4 DEF Matches, AclSourcePort
<1> QED BY <1>1, <1>2, <1>3, <1>5

(* Also while the table is emptied and filled again, no packet is dropped  *)
(* that no rule says to drop, of those in force before or of those that    *)
(* replace them (acl_xdp.bpf.c 70-81).  For any files, packets and chain.  *)
THEOREM NoDropWithoutRule == PlaneSpec => DropHasRule
<1>1. ASSUME AclInv, PacketInv, [PlaneNext]_planeVars,
             pkt.pc \in {"start", "exact"}, pkt'.pc = "done", pkt'.verdict = "DROP"
      PROVE  \E r \in Elements(aclBefore) \cup Elements(aclConf) :
               Matches(r, pkt.p) /\ r.action = "DROP"
  <2>1. DOMAIN pkt = PacketFields /\ pkt.p \in Packets /\ pkt.pos \in 1..Len(Chain)
    BY <1>1 DEF PacketInv
  <2>2. PacketStep
    BY <1>1, ArriveFields, NoticeFields, UpdatingSteps DEF PlaneNext, UpdateAcl, UpdateLb, Arrive,
       planeVars
  <2>3. ~Return("PASS") /\ ~ChainNext(pkt, "PASS")
    BY <1>1, <2>1, ReturnFields, ChainFields
  <2>4. /\ pkt' # [pkt EXCEPT !.pc = "exact"]
        /\ pkt' # [pkt EXCEPT !.pc = "forward", !.slot = LbSlot(pkt.p)]
    BY <1>1, <2>1, Zenon DEF PacketFields
  <2>5. \/ AclDenies(AclKey(pkt.p, ANY_PORT))
        \/ AclDenies(AclKey(pkt.p, AclSourcePort(pkt.p)))
    BY <1>1, <2>2, <2>3, <2>4, Zenon DEF PacketStep, AclPassUnparsed, AclLookupAny,
       AclLookupExact, AclDecide, LbPassUnparsed, LbLookup, LbForward, At
  <2> QED BY <1>1, <2>1, <2>5, DeniedByARule
<1>2. AclInv /\ PacketInv /\ [PlaneNext]_planeVars =>
        [pkt.pc \in {"start", "exact"} /\ pkt'.pc = "done" /\ pkt'.verdict = "DROP" =>
           \E r \in Elements(aclBefore) \cup Elements(aclConf) :
             Matches(r, pkt.p) /\ r.action = "DROP"]_planeVars
  BY <1>1
<1> QED
  BY <1>2, AclInitially, AclStep, PacketInitially, PacketInvStep, PTL DEF PlaneSpec, DropHasRule

(* What the ACL does with a packet, said of the table.                     *)
KeyDenied(p) ==
  \/ RealKey(p, ANY_PORT) \in DOMAIN aclTable /\ aclTable[RealKey(p, ANY_PORT)] = "DROP"
  \/ /\ RealKey(p, ANY_PORT) \notin DOMAIN aclTable
     /\ RealKey(p, p.sport) \in DOMAIN aclTable /\ aclTable[RealKey(p, p.sport)] = "DROP"

TableDenies(p) == AclParsed(p) /\ KeyDenied(Seen(p))

(* A packet the ACL comes first for and that meets no update has no rule   *)
(* for any source port at its second lookup, and is not denied once it is  *)
(* past the ACL.                                                           *)
JudgedInv ==
  pkt.pc # "none" /\ ~pkt.overlap /\ Chain[1] = "ACL" =>
    /\ pkt.pc = "exact" =>
         AclParsed(pkt.p) /\ RealKey(Seen(pkt.p), ANY_PORT) \notin DOMAIN aclTable
    /\ (pkt.pos > 1 \/ pkt.pc = "forward") /\ pkt.pc # "done" => ~TableDenies(pkt.p)
    /\ pkt.pc = "done" => (pkt.verdict = "DROP" <=> TableDenies(pkt.p))

(* The ports that are looked up are the ones that are seen.                *)
LEMMA PortsRead ==
  ASSUME NEW p, AclParsed(p)
  PROVE  /\ AclSourcePort(p) = Seen(p).sport
         /\ \A sport : AclKey(p, sport) = RealKey(Seen(p), sport)
<1>1. AclHasPorts(p) <=> PortsSeen(p)
  BY DEF AclParsed, AclHasPorts, PortsSeen
<1> QED BY <1>1 DEF AclSourcePort, AclKey, RealKey, Seen

(* Every step keeps it.                                                    *)
LEMMA JudgedStep ==
  ASSUME AclInv, PacketInv, JudgedInv, [PlaneNext]_planeVars
  PROVE  JudgedInv'
<1>1. ASSUME NEW p \in Packets, Arrive(p) PROVE JudgedInv'
  <2>1. pkt'.pc = "start" /\ pkt'.pos = 1
    BY <1>1, ArriveFields
  <2>2. ~(pkt'.pos > 1)
    BY <2>1
  <2> QED BY <2>1, <2>2, Zenon DEF JudgedInv
<1>2. CASE UpdateAcl \/ UpdateLb
  BY <1>2, NoticeFields DEF UpdateAcl, UpdateLb, JudgedInv, PacketInv
<1>3. CASE UpdateStep
  BY <1>3, UpdatingSteps DEF PacketInv, JudgedInv
<1>4. CASE UNCHANGED planeVars
  BY <1>4 DEF planeVars, aclVars, JudgedInv, TableDenies, KeyDenied
<1>5. CASE PacketStep
  <2>1. /\ DOMAIN pkt = PacketFields /\ pkt.p \in Packets /\ pkt.pos \in 1..Len(Chain)
        /\ pkt'.p = pkt.p /\ pkt'.overlap = pkt.overlap /\ pkt.pc # "none" /\ pkt.pc # "done"
        /\ aclTable' = aclTable
    BY <1>5, PacketStepCases DEF PacketInv, aclVars
  <2>2. SUFFICES ASSUME ~pkt.overlap, Chain[1] = "ACL"
                 PROVE  /\ pkt'.pc = "exact" =>
                             /\ AclParsed(pkt.p)
                             /\ RealKey(Seen(pkt.p), ANY_PORT) \notin DOMAIN aclTable
                        /\ (pkt'.pos > 1 \/ pkt'.pc = "forward") /\ pkt'.pc # "done"
                             => ~TableDenies(pkt.p)
                        /\ pkt'.pc = "done" => (pkt'.verdict = "DROP" <=> TableDenies(pkt.p))
    BY <2>1 DEF JudgedInv, TableDenies, KeyDenied
  <2>3. AclParsed(pkt.p) =>
          /\ AclSourcePort(pkt.p) = Seen(pkt.p).sport
          /\ \A sport : AclKey(pkt.p, sport) = RealKey(Seen(pkt.p), sport)
    BY PortsRead
  <2>4. /\ pkt.pc = "exact" =>
             AclParsed(pkt.p) /\ RealKey(Seen(pkt.p), ANY_PORT) \notin DOMAIN aclTable
        /\ pkt.pos > 1 \/ pkt.pc = "forward" => ~TableDenies(pkt.p)
    BY <2>1, <2>2 DEF JudgedInv
  <2>5. Chain[pkt.pos] = "LB" => ~TableDenies(pkt.p)
    BY <2>1, <2>2, <2>4, ChainAssumption
  <2>6. ASSUME Return("DROP"), TableDenies(pkt.p)
        PROVE  pkt'.pc = "done" /\ pkt'.verdict = "DROP"
    BY <2>1, <2>6, ReturnFields
  <2>7. ASSUME NEW v \in {"PASS", "TX"}, ~TableDenies(pkt.p),
               Return(v) \/ ChainNext(pkt, v)
        PROVE  pkt'.pc = "start" \/ (pkt'.pc = "done" /\ pkt'.verdict # "DROP")
    BY <2>1, <2>7, ReturnFields, ChainFields
  <2>8. CASE AclPassUnparsed
    <3>1. ~TableDenies(pkt.p) /\ Return("PASS")
      BY <2>8 DEF AclPassUnparsed, TableDenies
    <3> QED BY <2>7, <3>1
  <2>9. CASE AclLookupAny
    <3>0. AclParsed(pkt.p)
      BY <2>9 DEF AclLookupAny
    <3>1. PICK k : k = RealKey(Seen(pkt.p), ANY_PORT)
      OBVIOUS
    <3>2. \/ k \in DOMAIN aclTable /\ AclDecide(k)
          \/ k \notin DOMAIN aclTable /\ pkt' = [pkt EXCEPT !.pc = "exact"]
      BY <2>3, <2>9, <3>0, <3>1 DEF AclLookupAny, AclFinds
    <3>3. CASE k \in DOMAIN aclTable /\ AclDecide(k)
      <4>1. AclDenies(k) <=> TableDenies(pkt.p)
        BY <3>0, <3>1, <3>3 DEF AclDenies, TableDenies, KeyDenied
      <4> QED BY <2>6, <2>7, <3>3, <4>1 DEF AclDecide
    <3>4. CASE k \notin DOMAIN aclTable /\ pkt' = [pkt EXCEPT !.pc = "exact"]
      <4>1. pkt'.pc = "exact" /\ pkt'.pos = pkt.pos
        BY <2>1, <3>4, Zenon DEF PacketFields
      <4> QED BY <2>4, <3>0, <3>1, <3>4, <4>1
    <3> QED BY <3>2, <3>3, <3>4
  <2>10. CASE AclLookupExact
    <3>0. pkt.pc = "exact" /\ AclParsed(pkt.p)
      BY <2>4, <2>10 DEF AclLookupExact, At
    <3>1. AclDecide(RealKey(Seen(pkt.p), Seen(pkt.p).sport))
      BY <2>3, <2>10, <3>0 DEF AclLookupExact
    <3>2. AclDenies(RealKey(Seen(pkt.p), Seen(pkt.p).sport)) <=> TableDenies(pkt.p)
      BY <2>4, <3>0 DEF AclDenies, TableDenies, KeyDenied
    <3> QED BY <2>6, <2>7, <3>1, <3>2 DEF AclDecide
  <2>11. CASE LbPassUnparsed \/ LbLookup \/ LbForward
    <3>1. ~TableDenies(pkt.p)
      BY <2>5, <2>11 DEF LbPassUnparsed, LbLookup, LbForward, At
    <3>2. CASE LbPassUnparsed
      BY <2>7, <3>1, <3>2 DEF LbPassUnparsed
    <3>3. CASE LbLookup
      <4>1. CASE pkt' = [pkt EXCEPT !.pc = "forward", !.slot = LbSlot(pkt.p)]
        <5>1. pkt'.pc = "forward"
          BY <2>1, <4>1, Zenon DEF PacketFields
        <5> QED BY <3>1, <5>1
      <4>2. CASE ChainNext(pkt, "PASS")
        BY <2>7, <3>1, <4>2
      <4> QED BY <3>3, <4>1, <4>2 DEF LbLookup
    <3>4. CASE LbForward
      <4>1. DOMAIN Rewritten = PacketFields /\ Rewritten.pos = pkt.pos
        BY <2>1, Zenon DEF Rewritten, PacketFields
      <4>2. pkt'.pc = "start" \/ (pkt'.pc = "done" /\ pkt'.verdict = "TX")
        BY <2>1, <3>4, <4>1, ChainFields DEF LbForward
      <4> QED BY <3>1, <4>2
    <3> QED BY <2>11, <3>2, <3>3, <3>4
  <2> QED BY <1>5, <2>8, <2>9, <2>10, <2>11 DEF PacketStep
<1> QED BY <1>1, <1>2, <1>3, <1>4, <1>5 DEF PlaneNext

(* A packet that meets no update and the ACL first is dropped exactly if   *)
(* its rules say so (acl_xdp.bpf.c 69-81), of the ports that are seen of   *)
(* it: those of a datagram in which a header of TCP would fit are not      *)
(* (acl_xdp.bpf.c 50-60).  For any files, packets and chain.               *)
THEOREM VerdictFollowsRules == PlaneSpec => []VerdictAsRules
<1>1. ASSUME AclInv, PacketInv, JudgedInv PROVE VerdictAsRules
  <2>1. SUFFICES ASSUME pkt.pc = "done", ~pkt.overlap, Chain[1] = "ACL"
                 PROVE  pkt.verdict = "DROP" <=> AclParsed(pkt.p) /\ DeniedByRules(Seen(pkt.p))
    BY DEF VerdictAsRules
  <2>2. pkt.verdict = "DROP" <=> TableDenies(pkt.p)
    BY <1>1, <2>1 DEF JudgedInv
  <2>3. aclJob = AclIdle /\ aclJob.pc = "idle"
    BY <1>1, <2>1 DEF PacketInv, Updating, AclIdle
  <2>4. aclTable = TableOf(aclRules)
    BY <1>1, <2>3, TableIsTableOf DEF AclInv, AclTypeInv, TableTypeInv
  <2>5. AclParsed(pkt.p) /\ DeniedByRules(Seen(pkt.p)) <=> TableDenies(pkt.p)
    BY <2>4 DEF DeniedByRules, TableDenies, KeyDenied
  <2> QED BY <2>2, <2>5
<1>2. PlaneInit => JudgedInv
  BY DEF PlaneInit, NoPacket, JudgedInv
<1>3. AclInv /\ PacketInv /\ JudgedInv /\ [PlaneNext]_planeVars => JudgedInv'
  BY JudgedStep
<1>4. AclInv /\ PacketInv /\ JudgedInv => VerdictAsRules
  BY <1>1
<1> QED
  BY <1>2, <1>3, <1>4, AclInitially, AclStep, PacketInitially, PacketInvStep, PTL DEF PlaneSpec
-----------------------------------------------------------------------------
(* The inductive invariant of the load balancer's update.                  *)

LbRuleSet == UNION {Elements(LbParse(file).rules) : file \in LbFiles}
Places == 0..(MAX_BACKENDS_PER_VIP - 1)
GroupSet == [backends : [Places -> Slots], count : 0..MAX_BACKENDS_PER_VIP]

ClearFields == {"pc", "keys", "conf"}
RuleFields == {"pc", "rules", "next", "success", "be", "group"}

(* The table of groups is within its limit, the groups point into the      *)
(* pool.                                                                   *)
VipsInv ==
  /\ IsFiniteSet(DOMAIN vips) /\ Cardinality(DOMAIN vips) \in 0..MAXSIZE_LB_HASH
  /\ \A k \in DOMAIN vips : vips[k] \in GroupSet
  /\ DOMAIN pool = Slots
  /\ lbRules \in Seq(LbRuleSet) /\ lbConf.rules \in Seq(LbRuleSet)

(* The keys to delete are those of the table; next and the group that is   *)
(* being built stay within the pool.                                       *)
LbJobInv ==
  /\ lbJob.pc \in {"idle", "clear", "rule"}
  /\ lbJob.pc = "idle" => lbJob = LbIdle
  /\ lbJob.pc = "clear" =>
       /\ DOMAIN lbJob = ClearFields /\ lbJob.keys = DOMAIN vips
       /\ lbJob.conf.rules \in Seq(LbRuleSet)
  /\ lbJob.pc = "rule" =>
       /\ DOMAIN lbJob = RuleFields /\ lbJob.rules \in Seq(LbRuleSet)
       /\ lbJob.next \in 0..TOTAL_BACKENDS /\ lbJob.group \in GroupSet
       /\ lbJob.be \in 0..lbJob.group.count /\ lbJob.be <= lbJob.next

(* The rules that are shown are rules of the configuration; once there is  *)
(* one the local address is that of the configuration.                     *)
LbSourceInv ==
  /\ Elements(lbRules) \subseteq Elements(lbConf.rules)
  /\ lbJob.pc = "rule" => Elements(lbJob.rules) \subseteq Elements(lbConf.rules)
  /\ lbJob.pc = "rule" \/ lbRules # <<>> =>
       (lbConf.localMac # BadMac => lomac = lbConf.localMac)

(* The first places of group g lead to the first backends of rule r, in    *)
(* slots of pool q below the bound.                                        *)
LeadsTo(q, g, r, places, bound) ==
  \A j \in 1..places : g.backends[j - 1] < bound /\ q[g.backends[j - 1]] = r.backends[j]

LastVip(rules, n, k) ==
  /\ VipKey(rules[n]) = k
  /\ \A m \in (n + 1)..Len(rules) : VipKey(rules[m]) # k

(* Group g is that of the last rule for the virtual address k.             *)
GroupOf(q, g, rules, k, bound) ==
  \E n \in 1..Len(rules) :
    /\ LastVip(rules, n, k) /\ g.count = BackendCount(rules[n])
    /\ LeadsTo(q, g, rules[n], g.count, bound)

Taken == IF lbJob.pc = "rule" THEN lbJob.next ELSE TOTAL_BACKENDS

(* The groups of the table use no slot that is still to be written.        *)
GroupInv ==
  WellFormed(lbConf) => \A k \in DOMAIN vips : GroupOf(pool, vips[k], lbRules, k, Taken)

(* Neither does the part of a group that has been built, and the pool has  *)
(* room for the rest of the rules.                                         *)
BuildInv ==
  lbJob.pc = "rule" /\ lbJob.rules # <<>> /\ WellFormed(lbConf) =>
    /\ lbJob.group.count = BackendCount(Head(lbJob.rules))
    /\ LeadsTo(pool, lbJob.group, Head(lbJob.rules), lbJob.be, lbJob.next)
    /\ FitsPool(lbJob.rules, lbJob.next - lbJob.be)

LbInv == VipsInv /\ LbJobInv /\ LbSourceInv /\ GroupInv /\ BuildInv

-----------------------------------------------------------------------------
(* Rules, groups and the room of the pool                                  *)

(* A rule that was read has a number of backends.                          *)
LEMMA LbRuleShape ==
  ASSUME NEW r \in LbRuleSet
  PROVE  Len(r.backends) \in Nat /\ BackendCount(r) \in 0..MAX_BACKENDS_PER_VIP
<1>1. PICK file \in LbFiles : r \in Elements(LbParse(file).rules)
  BY DEF LbRuleSet
<1>2. PICK k \in 1..Len(LbParse(file).rules) : r = LbParse(file).rules[k]
  BY <1>1 DEF Elements
<1>3. "rules" \in DOMAIN file
  <2>1. SUFFICES ASSUME "rules" \notin DOMAIN file PROVE FALSE
    OBVIOUS
  <2>2. LbParse(file).rules = <<>>
    BY <2>1 DEF LbParse
  <2> QED BY <1>2, <2>2
<1>4. /\ Len(file.rules) \in Nat
      /\ \A j \in 1..Len(file.rules) :
           "backends" \in DOMAIN file.rules[j] => Len(file.rules[j].backends) \in Nat
  BY <1>3, LbAssumption
<1>5. LbParse(file).rules = [j \in 1..Len(file.rules) |-> LbRule(file.rules[j])]
  BY <1>3 DEF LbParse
<1>6. Len(LbParse(file).rules) = Len(file.rules)
  BY <1>4, <1>5
<1>7. k \in 1..Len(file.rules) /\ r = LbRule(file.rules[k])
  BY <1>2, <1>5, <1>6
<1>8. PICK json : json = file.rules[k]
  OBVIOUS
<1>9. PICK q : q = [f \in DOMAIN LbDefaults |->
                      IF f \in DOMAIN json THEN json[f] ELSE LbDefaults[f]]
  OBVIOUS
<1>10. r = [q EXCEPT !.backends = [i \in 1..Len(@) |-> Mac(@[i])]]
  BY <1>7, <1>8, <1>9, Zenon DEF LbRule
<1>11. "backends" \in DOMAIN q
  BY <1>9 DEF LbDefaults
<1>12. Len(q.backends) \in Nat
  <2>1. CASE "backends" \in DOMAIN json
    BY <1>4, <1>7, <1>8, <1>9, <1>11, <2>1
  <2>2. CASE "backends" \notin DOMAIN json
    <3>1. q.backends = <<>>
      BY <1>9, <2>2 DEF LbDefaults
    <3> QED BY <3>1
  <2> QED BY <2>1, <2>2
<1>13. r.backends = [i \in 1..Len(q.backends) |-> Mac(q.backends[i])]
  BY <1>10, <1>11, Zenon
<1>14. Len(r.backends) = Len(q.backends)
  BY <1>12, <1>13
<1>15. Len(r.backends) \in Nat
  BY <1>12, <1>14
<1>16. MAX_BACKENDS_PER_VIP \in Nat \ {0}
  BY LbAssumption
<1> QED BY <1>15, <1>16 DEF BackendCount

(* What is read of a file is a list of rules.                              *)
LEMMA LbParsed ==
  ASSUME NEW file \in LbFiles
  PROVE  LbParse(file).rules \in Seq(LbRuleSet)
<1>1. PICK rules : rules = LbParse(file).rules
  OBVIOUS
<1>2. PICK n \in Nat : rules = [j \in 1..n |-> rules[j]]
  <2>1. CASE "rules" \in DOMAIN file
    BY <1>1, <2>1, LbAssumption DEF LbParse
  <2>2. CASE "rules" \notin DOMAIN file
    <3>1. rules = <<>>
      BY <1>1, <2>2 DEF LbParse
    <3> QED BY <3>1
  <2> QED BY <2>1, <2>2
<1>3. Len(rules) = n
  BY <1>2
<1>4. \A j \in 1..n : rules[j] \in LbRuleSet
  BY <1>1, <1>3 DEF LbRuleSet, Elements
<1> QED BY <1>1, <1>2, <1>4

(* A rule begins with no backend in its group (lb_base.tpp 131-134).       *)
LEMMA StartRuleFields ==
  ASSUME NEW rules \in Seq(LbRuleSet), NEW next, NEW success, NEW job,
         job = StartRule(rules, next, success)
  PROVE  /\ DOMAIN job = RuleFields /\ job.pc = "rule" /\ job.rules = rules
         /\ job.next = next /\ job.be = 0 /\ job.group \in GroupSet
         /\ rules # <<>> => job.group.count = BackendCount(Head(rules))
<1>1. PICK count : count = IF rules = <<>> THEN 0 ELSE BackendCount(Head(rules))
  OBVIOUS
<1>2. count \in 0..MAX_BACKENDS_PER_VIP
  <2>1. CASE rules = <<>>
    BY <1>1, <2>1, LbAssumption
  <2>2. CASE rules # <<>>
    <3>1. Head(rules) \in LbRuleSet
      BY <2>2
    <3> QED BY <1>1, <2>2, <3>1, LbRuleShape
  <2> QED BY <2>1, <2>2
<1>3. /\ DOMAIN job = RuleFields /\ job.pc = "rule" /\ job.rules = rules
      /\ job.next = next /\ job.be = 0 /\ job.group = NewGroup(count)
  BY <1>1 DEF StartRule, RuleFields
<1>4. 0 \in Slots
  BY LbAssumption DEF Slots
<1>5. NewGroup(count) \in GroupSet /\ NewGroup(count).count = count
  BY <1>2, <1>4 DEF NewGroup, GroupSet, Places
<1> QED BY <1>1, <1>3, <1>5

(* There is room for the backends of the next rule.                        *)
LEMMA FitsHead ==
  ASSUME NEW rules \in Seq(LbRuleSet), rules # <<>>, NEW from \in Int, FitsPool(rules, from)
  PROVE  from + BackendCount(Head(rules)) <= TOTAL_BACKENDS
<1>1. PICK upTo \in [0..Len(rules) -> 0..TOTAL_BACKENDS] :
        /\ from <= upTo[0]
        /\ \A n \in 1..Len(rules) : upTo[n - 1] + BackendCount(rules[n]) <= upTo[n]
  BY DEF FitsPool
<1>2. Len(rules) \in Nat /\ Len(rules) >= 1 /\ Head(rules) = rules[1] /\ Head(rules) \in LbRuleSet
  OBVIOUS
<1>3. BackendCount(Head(rules)) \in Int
  BY <1>2, LbRuleShape, LbAssumption
<1>4. upTo[0] + BackendCount(rules[1]) <= upTo[1]
  BY <1>1, <1>2
<1>5. upTo[0] \in 0..TOTAL_BACKENDS /\ upTo[1] \in 0..TOTAL_BACKENDS
  BY <1>1, <1>2
<1> QED BY <1>1, <1>2, <1>3, <1>4, <1>5, LbAssumption

(* And, once they have been given their slots, for the rules after it.     *)
LEMMA FitsTail ==
  ASSUME NEW rules \in Seq(LbRuleSet), rules # <<>>, NEW from \in Int, FitsPool(rules, from),
         NEW used \in 0..BackendCount(Head(rules))
  PROVE  FitsPool(Tail(rules), from + used)
<1>1. PICK upTo \in [0..Len(rules) -> 0..TOTAL_BACKENDS] :
        /\ from <= upTo[0]
        /\ \A n \in 1..Len(rules) : upTo[n - 1] + BackendCount(rules[n]) <= upTo[n]
  BY DEF FitsPool
<1>2. /\ Len(rules) \in Nat /\ Len(rules) >= 1 /\ Head(rules) = rules[1]
      /\ Head(rules) \in LbRuleSet /\ Len(Tail(rules)) = Len(rules) - 1
      /\ \A n \in 1..Len(Tail(rules)) : Tail(rules)[n] = rules[n + 1]
  OBVIOUS
<1>3. BackendCount(Head(rules)) \in Int
  BY <1>2, LbRuleShape, LbAssumption
<1>4. PICK after : after = [n \in 0..Len(Tail(rules)) |-> upTo[n + 1]]
  OBVIOUS
<1>5. after \in [0..Len(Tail(rules)) -> 0..TOTAL_BACKENDS]
  BY <1>1, <1>2, <1>4
<1>6. from + used <= after[0]
  <2>1. upTo[0] + BackendCount(rules[1]) <= upTo[1] /\ after[0] = upTo[1]
    BY <1>1, <1>2, <1>4
  <2>2. upTo[0] \in 0..TOTAL_BACKENDS /\ upTo[1] \in 0..TOTAL_BACKENDS
    BY <1>1, <1>2
  <2> QED BY <1>1, <1>2, <1>3, <2>1, <2>2, LbAssumption
<1>7. ASSUME NEW n \in 1..Len(Tail(rules))
      PROVE  after[n - 1] + BackendCount(Tail(rules)[n]) <= after[n]
  <2>1. n + 1 \in 1..Len(rules) /\ n - 1 \in 0..Len(Tail(rules)) /\ n \in 0..Len(Tail(rules))
    BY <1>2
  <2>2. upTo[(n + 1) - 1] + BackendCount(rules[n + 1]) <= upTo[n + 1]
    BY <1>1, <2>1
  <2>3. after[n - 1] = upTo[(n - 1) + 1] /\ after[n] = upTo[n + 1] /\ Tail(rules)[n] = rules[n + 1]
    BY <1>2, <1>4, <2>1
  <2>4. (n + 1) - 1 = n /\ (n - 1) + 1 = n
    OBVIOUS
  <2> QED BY <2>2, <2>3, <2>4
<1> QED BY <1>5, <1>6, <1>7 DEF FitsPool

(* A group that is led to stays so while only slots from the bound on are  *)
(* written.                                                                *)
LEMMA LeadsToKept ==
  ASSUME NEW q, NEW s, NEW g \in GroupSet, NEW r, NEW places \in 0..g.count,
         NEW bound \in Int, NEW higher \in Int, bound <= higher,
         LeadsTo(q, g, r, places, bound), \A i \in Slots : i < bound => s[i] = q[i]
  PROVE  LeadsTo(s, g, r, places, higher)
<1>1. SUFFICES ASSUME NEW j \in 1..places
               PROVE  g.backends[j - 1] < higher /\ s[g.backends[j - 1]] = r.backends[j]
  BY DEF LeadsTo
<1>2. g.backends[j - 1] < bound /\ q[g.backends[j - 1]] = r.backends[j]
  BY DEF LeadsTo
<1>3. g.count \in 0..MAX_BACKENDS_PER_VIP /\ g.backends \in [Places -> Slots]
  BY DEF GroupSet
<1>4. j - 1 \in Places
  BY <1>3, LbAssumption DEF Places
<1>5. g.backends[j - 1] \in Slots
  BY <1>3, <1>4
<1>6. g.backends[j - 1] \in Int
  BY <1>5, LbAssumption DEF Slots
<1> QED BY <1>2, <1>5, <1>6

(* So does a group stay that of its rule.                                  *)
LEMMA GroupKept ==
  ASSUME NEW q, NEW s, NEW g \in GroupSet, NEW rules, NEW k,
         NEW bound \in Int, NEW higher \in Int, bound <= higher,
         GroupOf(q, g, rules, k, bound), \A i \in Slots : i < bound => s[i] = q[i]
  PROVE  GroupOf(s, g, rules, k, higher)
<1>1. PICK n \in 1..Len(rules) :
        /\ LastVip(rules, n, k) /\ g.count = BackendCount(rules[n])
        /\ LeadsTo(q, g, rules[n], g.count, bound)
  BY DEF GroupOf
<1>2. g.count \in 0..g.count
  BY LbAssumption DEF GroupSet
<1>3. LeadsTo(s, g, rules[n], g.count, higher)
  BY <1>1, <1>2, LeadsToKept
<1> QED BY <1>1, <1>3 DEF GroupOf

(* A rule for another address changes nothing for a group.                 *)
LEMMA GroupOther ==
  ASSUME NEW q, NEW g, NEW rules \in Seq(LbRuleSet), NEW e \in LbRuleSet, NEW k, NEW bound,
         VipKey(e) # k, GroupOf(q, g, rules, k, bound)
  PROVE  GroupOf(q, g, Append(rules, e), k, bound)
<1>1. PICK n \in 1..Len(rules) :
        /\ LastVip(rules, n, k) /\ g.count = BackendCount(rules[n])
        /\ LeadsTo(q, g, rules[n], g.count, bound)
  BY DEF GroupOf
<1>2. PICK more : more = Append(rules, e)
  OBVIOUS
<1>3. /\ Len(rules) \in Nat /\ Len(more) = Len(rules) + 1 /\ more[Len(rules) + 1] = e
      /\ \A m \in 1..Len(rules) : more[m] = rules[m]
  BY <1>2
<1>4. n \in 1..Len(more) /\ more[n] = rules[n]
  BY <1>3
<1>5. ASSUME NEW m \in (n + 1)..Len(more) PROVE VipKey(more[m]) # k
  <2>1. m = Len(rules) + 1 \/ (m \in (n + 1)..Len(rules) /\ m \in 1..Len(rules))
    BY <1>3
  <2> QED BY <1>1, <1>3, <2>1 DEF LastVip
<1>6. LastVip(more, n, k)
  BY <1>1, <1>4, <1>5 DEF LastVip
<1> QED BY <1>1, <1>2, <1>4, <1>6 DEF GroupOf

(* The group of the last rule.                                             *)
LEMMA GroupSame ==
  ASSUME NEW q, NEW g, NEW rules \in Seq(LbRuleSet), NEW e \in LbRuleSet, NEW bound,
         g.count = BackendCount(e), LeadsTo(q, g, e, g.count, bound)
  PROVE  GroupOf(q, g, Append(rules, e), VipKey(e), bound)
<1>1. PICK more : more = Append(rules, e)
  OBVIOUS
<1>2. /\ Len(rules) \in Nat /\ Len(more) = Len(rules) + 1 /\ more[Len(rules) + 1] = e
  BY <1>1
<1>3. PICK n : n = Len(rules) + 1
  OBVIOUS
<1>4. n \in 1..Len(more) /\ more[n] = e /\ (n + 1)..Len(more) = {}
  BY <1>2, <1>3
<1>5. LastVip(more, n, VipKey(e))
  BY <1>4 DEF LastVip
<1> QED BY <1>1, <1>4, <1>5 DEF GroupOf

-----------------------------------------------------------------------------
(* The steps of the update                                                 *)

(* There is no group at the start.                                         *)
LEMMA LbInitially == PlaneInit => LbInv
<1>1. SUFFICES ASSUME PlaneInit PROVE LbInv
  OBVIOUS
<1>2. /\ vips = <<>> /\ pool = [i \in Slots |-> ZeroMac] /\ lbRules = <<>> /\ lbConf.rules = <<>>
      /\ lbJob = LbIdle /\ lbJob.pc = "idle"
  BY <1>1 DEF PlaneInit, LbInit, LbIdle
<1>3. DOMAIN vips = {}
  BY <1>2
<1>4. IsFiniteSet(DOMAIN vips) /\ Cardinality(DOMAIN vips) = 0
  BY <1>3, FS_EmptySet
<1>5. VipsInv
  BY <1>2, <1>3, <1>4, LbAssumption DEF VipsInv
<1>6. LbJobInv
  BY <1>2 DEF LbJobInv
<1>7. LbSourceInv
  BY <1>2 DEF LbSourceInv, Elements
<1> QED BY <1>2, <1>3, <1>5, <1>6, <1>7 DEF LbInv, GroupInv, BuildInv

(* An update begins with the keys of the table.                            *)
LEMMA LbUpdateInv ==
  ASSUME LbInv, NEW file \in LbFiles, LbUpdate(file)
  PROVE  LbInv'
<1>1. /\ lbJob.pc = "idle" /\ UNCHANGED <<vips, pool, lomac, lbRules, lbConf>>
      /\ DOMAIN lbJob' = ClearFields /\ lbJob'.pc = "clear" /\ lbJob'.keys = DOMAIN vips
      /\ lbJob'.conf = LbParse(file)
  BY DEF LbUpdate, LbIdle, ClearFields
<1>2. VipsInv'
  BY <1>1 DEF LbInv, VipsInv
<1>3. LbJobInv'
  BY <1>1, LbParsed DEF LbJobInv
<1>4. LbSourceInv'
  BY <1>1 DEF LbInv, LbSourceInv
<1>5. GroupInv'
  BY <1>1 DEF LbInv, GroupInv, Taken
<1>6. BuildInv'
  BY <1>1 DEF BuildInv
<1> QED BY <1>2, <1>3, <1>4, <1>5, <1>6 DEF LbInv

(* A group less.                                                           *)
LEMMA LbDeleteVipInv ==
  ASSUME LbInv, LbDeleteVip
  PROVE  LbInv'
<1>1. PICK k \in lbJob.keys :
        /\ vips' = [x \in DOMAIN vips \ {k} |-> vips[x]]
        /\ lbJob' = [lbJob EXCEPT !.keys = @ \ {k}]
  BY DEF LbDeleteVip
<1>2. /\ lbJob.pc = "clear" /\ UNCHANGED <<pool, lomac, lbRules, lbConf>>
      /\ DOMAIN lbJob = ClearFields /\ lbJob.keys = DOMAIN vips
      /\ lbJob.conf.rules \in Seq(LbRuleSet)
  BY DEF LbDeleteVip, LbInv, LbJobInv
<1>3. /\ DOMAIN lbJob' = ClearFields /\ lbJob'.pc = "clear" /\ lbJob'.conf = lbJob.conf
      /\ lbJob'.keys = DOMAIN vips \ {k}
  BY <1>1, <1>2, Zenon DEF ClearFields
<1>4. DOMAIN vips' = DOMAIN vips \ {k} /\ \A x \in DOMAIN vips' : vips'[x] = vips[x]
  BY <1>1
<1>5. /\ IsFiniteSet(DOMAIN vips') /\ Cardinality(DOMAIN vips') \in Nat
      /\ Cardinality(DOMAIN vips') <= Cardinality(DOMAIN vips)
  BY <1>4, FS_Subset, FS_CardinalityType DEF LbInv, VipsInv
<1>6. VipsInv'
  <2>1. Cardinality(DOMAIN vips') \in 0..MAXSIZE_LB_HASH
    BY <1>5, LbAssumption DEF LbInv, VipsInv
  <2> QED BY <1>2, <1>4, <1>5, <2>1 DEF LbInv, VipsInv
<1>7. LbJobInv'
  BY <1>2, <1>3, <1>4 DEF LbJobInv
<1>8. LbSourceInv'
  BY <1>2, <1>3 DEF LbInv, LbSourceInv
<1>9. GroupInv'
  BY <1>2, <1>3, <1>4 DEF LbInv, GroupInv, Taken
<1>10. BuildInv'
  BY <1>3 DEF BuildInv
<1> QED BY <1>6, <1>7, <1>8, <1>9, <1>10 DEF LbInv

(* The new configuration takes effect when the table is empty.             *)
LEMMA LbSetLocalMacInv ==
  ASSUME LbInv, LbSetLocalMac
  PROVE  LbInv'
<1>1. /\ lbJob.pc = "clear" /\ DOMAIN vips = {} /\ UNCHANGED <<vips, pool>> /\ lbRules' = <<>>
      /\ lbConf' = lbJob.conf
      /\ lomac' = IF lbJob.conf.localMac = BadMac THEN Garbage ELSE lbJob.conf.localMac
      /\ lbJob' = StartRule(lbJob.conf.rules, 0, 0) /\ lbJob.conf.rules \in Seq(LbRuleSet)
  BY DEF LbSetLocalMac, LbInv, LbJobInv
<1>2. /\ DOMAIN lbJob' = RuleFields /\ lbJob'.pc = "rule" /\ lbJob'.rules = lbConf'.rules
      /\ lbJob'.next = 0 /\ lbJob'.be = 0 /\ lbJob'.group \in GroupSet
      /\ lbConf'.rules # <<>> => lbJob'.group.count = BackendCount(Head(lbConf'.rules))
  BY <1>1, StartRuleFields
<1>3. VipsInv'
  BY <1>1 DEF LbInv, VipsInv
<1>4. LbJobInv'
  <2>1. lbJob'.group.count \in Nat
    BY <1>2, LbAssumption DEF GroupSet
  <2>2. lbJob'.next \in 0..TOTAL_BACKENDS /\ lbJob'.be \in 0..lbJob'.group.count
        /\ lbJob'.be <= lbJob'.next
    BY <1>2, <2>1, LbAssumption
  <2>3. lbJob'.rules \in Seq(LbRuleSet)
    BY <1>1, <1>2
  <2> QED BY <1>2, <2>2, <2>3 DEF LbJobInv
<1>5. LbSourceInv'
  <2>1. Elements(lbRules') = {}
    BY <1>1 DEF Elements
  <2>2. lbConf'.localMac # BadMac => lomac' = lbConf'.localMac
    BY <1>1
  <2> QED BY <1>2, <2>1, <2>2 DEF LbSourceInv
<1>6. GroupInv'
  BY <1>1 DEF GroupInv
<1>7. BuildInv'
  <2>1. LeadsTo(pool', lbJob'.group, Head(lbJob'.rules), lbJob'.be, lbJob'.next)
    BY <1>2 DEF LeadsTo
  <2>2. lbJob'.next - lbJob'.be = 0
    BY <1>2
  <2> QED BY <1>2, <2>1, <2>2 DEF BuildInv, WellFormed
<1> QED BY <1>3, <1>4, <1>5, <1>6, <1>7 DEF LbInv

(* The next rule begins where the one before it ended.                     *)
LEMMA NextRule ==
  ASSUME LbInv, InRule, NEW rest \in {<<>>, Tail(lbJob.rules)}, NEW success,
         lbJob' = StartRule(rest, lbJob.next, success), UNCHANGED <<pool, lomac, lbConf>>
  PROVE  /\ LbJobInv' /\ BuildInv' /\ lbJob'.pc = "rule" /\ lbJob'.next = lbJob.next
         /\ Elements(lbJob'.rules) \subseteq Elements(lbConf.rules)
<1>1. /\ lbJob.pc = "rule" /\ lbJob.rules # <<>> /\ lbJob.rules \in Seq(LbRuleSet)
      /\ lbJob.next \in 0..TOTAL_BACKENDS /\ lbJob.be \in 0..lbJob.group.count
      /\ Elements(lbJob.rules) \subseteq Elements(lbConf.rules)
  BY DEF InRule, LbInv, LbJobInv, LbSourceInv
<1>2. /\ Tail(lbJob.rules) \in Seq(LbRuleSet)
      /\ Elements(Tail(lbJob.rules)) \subseteq Elements(lbJob.rules)
  BY <1>1, HeadTail
<1>3. rest \in Seq(LbRuleSet) /\ Elements(rest) \subseteq Elements(lbConf.rules)
  <2>1. <<>> \in Seq(LbRuleSet) /\ Elements(<<>>) = {}
    BY DEF Elements
  <2> QED BY <1>1, <1>2, <2>1
<1>4. /\ DOMAIN lbJob' = RuleFields /\ lbJob'.pc = "rule" /\ lbJob'.rules = rest
      /\ lbJob'.next = lbJob.next /\ lbJob'.be = 0 /\ lbJob'.group \in GroupSet
      /\ rest # <<>> => lbJob'.group.count = BackendCount(Head(rest))
  BY <1>3, StartRuleFields
<1>5. LbJobInv'
  <2>1. lbJob'.group.count \in Nat
    BY <1>4, LbAssumption DEF GroupSet
  <2>2. lbJob'.be \in 0..lbJob'.group.count /\ lbJob'.be <= lbJob'.next
    BY <1>1, <1>4, <2>1, LbAssumption
  <2> QED BY <1>1, <1>3, <1>4, <2>2 DEF LbJobInv
<1>6. BuildInv'
  <2>1. SUFFICES ASSUME rest # <<>>, WellFormed(lbConf)
                 PROVE  FitsPool(rest, lbJob.next)
    <3>1. LeadsTo(pool', lbJob'.group, Head(lbJob'.rules), lbJob'.be, lbJob'.next)
      BY <1>4 DEF LeadsTo
    <3>2. lbJob'.next - lbJob'.be = lbJob.next
      BY <1>1, <1>4
    <3>3. WellFormed(lbConf)' <=> WellFormed(lbConf)
      BY DEF WellFormed
    <3> QED BY <1>4, <3>1, <3>2, <3>3, <2>1 DEF BuildInv
  <2>2. /\ FitsPool(lbJob.rules, lbJob.next - lbJob.be)
        /\ lbJob.be \in 0..BackendCount(Head(lbJob.rules))
    BY <1>1, <2>1 DEF LbInv, BuildInv
  <2>3. lbJob.be \in Int
    BY <1>1, LbAssumption DEF LbInv, LbJobInv, GroupSet
  <2>4. lbJob.next - lbJob.be \in Int /\ (lbJob.next - lbJob.be) + lbJob.be = lbJob.next
    BY <1>1, <2>3, LbAssumption
  <2>5. FitsPool(Tail(lbJob.rules), (lbJob.next - lbJob.be) + lbJob.be)
    BY <1>1, <2>2, <2>4, FitsTail
  <2> QED BY <2>1, <2>4, <2>5
<1> QED BY <1>3, <1>4, <1>5, <1>6

(* The head of the rules, and where the backend that comes next is.        *)
LEMMA HeadRule ==
  ASSUME LbInv, InRule
  PROVE  /\ lbJob.pc = "rule" /\ lbJob.rules # <<>> /\ lbJob.rules \in Seq(LbRuleSet)
         /\ DOMAIN lbJob = RuleFields /\ lbJob.group \in GroupSet
         /\ lbJob.group.count \in 0..MAX_BACKENDS_PER_VIP
         /\ lbJob.group.backends \in [Places -> Slots]
         /\ lbJob.next \in 0..TOTAL_BACKENDS /\ lbJob.be \in 0..lbJob.group.count
         /\ lbJob.be <= lbJob.next
         /\ Head(lbJob.rules) \in LbRuleSet /\ Head(lbJob.rules) \in Elements(lbConf.rules)
         /\ BackendCount(Head(lbJob.rules)) \in 0..MAX_BACKENDS_PER_VIP
<1>1. /\ lbJob.pc = "rule" /\ lbJob.rules # <<>> /\ lbJob.rules \in Seq(LbRuleSet)
      /\ DOMAIN lbJob = RuleFields /\ lbJob.group \in GroupSet
      /\ lbJob.next \in 0..TOTAL_BACKENDS /\ lbJob.be \in 0..lbJob.group.count
      /\ lbJob.be <= lbJob.next
      /\ Elements(lbJob.rules) \subseteq Elements(lbConf.rules)
  BY DEF InRule, LbInv, LbJobInv, LbSourceInv
<1>2. Head(lbJob.rules) \in LbRuleSet /\ Head(lbJob.rules) \in Elements(lbConf.rules)
  BY <1>1, HeadTail
<1>3. lbJob.group.count \in 0..MAX_BACKENDS_PER_VIP /\ lbJob.group.backends \in [Places -> Slots]
  BY <1>1 DEF GroupSet
<1> QED BY <1>1, <1>2, <1>3, LbRuleShape

(* A rule without a virtual address has no group.                          *)
LEMMA LbSkipRuleInv ==
  ASSUME LbInv, LbSkipRule
  PROVE  LbInv'
<1>1. /\ InRule /\ UNCHANGED <<vips, pool, lomac, lbRules, lbConf>>
      /\ lbJob' = StartRule(Tail(lbJob.rules), lbJob.next, lbJob.success)
  BY DEF LbSkipRule
<1>2. lbJob.pc = "rule"
  BY <1>1 DEF InRule
<1>3. Tail(lbJob.rules) \in {<<>>, Tail(lbJob.rules)}
  OBVIOUS
<1>4. /\ LbJobInv' /\ BuildInv' /\ lbJob'.pc = "rule" /\ lbJob'.next = lbJob.next
      /\ Elements(lbJob'.rules) \subseteq Elements(lbConf.rules)
  BY <1>1, <1>3, NextRule
<1>5. VipsInv'
  BY <1>1 DEF LbInv, VipsInv
<1>6. LbSourceInv'
  BY <1>1, <1>2, <1>4 DEF LbInv, LbSourceInv
<1>7. GroupInv'
  BY <1>1, <1>2, <1>4 DEF LbInv, GroupInv, Taken
<1> QED BY <1>4, <1>5, <1>6, <1>7 DEF LbInv

(* The fields after a backend was added.                                   *)
LEMMA AddedFields ==
  ASSUME LbInv, LbAddBackend
  PROVE  /\ DOMAIN lbJob' = RuleFields /\ lbJob'.pc = "rule" /\ lbJob'.rules = lbJob.rules
         /\ lbJob'.next = lbJob.next + 1 /\ lbJob'.be = lbJob.be + 1
         /\ \/ /\ Head(lbJob.rules).backends[lbJob.be + 1] = BadMac
               /\ lbJob'.group = lbJob.group /\ pool' = pool
            \/ /\ lbJob'.group = [lbJob.group EXCEPT !.backends[lbJob.be] = lbJob.next]
               /\ pool' = [pool EXCEPT ![lbJob.next] =
                             Head(lbJob.rules).backends[lbJob.be + 1]]
<1>1. DOMAIN lbJob = RuleFields /\ lbJob.pc = "rule"
  BY HeadRule DEF LbAddBackend
<1>2. PICK next : next = [lbJob EXCEPT !.next = @ + 1, !.be = @ + 1]
  OBVIOUS
<1>3. /\ DOMAIN next = RuleFields /\ next.pc = "rule" /\ next.rules = lbJob.rules
      /\ next.next = lbJob.next + 1 /\ next.be = lbJob.be + 1 /\ next.group = lbJob.group
  BY <1>1, <1>2, Zenon DEF RuleFields
<1>4. \/ /\ Head(lbJob.rules).backends[lbJob.be + 1] = BadMac /\ lbJob' = next /\ pool' = pool
      \/ /\ lbJob' = [next EXCEPT !.group.backends[lbJob.be] = lbJob.next]
         /\ pool' = [pool EXCEPT ![lbJob.next] = Head(lbJob.rules).backends[lbJob.be + 1]]
  BY <1>2, Zenon DEF LbAddBackend
<1>5. CASE lbJob' = [next EXCEPT !.group.backends[lbJob.be] = lbJob.next]
  <2>1. /\ DOMAIN lbJob' = RuleFields /\ lbJob'.pc = "rule" /\ lbJob'.rules = lbJob.rules
        /\ lbJob'.next = lbJob.next + 1 /\ lbJob'.be = lbJob.be + 1
        /\ lbJob'.group = [lbJob.group EXCEPT !.backends[lbJob.be] = lbJob.next]
    BY <1>3, <1>5, Zenon DEF RuleFields
  <2> QED BY <1>3, <1>4, <2>1
<1> QED BY <1>3, <1>4, <1>5

(* One backend more: the slot it takes is one that no group uses.          *)
LEMMA LbAddBackendInv ==
  ASSUME LbInv, LbAddBackend
  PROVE  LbInv'
<1>1. /\ InRule /\ lbJob.be < lbJob.group.count /\ lbJob.next < TOTAL_BACKENDS
      /\ UNCHANGED <<vips, lomac, lbRules, lbConf>>
  BY DEF LbAddBackend
<1>2. PICK rule : rule = Head(lbJob.rules)
  OBVIOUS
<1>3. PICK g : g = lbJob.group
  OBVIOUS
<1>4. PICK n : n = lbJob.next
  OBVIOUS
<1>5. PICK b : b = lbJob.be
  OBVIOUS
<1>6. /\ lbJob.pc = "rule" /\ lbJob.rules # <<>> /\ lbJob.rules \in Seq(LbRuleSet)
      /\ g \in GroupSet /\ g.count \in 0..MAX_BACKENDS_PER_VIP /\ g.backends \in [Places -> Slots]
      /\ n \in 0..TOTAL_BACKENDS /\ b \in 0..g.count /\ b <= n
      /\ rule \in LbRuleSet /\ rule \in Elements(lbConf.rules)
  BY <1>1, <1>2, <1>3, <1>4, <1>5, HeadRule
<1>7. b \in Places /\ n \in Slots /\ b \in Int /\ n \in Int /\ g.count \in Int
  BY <1>1, <1>3, <1>4, <1>5, <1>6, LbAssumption DEF Places, Slots
<1>8. PICK h : h = lbJob'.group
  OBVIOUS
<1>9. /\ DOMAIN lbJob' = RuleFields /\ lbJob'.pc = "rule" /\ lbJob'.rules = lbJob.rules
      /\ lbJob'.next = n + 1 /\ lbJob'.be = b + 1
      /\ \/ rule.backends[b + 1] = BadMac /\ h = g /\ pool' = pool
         \/ /\ h = [g EXCEPT !.backends[b] = n]
            /\ pool' = [pool EXCEPT ![n] = rule.backends[b + 1]]
  BY <1>2, <1>3, <1>4, <1>5, <1>8, AddedFields
<1>10. ASSUME h = [g EXCEPT !.backends[b] = n]
       PROVE  /\ h \in GroupSet /\ h.count = g.count /\ h.backends[b] = n
              /\ \A i \in Places : i # b => h.backends[i] = g.backends[i]
  <2>1. DOMAIN g = {"backends", "count"}
    BY <1>6 DEF GroupSet
  <2>2. /\ DOMAIN h = {"backends", "count"} /\ h.count = g.count
        /\ h.backends = [g.backends EXCEPT ![b] = n]
    BY <1>10, <2>1, Zenon
  <2>3. h = [backends |-> h.backends, count |-> h.count]
    BY <1>6, <1>10 DEF GroupSet
  <2>4. h.backends \in [Places -> Slots]
    BY <1>6, <1>7, <2>2
  <2>5. h \in GroupSet
    BY <1>6, <2>2, <2>3, <2>4 DEF GroupSet
  <2> QED BY <1>6, <1>7, <2>2, <2>5
<1>11. h \in GroupSet /\ h.count = g.count
  BY <1>6, <1>9, <1>10
<1>12. DOMAIN pool' = Slots /\ \A i \in Slots : i # n => pool'[i] = pool[i]
  BY <1>9 DEF LbInv, VipsInv
<1>13. \A i \in Slots : i < n => pool'[i] = pool[i]
  BY <1>7, <1>12, LbAssumption DEF Slots
<1>14. VipsInv'
  BY <1>1, <1>12 DEF LbInv, VipsInv
<1>15. LbJobInv'
  <2>1. n + 1 \in 0..TOTAL_BACKENDS /\ b + 1 \in 0..h.count /\ b + 1 <= n + 1
    BY <1>1, <1>3, <1>4, <1>5, <1>6, <1>7, <1>11, LbAssumption
  <2> QED BY <1>6, <1>8, <1>9, <1>11, <2>1 DEF LbJobInv
<1>16. LbSourceInv'
  BY <1>1, <1>6, <1>9 DEF LbInv, LbSourceInv
<1>17. n + 1 \in Int /\ n <= n + 1
  BY <1>7
<1>18. GroupInv'
  <2>1. SUFFICES ASSUME WellFormed(lbConf), NEW k \in DOMAIN vips
                 PROVE  GroupOf(pool', vips[k], lbRules, k, n + 1)
    <3>1. WellFormed(lbConf)' <=> WellFormed(lbConf)
      BY <1>1 DEF WellFormed
    <3> QED BY <1>1, <1>9, <2>1, <3>1 DEF GroupInv, Taken
  <2>2. GroupOf(pool, vips[k], lbRules, k, n) /\ vips[k] \in GroupSet
    BY <1>4, <1>6, <2>1 DEF LbInv, GroupInv, Taken, VipsInv
  <2> QED BY <1>7, <1>13, <1>17, <2>2, GroupKept
<1>19. BuildInv'
  <2>1. SUFFICES ASSUME WellFormed(lbConf)
                 PROVE  /\ h.count = BackendCount(rule) /\ LeadsTo(pool', h, rule, b + 1, n + 1)
                        /\ FitsPool(lbJob.rules, (n + 1) - (b + 1))
    <3>1. WellFormed(lbConf)' <=> WellFormed(lbConf)
      BY <1>1 DEF WellFormed
    <3> QED BY <1>2, <1>6, <1>8, <1>9, <2>1, <3>1 DEF BuildInv
  <2>2. /\ g.count = BackendCount(rule) /\ LeadsTo(pool, g, rule, b, n)
        /\ FitsPool(lbJob.rules, n - b)
    BY <1>2, <1>3, <1>4, <1>5, <1>6, <2>1 DEF LbInv, BuildInv
  <2>3. (n + 1) - (b + 1) = n - b
    BY <1>7
  <2>4. b + 1 \in 1..BackendCount(rule)
    BY <1>1, <1>3, <1>5, <1>6, <1>7, <2>2
  <2>5. rule.backends[b + 1] # BadMac
    BY <1>6, <2>1, <2>4 DEF WellFormed
  <2>6. /\ h = [g EXCEPT !.backends[b] = n]
        /\ pool' = [pool EXCEPT ![n] = rule.backends[b + 1]]
    BY <1>9, <2>5
  <2>7. LeadsTo(pool', g, rule, b, n + 1)
    BY <1>6, <1>7, <1>13, <1>17, <2>2, LeadsToKept
  <2>8. ASSUME NEW j \in 1..(b + 1)
        PROVE  h.backends[j - 1] < n + 1 /\ pool'[h.backends[j - 1]] = rule.backends[j]
    <3>1. CASE j = b + 1
      <4>1. j - 1 = b /\ n < n + 1
        BY <1>7, <3>1
      <4>2. pool'[n] = rule.backends[b + 1]
        BY <1>7, <2>6 DEF LbInv, VipsInv
      <4> QED BY <1>10, <2>6, <3>1, <4>1, <4>2
    <3>2. CASE j # b + 1
      <4>1. j \in 1..b /\ j - 1 \in Places /\ j - 1 # b
        BY <1>6, <1>7, <3>2, LbAssumption DEF Places
      <4>2. h.backends[j - 1] = g.backends[j - 1]
        BY <1>10, <2>6, <4>1
      <4> QED BY <2>7, <4>1, <4>2 DEF LeadsTo
    <3> QED BY <3>1, <3>2
  <2>9. LeadsTo(pool', h, rule, b + 1, n + 1)
    BY <2>8 DEF LeadsTo
  <2> QED BY <1>11, <2>2, <2>3, <2>9
<1> QED BY <1>14, <1>15, <1>16, <1>18, <1>19 DEF LbInv

(* A group is published with the backends of its rule.                     *)
LEMMA LbPublishInv ==
  ASSUME LbInv, LbPublish
  PROVE  LbInv'
<1>1. PICK rule : rule = Head(lbJob.rules)
  OBVIOUS
<1>2. PICK k : k = VipKey(rule)
  OBVIOUS
<1>3. /\ InRule /\ (lbJob.be = lbJob.group.count \/ lbJob.next >= TOTAL_BACKENDS)
      /\ UNCHANGED <<pool, lomac, lbConf>>
  BY DEF LbPublish
<1>4. \/ /\ VipFits(k)
         /\ vips' = [x \in DOMAIN vips \cup {k} |-> IF x = k THEN lbJob.group ELSE vips[x]]
         /\ lbRules' = Append(lbRules, rule)
      \/ UNCHANGED <<vips, lbRules>>
  BY <1>1, <1>2 DEF LbPublish
<1>5. PICK rest \in {<<>>, Tail(lbJob.rules)} :
        \E success : lbJob' = StartRule(rest, lbJob.next, success)
  BY <1>1, <1>2 DEF LbPublish, NextSlot
<1>6. /\ LbJobInv' /\ BuildInv' /\ lbJob'.pc = "rule" /\ lbJob'.next = lbJob.next
      /\ Elements(lbJob'.rules) \subseteq Elements(lbConf.rules)
  BY <1>3, <1>5, NextRule
<1>7. /\ lbJob.pc = "rule" /\ lbJob.rules # <<>> /\ lbJob.rules \in Seq(LbRuleSet)
      /\ lbJob.group \in GroupSet
      /\ lbJob.next \in 0..TOTAL_BACKENDS /\ lbJob.be \in 0..lbJob.group.count
      /\ rule \in LbRuleSet /\ rule \in Elements(lbConf.rules)
  BY <1>1, <1>3, HeadRule
<1>8. CASE UNCHANGED <<vips, lbRules>>
  <2>1. VipsInv'
    BY <1>3, <1>8 DEF LbInv, VipsInv
  <2>2. LbSourceInv'
    BY <1>3, <1>6, <1>7, <1>8 DEF LbInv, LbSourceInv
  <2>3. GroupInv'
    BY <1>3, <1>6, <1>7, <1>8 DEF LbInv, GroupInv, Taken
  <2> QED BY <1>6, <2>1, <2>2, <2>3 DEF LbInv
<1>9. CASE /\ VipFits(k)
           /\ vips' = [x \in DOMAIN vips \cup {k} |-> IF x = k THEN lbJob.group ELSE vips[x]]
           /\ lbRules' = Append(lbRules, rule)
  <2>1. /\ DOMAIN vips' = DOMAIN vips \cup {k} /\ vips'[k] = lbJob.group
        /\ \A x \in DOMAIN vips : x # k => vips'[x] = vips[x]
    BY <1>9
  <2>2. /\ lbRules \in Seq(LbRuleSet) /\ lbRules' \in Seq(LbRuleSet) /\ lbRules' # <<>>
        /\ Elements(lbRules') = Elements(lbRules) \cup {rule}
    BY <1>7, <1>9, AppendElements DEF LbInv, VipsInv
  <2>3. /\ IsFiniteSet(DOMAIN vips')
        /\ Cardinality(DOMAIN vips') = IF k \in DOMAIN vips THEN Cardinality(DOMAIN vips)
                                       ELSE Cardinality(DOMAIN vips) + 1
    BY <2>1, FS_AddElement, SMTT(30) DEF LbInv, VipsInv
  <2>4. Cardinality(DOMAIN vips') \in 0..MAXSIZE_LB_HASH
    BY <1>9, <2>3, LbAssumption DEF LbInv, VipsInv, VipFits
  <2>5. VipsInv'
    BY <1>3, <1>7, <2>1, <2>2, <2>3, <2>4 DEF LbInv, VipsInv
  <2>6. LbSourceInv'
    BY <1>3, <1>6, <1>7, <2>2 DEF LbInv, LbSourceInv
  <2>7. ASSUME WellFormed(lbConf)
        PROVE  /\ lbJob.be = lbJob.group.count /\ lbJob.group.count = BackendCount(rule)
               /\ LeadsTo(pool, lbJob.group, rule, lbJob.group.count, lbJob.next)
    <3>1. /\ lbJob.group.count = BackendCount(rule)
          /\ LeadsTo(pool, lbJob.group, rule, lbJob.be, lbJob.next)
          /\ FitsPool(lbJob.rules, lbJob.next - lbJob.be)
      BY <1>1, <1>7, <2>7 DEF LbInv, BuildInv
    <3>2. lbJob.group.count \in Nat /\ lbJob.be \in Int /\ lbJob.next \in Int
      BY <1>7, LbAssumption DEF GroupSet
    <3>3. (lbJob.next - lbJob.be) + BackendCount(Head(lbJob.rules)) <= TOTAL_BACKENDS
      BY <1>7, <3>1, <3>2, FitsHead
    <3>4. lbJob.be = lbJob.group.count
      BY <1>1, <1>3, <1>7, <3>1, <3>2, <3>3, LbAssumption
    <3> QED BY <3>1, <3>4
  <2>8. GroupInv'
    <3>1. SUFFICES ASSUME WellFormed(lbConf), NEW x \in DOMAIN vips \cup {k}
                   PROVE  GroupOf(pool, vips'[x], lbRules', x, lbJob.next)
      <4>1. WellFormed(lbConf)' <=> WellFormed(lbConf)
        BY <1>3 DEF WellFormed
      <4> QED BY <1>3, <1>6, <2>1, <3>1, <4>1 DEF GroupInv, Taken
    <3>2. CASE x = k
      BY <1>2, <1>7, <1>9, <2>1, <2>2, <2>7, <3>1, <3>2, GroupSame
    <3>3. CASE x # k
      <4>1. x \in DOMAIN vips /\ vips'[x] = vips[x]
        BY <2>1, <3>3
      <4>2. GroupOf(pool, vips[x], lbRules, x, lbJob.next)
        BY <1>7, <3>1, <4>1 DEF LbInv, GroupInv, Taken
      <4> QED BY <1>2, <1>7, <1>9, <2>2, <3>3, <4>1, <4>2, GroupOther
    <3> QED BY <3>2, <3>3
  <2> QED BY <1>6, <2>5, <2>6, <2>8 DEF LbInv
<1> QED BY <1>4, <1>8, <1>9

(* The update ends; the slots above the last are not needed any more.      *)
LEMMA LbUpdatedInv ==
  ASSUME LbInv, LbUpdated
  PROVE  LbInv'
<1>1. /\ lbJob.pc = "rule" /\ lbJob' = LbIdle /\ lbJob'.pc = "idle"
      /\ UNCHANGED <<vips, pool, lomac, lbRules, lbConf>>
  BY DEF LbUpdated, LbIdle
<1>2. VipsInv' /\ LbJobInv' /\ LbSourceInv' /\ BuildInv'
  BY <1>1 DEF LbInv, VipsInv, LbJobInv, LbSourceInv, BuildInv
<1>3. GroupInv'
  <2>1. SUFFICES ASSUME WellFormed(lbConf), NEW k \in DOMAIN vips
                 PROVE  GroupOf(pool, vips[k], lbRules, k, TOTAL_BACKENDS)
    <3>1. WellFormed(lbConf)' <=> WellFormed(lbConf)
      BY <1>1 DEF WellFormed
    <3> QED BY <1>1, <2>1, <3>1 DEF GroupInv, Taken
  <2>2. /\ GroupOf(pool, vips[k], lbRules, k, lbJob.next) /\ vips[k] \in GroupSet
        /\ lbJob.next \in 0..TOTAL_BACKENDS
    BY <1>1, <2>1 DEF LbInv, GroupInv, Taken, VipsInv, LbJobInv
  <2>3. lbJob.next \in Int /\ TOTAL_BACKENDS \in Int /\ lbJob.next <= TOTAL_BACKENDS
    BY <2>2, LbAssumption
  <2> QED BY <2>2, <2>3, GroupKept
<1> QED BY <1>2, <1>3 DEF LbInv

(* Every step keeps the invariant of the load balancer.                    *)
LEMMA LbStep ==
  ASSUME LbInv, [PlaneNext]_planeVars
  PROVE  LbInv'
<1>1. CASE UNCHANGED lbVars
  BY <1>1 DEF lbVars, LbInv, VipsInv, LbJobInv, LbSourceInv, GroupInv, BuildInv, Taken, WellFormed
<1>2. CASE LbUpdateStep
  BY <1>2, LbDeleteVipInv, LbSetLocalMacInv, LbSkipRuleInv, LbAddBackendInv, LbPublishInv,
     LbUpdatedInv DEF LbUpdateStep
<1>3. UNCHANGED lbVars \/ LbUpdateStep \/ \E file \in LbFiles : LbUpdate(file)
  BY DEF PlaneNext, planeVars, Arrive, PacketStep, AclPassUnparsed, AclLookupAny, AclLookupExact,
     LbPassUnparsed, LbLookup, LbForward, UpdateAcl, UpdateLb, UpdateStep
<1> QED BY <1>1, <1>2, <1>3, LbUpdateInv

(* Whatever step of an update has been made, and whatever the sizes of the *)
(* tables: a group leads to the backends of its own rule (lb_base.tpp 99,  *)
(* 115-161 and 239-241).                                                   *)
THEOREM GroupsLeadToTheirBackends == PlaneSpec => []GroupsResolve
<1>1. ASSUME LbInv PROVE GroupsResolve
  <2>1. SUFFICES ASSUME lbConf \in WellFormedConfs, NEW k \in DOMAIN vips
                 PROVE  \E r \in Elements(lbConf.rules) :
                          /\ VipKey(r) = k
                          /\ vips[k].count = BackendCount(r)
                          /\ \A i \in 1..vips[k].count :
                               pool[vips[k].backends[i - 1]] = r.backends[i]
    BY DEF GroupsResolve
  <2>2. WellFormed(lbConf)
    BY <2>1 DEF WellFormedConfs
  <2>3. GroupOf(pool, vips[k], lbRules, k, Taken)
    BY <1>1, <2>1, <2>2 DEF LbInv, GroupInv
  <2>4. PICK n \in 1..Len(lbRules) :
          /\ LastVip(lbRules, n, k) /\ vips[k].count = BackendCount(lbRules[n])
          /\ LeadsTo(pool, vips[k], lbRules[n], vips[k].count, Taken)
    BY <2>3 DEF GroupOf
  <2>5. lbRules[n] \in Elements(lbConf.rules)
    BY <1>1 DEF LbInv, LbSourceInv, Elements
  <2> QED BY <2>4, <2>5 DEF LastVip, LeadsTo
<1> QED BY <1>1, LbInitially, LbStep, PTL DEF PlaneSpec

-----------------------------------------------------------------------------
(* The packet and the load balancer                                        *)

(* mac is that of the backend the packet's source selects among those of   *)
(* the last rule for its virtual address.                                  *)
OwnBackend(p, mac, rules) ==
  \E n \in 1..Len(rules) :
    /\ LastVip(rules, n, <<p.daddr, p.dport>>)
    /\ mac = rules[n].backends[(p.saddr % BackendCount(rules[n])) + 1]

LocalSource(mac) == lbConf.localMac # BadMac => mac = lbConf.localMac

(* A packet that meets no update and is to be forwarded has the slot of    *)
(* its backend, and one that was sent its address.                         *)
ForwardInv ==
  pkt.pc # "none" /\ ~pkt.overlap /\ WellFormed(lbConf) =>
    /\ pkt.pc = "forward" => OwnBackend(pkt.p, pool[pkt.slot], lbRules)
    /\ pkt.pc = "done" /\ pkt.verdict = "TX" =>
         OwnBackend(pkt.p, pkt.dest, lbRules) /\ LocalSource(pkt.src)

(* The slot that is looked up is that of the packet's backend.             *)
LEMMA SlotIsOwn ==
  ASSUME LbInv, NEW p \in Packets, LbHasGroup(p), WellFormed(lbConf)
  PROVE  OwnBackend(p, pool[LbSlot(p)], lbRules)
<1>1. PICK k : k = <<p.daddr, p.dport>>
  OBVIOUS
<1>2. k \in DOMAIN vips /\ vips[k].count # 0
  BY <1>1 DEF LbHasGroup
<1>3. PICK n \in 1..Len(lbRules) :
        /\ LastVip(lbRules, n, k) /\ vips[k].count = BackendCount(lbRules[n])
        /\ LeadsTo(pool, vips[k], lbRules[n], vips[k].count, Taken)
  BY <1>2 DEF LbInv, GroupInv, GroupOf
<1>4. PICK c : c = vips[k].count
  OBVIOUS
<1>5. c \in Nat \ {0}
  BY <1>2, <1>4, LbAssumption DEF LbInv, VipsInv, GroupSet
<1>6. p.saddr \in Nat
  BY ChainAssumption
<1>7. p.saddr % c \in 0..(c - 1)
  BY <1>5, <1>6
<1>8. PICK i : i = p.saddr % c
  OBVIOUS
<1>9. i + 1 \in 1..c /\ (i + 1) - 1 = i
  BY <1>5, <1>7, <1>8
<1>10. pool[vips[k].backends[(i + 1) - 1]] = lbRules[n].backends[i + 1]
  BY <1>3, <1>4, <1>9 DEF LeadsTo
<1>11. LbSlot(p) = vips[k].backends[i]
  BY <1>1, <1>4, <1>8 DEF LbSlot
<1>12. pool[LbSlot(p)] = lbRules[n].backends[(p.saddr % BackendCount(lbRules[n])) + 1]
  BY <1>3, <1>4, <1>8, <1>9, <1>10, <1>11
<1> QED BY <1>1, <1>3, <1>12 DEF OwnBackend

(* Every step keeps it.                                                    *)
LEMMA ForwardStep ==
  ASSUME LbInv, PacketInv, ForwardInv, [PlaneNext]_planeVars
  PROVE  ForwardInv'
<1>1. ASSUME NEW p \in Packets, Arrive(p) PROVE ForwardInv'
  BY <1>1, ArriveFields DEF ForwardInv
<1>2. CASE UpdateAcl \/ UpdateLb
  BY <1>2, NoticeFields DEF UpdateAcl, UpdateLb, ForwardInv, PacketInv
<1>3. CASE UpdateStep
  BY <1>3, UpdatingSteps DEF PacketInv, ForwardInv
<1>4. CASE UNCHANGED planeVars
  BY <1>4 DEF planeVars, lbVars, ForwardInv, WellFormed, LocalSource
<1>5. CASE PacketStep
  <2>1. /\ DOMAIN pkt = PacketFields /\ pkt.p \in Packets /\ pkt.pos \in 1..Len(Chain)
        /\ pkt'.p = pkt.p /\ pkt'.overlap = pkt.overlap /\ pkt.pc # "none" /\ pkt.pc # "done"
        /\ UNCHANGED <<vips, pool, lomac, lbRules, lbConf, lbJob>>
    BY <1>5, PacketStepCases DEF PacketInv, lbVars
  <2>2. SUFFICES ASSUME ~pkt.overlap, WellFormed(lbConf)
                 PROVE  /\ pkt'.pc = "forward" => OwnBackend(pkt.p, pool[pkt'.slot], lbRules)
                        /\ pkt'.pc = "done" /\ pkt'.verdict = "TX" =>
                             OwnBackend(pkt.p, pkt'.dest, lbRules) /\ LocalSource(pkt'.src)
    <3>1. WellFormed(lbConf)' <=> WellFormed(lbConf)
      BY <2>1 DEF WellFormed
    <3> QED BY <2>1, <2>2, <3>1 DEF ForwardInv, LocalSource
  <2>3. CASE \E v \in {"PASS", "DROP"} : Return(v) \/ ChainNext(pkt, v)
    <3>1. PICK v \in {"PASS", "DROP"} : Return(v) \/ ChainNext(pkt, v)
      BY <2>3
    <3>2. pkt'.pc = "start" \/ (pkt'.pc = "done" /\ pkt'.verdict = v)
      BY <2>1, <3>1, ReturnFields, ChainFields
    <3> QED BY <3>1, <3>2
  <2>4. CASE pkt' = [pkt EXCEPT !.pc = "exact"]
    <3>1. pkt'.pc = "exact"
      BY <2>1, <2>4, Zenon DEF PacketFields
    <3> QED BY <3>1
  <2>5. CASE LbLookup /\ pkt' = [pkt EXCEPT !.pc = "forward", !.slot = LbSlot(pkt.p)]
             /\ LbHasGroup(pkt.p)
    <3>1. pkt'.pc = "forward" /\ pkt'.slot = LbSlot(pkt.p)
      BY <2>1, <2>5, Zenon DEF PacketFields
    <3> QED BY <2>1, <2>2, <2>5, <3>1, SlotIsOwn
  <2>6. CASE LbForward
    <3>1. /\ DOMAIN Rewritten = PacketFields /\ Rewritten.p = pkt.p /\ Rewritten.pos = pkt.pos
          /\ Rewritten.overlap = pkt.overlap /\ Rewritten.src = lomac
          /\ Rewritten.dest = pool[pkt.slot]
      BY <2>1, Zenon DEF Rewritten, PacketFields
    <3>2. pkt.pc = "forward" /\ ChainNext(Rewritten, "TX")
      BY <2>6 DEF LbForward, At
    <3>3. OwnBackend(pkt.p, pool[pkt.slot], lbRules)
      BY <2>1, <2>2, <3>2 DEF ForwardInv
    <3>4. lbRules # <<>>
      BY <3>3 DEF OwnBackend
    <3>5. LocalSource(lomac)
      BY <3>4 DEF LbInv, LbSourceInv, LocalSource
    <3>6. \/ pkt'.pc = "start"
          \/ pkt'.pc = "done" /\ pkt'.src = lomac /\ pkt'.dest = pool[pkt.slot]
      <4>1. CASE pkt' = [Rewritten EXCEPT !.pc = "start", !.pos = @ + 1]
        BY <3>1, <4>1, Zenon DEF PacketFields
      <4>2. CASE pkt' = [Rewritten EXCEPT !.pc = "done", !.verdict = "TX"]
        BY <3>1, <4>2, Zenon DEF PacketFields
      <4> QED BY <3>2, <4>1, <4>2 DEF ChainNext
    <3> QED BY <3>3, <3>5, <3>6
  <2>7. \/ \E v \in {"PASS", "DROP"} : Return(v) \/ ChainNext(pkt, v)
        \/ pkt' = [pkt EXCEPT !.pc = "exact"]
        \/ LbLookup /\ pkt' = [pkt EXCEPT !.pc = "forward", !.slot = LbSlot(pkt.p)]
           /\ LbHasGroup(pkt.p)
        \/ LbForward
    BY <1>5, Zenon DEF PacketStep, AclPassUnparsed, AclLookupAny, AclLookupExact, AclDecide,
       LbPassUnparsed, LbLookup
  <2> QED BY <2>3, <2>4, <2>5, <2>6, <2>7
<1> QED BY <1>1, <1>2, <1>3, <1>4, <1>5 DEF PlaneNext

(* A packet that meets no update and is sent goes to the backend of the    *)
(* last rule for its virtual address that its source selects, from the     *)
(* local address (lb_xdp.bpf.c 45-72), for any files, packets and chain.   *)
THEOREM PacketsReachTheirBackend == PlaneSpec => []SentToOwnBackend
<1>1. ASSUME ForwardInv PROVE SentToOwnBackend
  BY <1>1 DEF ForwardInv, SentToOwnBackend, OwnBackend, LastVip, LocalSource, WellFormedConfs
<1>2. PlaneInit => ForwardInv
  BY DEF PlaneInit, NoPacket, ForwardInv
<1>3. LbInv /\ PacketInv /\ ForwardInv /\ [PlaneNext]_planeVars => ForwardInv'
  BY ForwardStep
<1> QED
  BY <1>1, <1>2, <1>3, LbInitially, LbStep, PacketInitially, PacketInvStep, PTL DEF PlaneSpec

-----------------------------------------------------------------------------
(* A packet that was rewritten was so by the last program of the chain.    *)
SentInv ==
  pkt.pc # "none" /\ pkt.dest # "" => pkt.pc = "done" /\ pkt.verdict \in {"TX", "DROP"}

(* Every step keeps it, where the load balancer comes last.                *)
LEMMA SentStep ==
  ASSUME \A k \in 1..Len(Chain) : Chain[k] = "LB" => k = Len(Chain),
         PacketInv, SentInv, [PlaneNext]_planeVars
  PROVE  SentInv'
<1>1. ASSUME NEW p \in Packets, Arrive(p) PROVE SentInv'
  BY <1>1, ArriveFields DEF SentInv
<1>2. CASE UpdateAcl \/ UpdateLb
  BY <1>2, NoticeFields DEF UpdateAcl, UpdateLb, SentInv, PacketInv
<1>3. CASE UpdateStep
  BY <1>3, UpdatingSteps DEF SentInv
<1>4. CASE UNCHANGED planeVars
  BY <1>4 DEF planeVars, SentInv
<1>5. CASE PacketStep
  <2>1. /\ DOMAIN pkt = PacketFields /\ pkt.pos \in 1..Len(Chain)
        /\ pkt.pc # "none" /\ pkt.pc # "done"
    BY <1>5, PacketStepCases DEF PacketInv
  <2>2. pkt.dest = ""
    BY <2>1 DEF SentInv
  <2>3. CASE pkt'.dest = pkt.dest
    BY <2>2, <2>3 DEF SentInv
  <2>4. CASE LbForward
    <3>1. DOMAIN Rewritten = PacketFields /\ Rewritten.pos = pkt.pos
      BY <2>1, Zenon DEF Rewritten, PacketFields
    <3>2. pkt.pos = Len(Chain) /\ Len(Chain) \in Nat
      BY <2>1, <2>4, ChainAssumption DEF LbForward, At
    <3>3. ~(Rewritten.pos < Len(Chain))
      BY <3>1, <3>2
    <3>4. pkt' = [Rewritten EXCEPT !.pc = "done", !.verdict = "TX"]
      BY <2>4, <3>3, Zenon DEF LbForward, ChainNext
    <3>5. pkt'.pc = "done" /\ pkt'.verdict = "TX"
      BY <3>1, <3>4, Zenon DEF PacketFields
    <3> QED BY <3>5 DEF SentInv
  <2>5. \/ pkt'.dest = pkt.dest
        \/ LbForward
    <3>1. CASE \E v : Return(v)
      BY <2>1, <3>1, Zenon DEF Return, PacketFields
    <3>2. CASE \E v : ChainNext(pkt, v)
      BY <2>1, <3>2, Zenon DEF ChainNext, PacketFields
    <3>3. CASE pkt' = [pkt EXCEPT !.pc = "exact"]
      BY <2>1, <3>3, Zenon DEF PacketFields
    <3>4. CASE pkt' = [pkt EXCEPT !.pc = "forward", !.slot = LbSlot(pkt.p)]
      BY <2>1, <3>4, Zenon DEF PacketFields
    <3>5. \/ (\E v : Return(v)) \/ (\E v : ChainNext(pkt, v)) \/ pkt' = [pkt EXCEPT !.pc = "exact"]
          \/ pkt' = [pkt EXCEPT !.pc = "forward", !.slot = LbSlot(pkt.p)]
          \/ LbForward
      BY <1>5, Zenon DEF PacketStep, AclPassUnparsed, AclLookupAny, AclLookupExact, AclDecide,
         LbPassUnparsed, LbLookup
    <3> QED BY <3>1, <3>2, <3>3, <3>4, <3>5
  <2> QED BY <2>3, <2>4, <2>5
<1> QED BY <1>1, <1>2, <1>3, <1>4, <1>5 DEF PlaneNext

(* The tables within their limits and the indices within the pool, for     *)
(* tables of any size (lb_base.tpp 135-161); and, where the load balancer  *)
(* is the last program of the chain, a packet that was rewritten sent or   *)
(* dropped (lb_xdp.bpf.c 84).                                              *)
THEOREM PlaneSafety ==
  ASSUME \A k \in 1..Len(Chain) : Chain[k] = "LB" => k = Len(Chain)
  PROVE  PlaneSpec => []PlaneInv
<1>1. ASSUME AclInv, PacketInv, LbInv, SentInv PROVE PlaneInv
  <2>1. /\ \A k \in DOMAIN aclTable : aclTable[k] \in {"DROP", "ACCEPT"}
        /\ Cardinality(DOMAIN aclTable) <= AclMaxEntries
    BY <1>1, AclAssumption DEF AclInv, TableTypeInv
  <2>2. Cardinality(DOMAIN vips) <= MAXSIZE_LB_HASH /\ DOMAIN pool = Slots
    BY <1>1, LbAssumption DEF LbInv, VipsInv
  <2>3. \A k \in DOMAIN vips : \A i \in DOMAIN vips[k].backends : vips[k].backends[i] \in Slots
    <3>1. \A k \in DOMAIN vips : vips[k].backends \in [Places -> Slots]
      BY <1>1 DEF LbInv, VipsInv, GroupSet
    <3> QED BY <3>1
  <2>4. lbJob.pc = "rule" => lbJob.next \in 0..TOTAL_BACKENDS
    BY <1>1 DEF LbInv, LbJobInv
  <2>5. pkt.pc \in {"none", "start", "exact", "forward", "done"}
    BY <1>1 DEF PacketInv
  <2>6. RewrittenIsSent
    BY <1>1 DEF SentInv, RewrittenIsSent
  <2> QED BY <2>1, <2>2, <2>3, <2>4, <2>5, <2>6 DEF PlaneInv, PlaneTypeOK
<1>2. PlaneInit => SentInv
  <2>1. PlaneInit => pkt.pc = "none"
    BY DEF PlaneInit, NoPacket
  <2> QED BY <2>1, Zenon DEF SentInv
<1>3. PacketInv /\ SentInv /\ [PlaneNext]_planeVars => SentInv'
  BY SentStep
<1>4. AclInv /\ PacketInv /\ LbInv /\ SentInv => PlaneInv
  BY <1>1
<1> QED
  BY <1>2, <1>3, <1>4, AclInitially, AclStep, PacketInitially, PacketInvStep, LbInitially, LbStep,
     PTL DEF PlaneSpec
=============================================================================
