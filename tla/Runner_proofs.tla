----------------------------- MODULE Runner_proofs -----------------------------
(******************************************************************************)
(* Theorems about Runner, for any jobs, number of goroutines kept, actions,    *)
(* configurations and faults, and any capacity of the channel Results.          *)
(******************************************************************************)
EXTENDS Runner, Functions, SequenceTheorems, FiniteSetTheorems, TLAPS

--------------------------------------------------------------------------------
(* The queues of the runner, as sequences.                                     *)

(* What is sent is added to what a channel holds, ...                          *)
LEMMA AppendRange ==
  ASSUME NEW S, NEW q \in Seq(S), NEW x \in S
  PROVE  /\ Append(q, x) \in Seq(S)
         /\ Len(Append(q, x)) = Len(q) + 1
         /\ Range(Append(q, x)) = Range(q) \union {x}
<1> DEFINE p == Append(q, x)
<1>1. /\ p \in Seq(S) /\ Len(p) = Len(q) + 1
      /\ \A i \in 1..Len(q) : p[i] = q[i]
      /\ p[Len(q) + 1] = x
  BY AppendProperties
<1>2. Len(q) \in Nat /\ Range(q) = {q[i] : i \in 1..Len(q)} /\ Range(p) = {p[i] : i \in 1..Len(p)}
  BY <1>1, RangeEquality, LenProperties
<1>3. 1..Len(p) = 1..Len(q) \union {Len(q) + 1}
  BY <1>1, <1>2
<1> HIDE DEF p
<1>4. Range(p) = Range(q) \union {x}
  BY <1>1, <1>2, <1>3
<1> QED
  BY <1>1, <1>4 DEF p

(* ... and is not there twice unless it was sent twice.                        *)
LEMMA AppendInjectiveQueue ==
  ASSUME NEW S, NEW q \in Seq(S), NEW x \in S, IsInjective(q), x \notin Range(q)
  PROVE  IsInjective(Append(q, x))
<1> DEFINE p == Append(q, x)
<1>1. /\ p \in Seq(S) /\ Len(p) = Len(q) + 1
      /\ \A i \in 1..Len(q) : p[i] = q[i]
      /\ p[Len(q) + 1] = x
  BY AppendProperties
<1>2. Len(q) \in Nat /\ DOMAIN q = 1..Len(q) /\ DOMAIN p = 1..Len(p)
  BY <1>1, LenProperties
<1>3. \A i \in 1..Len(q) : q[i] # x
  BY <1>2 DEF Range
<1> HIDE DEF p
<1>4. IsInjective(p)
  BY <1>1, <1>2, <1>3 DEF IsInjective
<1> QED
  BY <1>4 DEF p

(* What is received is taken from what a channel holds, ...                     *)
LEMMA TailRange ==
  ASSUME NEW S, NEW q \in Seq(S), q # <<>>
  PROVE  /\ Head(q) \in S /\ Tail(q) \in Seq(S)
         /\ Len(Tail(q)) = Len(q) - 1 /\ Len(q) \in Nat \ {0}
         /\ Range(q) = {Head(q)} \union Range(Tail(q))
<1> DEFINE p == Tail(q)
<1>1. /\ Head(q) \in S /\ p \in Seq(S) /\ Len(p) = Len(q) - 1 /\ Len(q) \in Nat \ {0}
      /\ \A i \in 1..Len(p) : p[i] = q[i + 1]
      /\ Head(q) = q[1]
  BY HeadTailProperties, EmptySeq
<1>2. Range(q) = {q[i] : i \in 1..Len(q)} /\ Range(p) = {p[i] : i \in 1..Len(p)}
  BY <1>1, RangeEquality, ZenonT(30)
<1> HIDE DEF p
<1>3. \A i \in 1..Len(q) : i = 1 \/ \E j \in 1..Len(p) : i = j + 1
  <2> SUFFICES ASSUME NEW i \in 1..Len(q), i # 1 PROVE \E j \in 1..Len(p) : i = j + 1
    OBVIOUS
  <2>1. i - 1 \in 1..Len(p) /\ i = (i - 1) + 1
    BY <1>1
  <2> QED
    BY <2>1
<1>4. \A j \in 1..Len(p) : j + 1 \in 1..Len(q)
  BY <1>1
<1>5. Range(q) = {Head(q)} \union Range(p)
  <2>1. \A x \in Range(q) : x = Head(q) \/ x \in Range(p)
    <3> SUFFICES ASSUME NEW i \in 1..Len(q) PROVE q[i] = Head(q) \/ q[i] \in Range(p)
      BY <1>2
    <3>1. CASE i = 1
      BY <1>1, <3>1
    <3>2. ASSUME NEW j \in 1..Len(p), i = j + 1 PROVE q[i] \in Range(p)
      <4>1. p[j] = q[i]
        BY <1>1, <3>2
      <4> QED
        BY <1>2, <4>1
    <3> QED
      BY <1>3, <3>1, <3>2
  <2>2. \A x \in Range(p) : x \in Range(q)
    BY <1>1, <1>2, <1>4
  <2>3. Head(q) \in Range(q)
    BY <1>1, <1>2
  <2> QED
    BY <2>1, <2>2, <2>3
<1> QED
  BY <1>1, <1>5 DEF p

(* ... and is not there any more, unless it was sent twice.                      *)
LEMMA TailInjectiveQueue ==
  ASSUME NEW S, NEW q \in Seq(S), q # <<>>, IsInjective(q)
  PROVE  IsInjective(Tail(q)) /\ Head(q) \notin Range(Tail(q))
<1> DEFINE p == Tail(q)
<1>1. /\ p \in Seq(S) /\ Len(p) = Len(q) - 1 /\ Len(q) \in Nat \ {0}
      /\ \A i \in 1..Len(p) : p[i] = q[i + 1]
      /\ Head(q) = q[1]
  BY HeadTailProperties, EmptySeq
<1>2. DOMAIN q = 1..Len(q) /\ DOMAIN p = 1..Len(p)
  BY <1>1, LenProperties
<1> HIDE DEF p
<1>3. IsInjective(p)
  BY <1>1, <1>2, SMTT(30) DEF IsInjective
<1>4. Head(q) \notin Range(p)
  <2> SUFFICES ASSUME NEW i \in 1..Len(p), p[i] = Head(q) PROVE FALSE
    BY <1>2 DEF Range
  <2>1. i + 1 \in 1..Len(q) /\ 1 \in 1..Len(q) /\ i + 1 # 1
    BY <1>1
  <2>2. q[i + 1] = q[1]
    BY <1>1
  <2> QED
    BY <1>2, <2>1, <2>2 DEF IsInjective
<1> QED
  BY <1>3, <1>4 DEF p


--------------------------------------------------------------------------------
(* What each variable holds.                                                  *)
ResultsState ==
  [pc : {"select", "create", "write", "scan", "sweep", "complete"},
   cur : {Zero} \union ActionIds, todo : SUBSET ({Zero} \union ActionIds)]

ScannerState == [pc : {"sleep", "scan"}, todo : SUBSET Names, have : SUBSET Names]

Known == DOMAIN posted

DiskType ==
  /\ jobs \in [Names -> {Absent, Bare} \union Configs]
  /\ inflight \subseteq [name : Names, id : ActionIds, whole : BOOLEAN]
  /\ \A f \in inflight : f.id \in Known /\ f.name = posted[f.id].name

ApiType ==
  /\ \E k \in 0..MaxActions : Known = 1..k
  /\ \A id \in Known : posted[id] \in [name : Names, expired : BOOLEAN]
  /\ tried \subseteq Known

ThreadsType ==
  /\ scanner \in ScannerState
  /\ queue \in Seq(ActionIds) /\ Len(queue) <= ResultsCap /\ Range(queue) \subseteq Known
  /\ \A i \in 1..Slots : entity[i].pc = "sending" => entity[i].act \in Known
  /\ reslist \subseteq {Zero} \union Known
  /\ results \in ResultsState
  /\ results.todo \subseteq reslist /\ results.cur \in {Zero} \union Known
  /\ results.pc \in {"create", "write"} => results.cur # Zero
  /\ results.pc = "complete" =>
       /\ results.cur \in reslist \ results.todo
       /\ results.cur \in {Zero} \union tried

BudgetType == budget \in [configs : 0..MaxConfigs, faults : 0..MaxFaults]

(* The goroutines, and the table of entities: what the table has is of its job and   *)
(* was not told to stop, a goroutine that goes on is in the table, one cannot be told  *)
(* until it has begun, and one that sends has an action.                  *)
Goroutines(ents, tab) ==
  /\ ents \in [1..Slots -> {Free} \union Entities] /\ tab \in [Names -> 0..Slots]
  /\ \A n \in Names : tab[n] # 0 =>
       ents[tab[n]] \in Entities /\ ents[tab[n]].name = n /\ ents[tab[n]].abort # "closed"
  /\ \A i \in 1..Slots : ents[i] \in Entities =>
       /\ ents[i].abort = "nil" <=> ents[i].pc = "new"
       /\ ents[i].pc = "sending" <=> ents[i].act # 0
       /\ ents[i].dead => ents[i].pc = "ended"
       /\ ents[i].pc # "ended" /\ ents[i].abort # "closed" => tab[ents[i].name] = i

(* What a scan does to goroutines leaves what they send.                       *)
SendsFewer(after, before) ==
  \A i \in 1..Slots : after[i].pc = "sending" => before[i].pc = "sending" /\ before[i].act = after[i].act

TypeInv ==
  DiskType /\ ApiType /\ ThreadsType /\ BudgetType /\ Goroutines(entity, table)

(* An action is on its way to one file at most: it is sent once, is in the channel   *)
(* once, and has no file before processResults has taken it.                        *)
Recorded == reslist \union {f.id : f \in inflight}

Holding == IF results.pc \in {"create", "write"} THEN {results.cur} ELSE {}

OnTheWay ==
  /\ IsInjective(queue) /\ Range(queue) \intersect (Holding \union Recorded) = {}
  /\ \A i \in 1..Slots : entity[i].pc = "sending" =>
       /\ entity[i].act \notin Range(queue) \union Holding \union Recorded
       /\ \A j \in 1..Slots : entity[j].pc = "sending" /\ entity[j].act = entity[i].act => j = i
  /\ results.pc = "create" => results.cur \notin Recorded

(* A file was left empty.                                                     *)
Abandoned ==
  \E f \in inflight : ~f.whole /\ ~(results.pc = "write" /\ f.id = results.cur)

(* Before the first fault, unless a file was left empty, whatever processResults    *)
(* keeps has a file.                                                                *)
HasFiles ==
  budget.faults = MaxFaults /\ ~Abandoned =>
    /\ \A id \in reslist : id # Zero /\ File(id, TRUE) \in inflight
    /\ results.pc = "write" => File(results.cur, FALSE) \in inflight

--------------------------------------------------------------------------------
(* The goroutines of entities.                                                *)

LEMMA FreeIsFree == Free \notin Entities
BY DEF Free, Entities

LEMMA EntityFields ==
  ASSUME NEW e \in Entities
  PROVE  /\ e.pc \in {"new", "waiting", "launching", "sending", "ended"} /\ e.name \in Names
         /\ e.rev \in 1..MaxConfigs /\ e.act \in {0} \union ActionIds
         /\ e.abort \in {"nil", "open", "closed"} /\ e.dead \in BOOLEAN
         /\ e # Free /\ e.pc # "free"
BY DEF Entities, Free

(* A goroutine that was told to stop.                                         *)
LEMMA StoppedEntity ==
  ASSUME NEW e \in Entities
  PROVE  /\ [e EXCEPT !.abort = "closed"] \in Entities
         /\ [e EXCEPT !.abort = "closed"].abort = "closed"
         /\ [e EXCEPT !.abort = "closed"].pc = e.pc /\ [e EXCEPT !.abort = "closed"].name = e.name
         /\ [e EXCEPT !.abort = "closed"].act = e.act /\ [e EXCEPT !.abort = "closed"].dead = e.dead
BY DEF Entities

LEMMA CollectedIs ==
  ASSUME NEW ents \in [1..Slots -> {Free} \union Entities], NEW tab
  PROVE  /\ Collected(ents, tab) \in [1..Slots -> {Free} \union Entities]
         /\ \A i \in 1..Slots :
              \/ Collected(ents, tab)[i] = ents[i]
              \/ Collected(ents, tab)[i] = Free /\ ents[i].pc = "ended" /\ \A n \in Names : tab[n] # i
BY DEF Collected

LEMMA CollectedKeeps ==
  ASSUME NEW ents, NEW tab, Goroutines(ents, tab)
  PROVE  Goroutines(Collected(ents, tab), tab) /\ SendsFewer(Collected(ents, tab), ents)
<1> DEFINE new == Collected(ents, tab)
<1>1. ents \in [1..Slots -> {Free} \union Entities] /\ tab \in [Names -> 0..Slots]
  BY DEF Goroutines
<1>2. /\ new \in [1..Slots -> {Free} \union Entities]
      /\ \A i \in 1..Slots : \/ new[i] = ents[i]
                             \/ new[i] = Free /\ \A n \in Names : tab[n] # i
  <2>1. /\ new \in [1..Slots -> {Free} \union Entities]
        /\ \A i \in 1..Slots :
             \/ new[i] = ents[i]
             \/ new[i] = Free /\ ents[i].pc = "ended" /\ \A n \in Names : tab[n] # i
    BY <1>1, CollectedIs
  <2> HIDE DEF new
  <2> QED
    BY <2>1
<1> HIDE DEF new
<1>3. \A n \in Names : tab[n] # 0 => new[tab[n]] = ents[tab[n]]
  BY <1>1, <1>2, RunnerBounds
<1>4. \A i \in 1..Slots : new[i] \in Entities => new[i] = ents[i]
  BY <1>2, FreeIsFree
<1>5. SendsFewer(new, ents)
  BY <1>2 DEF SendsFewer, Free
<1> QED
  BY <1>1, <1>2, <1>3, <1>4, <1>5 DEF Goroutines, new

(* procDir and procReap tell goroutines to stop, and forget them with those that    *)
(* have ended.                                                                *)
Told(ents, tab, N) ==
  [i \in 1..Slots |-> IF \E n \in N : tab[n] = i THEN [ents[i] EXCEPT !.abort = "closed"] ELSE ents[i]]

Dropped(tab, N) == [n \in Names |-> IF n \in N THEN 0 ELSE tab[n]]

LEMMA StopKeeps ==
  ASSUME NEW ents, NEW tab, Goroutines(ents, tab), NEW N \in SUBSET Names,
         NEW D \in SUBSET Names, N \subseteq D,
         \A n \in N : tab[n] # 0 => ents[tab[n]].abort # "nil",
         \A n \in D \ N : tab[n] = 0 \/ ents[tab[n]].pc = "ended"
  PROVE  Goroutines(Told(ents, tab, N), Dropped(tab, D)) /\ SendsFewer(Told(ents, tab, N), ents)
<1> DEFINE after == Told(ents, tab, N)
           new == Dropped(tab, D)
<1>1. ents \in [1..Slots -> {Free} \union Entities] /\ tab \in [Names -> 0..Slots]
  BY DEF Goroutines
<1>2. /\ new \in [Names -> 0..Slots] /\ \A n \in Names : new[n] # 0 => n \notin D /\ new[n] = tab[n]
      /\ \A n \in Names : new[n] # tab[n] => n \in D
  BY <1>1, RunnerBounds DEF Dropped
<1>3. after = [i \in 1..Slots |-> IF \E n \in N : tab[n] = i
                                  THEN [ents[i] EXCEPT !.abort = "closed"] ELSE ents[i]]
  BY DEF Told
<1> HIDE DEF new, after
<1>4. ASSUME NEW i \in 1..Slots, NEW n \in N, tab[n] = i
      PROVE  /\ after[i] \in Entities /\ after[i].abort = "closed"
             /\ after[i].pc = ents[i].pc /\ after[i].name = ents[i].name /\ after[i].act = ents[i].act
             /\ after[i].dead = ents[i].dead /\ ents[i] \in Entities /\ ents[i].name = n
  <2>1. tab[n] # 0
    BY <1>4, RunnerBounds
  <2>2. ents[i] \in Entities /\ ents[i].name = n
    BY <1>4, <2>1 DEF Goroutines
  <2>3. after[i] = [ents[i] EXCEPT !.abort = "closed"]
    BY <1>4, <1>3
  <2>4. PICK e \in Entities : e = ents[i]
    BY <2>2
  <2>5. after[i] = [e EXCEPT !.abort = "closed"]
    BY <2>3, <2>4
  <2> QED
    BY <2>2, <2>4, <2>5, StoppedEntity
<1>5. \A i \in 1..Slots : (\A n \in N : tab[n] # i) => after[i] = ents[i]
  BY <1>3
<1>6. after \in [1..Slots -> {Free} \union Entities]
  <2>1. \A i \in 1..Slots : after[i] \in {Free} \union Entities
    BY <1>1, <1>4, <1>5
  <2> QED
    BY <1>3, <2>1
<1>7. \A n \in Names : new[n] # 0 =>
        after[new[n]] \in Entities /\ after[new[n]].name = n /\ after[new[n]].abort # "closed"
  <2> SUFFICES ASSUME NEW n \in Names, new[n] # 0
               PROVE  after[new[n]] \in Entities /\ after[new[n]].name = n /\ after[new[n]].abort # "closed"
    OBVIOUS
  <2>1. PICK i \in 1..Slots : i = tab[n] /\ i = new[n] /\ n \notin D
    BY <1>1, <1>2, RunnerBounds
  <2>2. ents[i] \in Entities /\ ents[i].name = n /\ ents[i].abort # "closed"
    BY <1>2, <2>1 DEF Goroutines
  <2>3. \A m \in N : tab[m] # i
    BY <1>4, <2>1, <2>2
  <2> QED
    BY <1>5, <2>1, <2>2, <2>3
<1>8. \A i \in 1..Slots : after[i] \in Entities =>
        /\ after[i].abort = "nil" <=> after[i].pc = "new"
        /\ after[i].pc = "sending" <=> after[i].act # 0
        /\ after[i].dead => after[i].pc = "ended"
        /\ after[i].pc # "ended" /\ after[i].abort # "closed" => new[after[i].name] = i
  <2> SUFFICES ASSUME NEW i \in 1..Slots, after[i] \in Entities
               PROVE  /\ after[i].abort = "nil" <=> after[i].pc = "new"
                      /\ after[i].pc = "sending" <=> after[i].act # 0
                      /\ after[i].dead => after[i].pc = "ended"
                      /\ after[i].pc # "ended" /\ after[i].abort # "closed" => new[after[i].name] = i
    OBVIOUS
  <2>1. CASE \E n \in N : tab[n] = i
    BY <1>4, <2>1 DEF Goroutines
  <2>2. CASE \A n \in N : tab[n] # i
    <3>1. after[i] = ents[i]
      BY <1>5, <2>2
    <3>2. ents[i].name \in Names
      BY <3>1, EntityFields
    <3>3. ents[i].pc # "ended" /\ ents[i].abort # "closed" => tab[ents[i].name] = i
      BY <3>1 DEF Goroutines
    <3>4. ents[i].pc # "ended" /\ ents[i].abort # "closed" => new[ents[i].name] = i
      BY <1>2, <2>2, <3>2, <3>3, RunnerBounds
    <3> QED
      BY <3>1, <3>4 DEF Goroutines
  <2> QED
    BY <2>1, <2>2
<1>9. SendsFewer(after, ents)
  BY <1>4, <1>5 DEF SendsFewer
<1> QED
  BY <1>2, <1>6, <1>7, <1>8, <1>9 DEF Goroutines, new, after

(* A new entity in a free slot, or none.                                      *)
LEMMA StartKeeps ==
  ASSUME NEW ents, NEW tab, Goroutines(ents, tab), DiskType, NEW n \in Names, HasConfig(n), tab[n] = 0,
         Started(n, ents, tab)
  PROVE  /\ Goroutines(entity', table')
         /\ SendsFewer(entity', ents)
<1>1. ents \in [1..Slots -> {Free} \union Entities] /\ tab \in [Names -> 0..Slots]
  BY DEF Goroutines
<1>2. CASE entity' = ents /\ table' = tab
  BY <1>2 DEF SendsFewer
<1>3. ASSUME NEW i \in 1..Slots, ents[i] = Free,
             entity' = [ents EXCEPT ![i] = [pc |-> "new", name |-> n, rev |-> jobs[n].rev,
                                            act |-> 0, abort |-> "nil", dead |-> FALSE]],
             table' = [tab EXCEPT ![n] = i]
      PROVE  /\ Goroutines(entity', table')
             /\ SendsFewer(entity', ents)
  <2> DEFINE e == [pc |-> "new", name |-> n, rev |-> jobs[n].rev, act |-> 0, abort |-> "nil", dead |-> FALSE]
  <2>1. jobs[n] \in Configs
    BY DEF DiskType, HasConfig
  <2>2. /\ e \in Entities /\ e.name = n /\ e.abort = "nil" /\ e.pc = "new" /\ e.act = 0 /\ ~ e.dead
    BY <2>1 DEF Entities, Configs
  <2> HIDE DEF e
  <2>3. /\ entity' \in [1..Slots -> {Free} \union Entities] /\ entity'[i] = e
        /\ \A j \in 1..Slots : j # i => entity'[j] = ents[j]
    BY <1>1, <1>3, <2>2 DEF e
  <2>4. /\ table' \in [Names -> 0..Slots] /\ table'[n] = i
        /\ \A m \in Names : m # n => table'[m] = tab[m]
    BY <1>1, <1>3, RunnerBounds
  <2>5. \A m \in Names : tab[m] # i
    BY <1>3, FreeIsFree, RunnerBounds DEF Goroutines
  <2>6. \A m \in Names : table'[m] # 0 =>
          entity'[table'[m]] \in Entities /\ entity'[table'[m]].name = m /\ entity'[table'[m]].abort # "closed"
    <3> SUFFICES ASSUME NEW m \in Names, table'[m] # 0
                 PROVE  entity'[table'[m]] \in Entities /\ entity'[table'[m]].name = m /\ entity'[table'[m]].abort # "closed"
      OBVIOUS
    <3>1. CASE m = n
      BY <2>2, <2>3, <2>4, <3>1
    <3>2. CASE m # n
      <4>1. table'[m] = tab[m] /\ tab[m] # i /\ tab[m] \in 1..Slots
        BY <1>1, <2>4, <2>5, <3>2, RunnerBounds
      <4> QED
        BY <2>3, <4>1 DEF Goroutines
    <3> QED
      BY <3>1, <3>2
  <2>7. \A j \in 1..Slots : entity'[j] \in Entities =>
          /\ entity'[j].abort = "nil" <=> entity'[j].pc = "new"
          /\ entity'[j].pc = "sending" <=> entity'[j].act # 0
          /\ entity'[j].dead => entity'[j].pc = "ended"
          /\ entity'[j].pc # "ended" /\ entity'[j].abort # "closed" => table'[entity'[j].name] = j
    <3> SUFFICES ASSUME NEW j \in 1..Slots, entity'[j] \in Entities
                 PROVE  /\ entity'[j].abort = "nil" <=> entity'[j].pc = "new"
                        /\ entity'[j].pc = "sending" <=> entity'[j].act # 0
                        /\ entity'[j].dead => entity'[j].pc = "ended"
                        /\ entity'[j].pc # "ended" /\ entity'[j].abort # "closed" => table'[entity'[j].name] = j
      OBVIOUS
    <3>1. CASE j = i
      BY <2>2, <2>3, <2>4, <3>1
    <3>2. CASE j # i
      <4>1. entity'[j] = ents[j] /\ ents[j].name \in Names
        BY <2>3, <3>2, EntityFields
      <4>2. ents[j].pc # "ended" /\ ents[j].abort # "closed" => tab[ents[j].name] = j
        BY <4>1 DEF Goroutines
      <4>3. ents[j].pc # "ended" /\ ents[j].abort # "closed" => table'[ents[j].name] = j
        <5>1. tab[ents[j].name] = j => ents[j].name # n
          BY RunnerBounds
        <5> QED
          BY <2>4, <4>1, <4>2, <5>1
      <4> QED
        BY <4>1, <4>3 DEF Goroutines
    <3> QED
      BY <3>1, <3>2
  <2>8. SendsFewer(entity', ents)
    BY <2>2, <2>3 DEF SendsFewer
  <2> QED
    BY <2>3, <2>4, <2>6, <2>7, <2>8 DEF Goroutines
<1> QED
  BY <1>2, <1>3 DEF Started

(* The goroutine of slot i goes on.                                           *)
LEMMA StepKeeps ==
  ASSUME Goroutines(entity, table), NEW i \in 1..Slots, entity[i] \in Entities, NEW e \in Entities,
         e.name = entity[i].name, e.abort = "closed" <=> entity[i].abort = "closed",
         e.abort = "nil" <=> e.pc = "new", e.pc = "sending" <=> e.act # 0, e.dead => e.pc = "ended",
         entity[i].pc # "ended", NEW ents, ents = [entity EXCEPT ![i] = e]
  PROVE  /\ Goroutines(ents, table)
         /\ ents[i] = e /\ \A j \in 1..Slots : j # i => ents[j] = entity[j]
<1>1. entity \in [1..Slots -> {Free} \union Entities] /\ table \in [Names -> 0..Slots]
  BY DEF Goroutines
<1>2. /\ ents \in [1..Slots -> {Free} \union Entities] /\ ents[i] = e
      /\ \A j \in 1..Slots : j # i => ents[j] = entity[j]
  BY <1>1
<1>3. \A n \in Names : table[n] # 0 =>
        ents[table[n]] \in Entities /\ ents[table[n]].name = n /\ ents[table[n]].abort # "closed"
  <2> SUFFICES ASSUME NEW n \in Names, table[n] # 0
               PROVE  ents[table[n]] \in Entities /\ ents[table[n]].name = n /\ ents[table[n]].abort # "closed"
    OBVIOUS
  <2>1. table[n] \in 1..Slots
    BY <1>1, RunnerBounds
  <2>2. entity[table[n]] \in Entities /\ entity[table[n]].name = n /\ entity[table[n]].abort # "closed"
    BY DEF Goroutines
  <2> QED
    BY <1>2, <2>1, <2>2
<1>4. \A j \in 1..Slots : ents[j] \in Entities =>
          /\ ents[j].abort = "nil" <=> ents[j].pc = "new"
          /\ ents[j].pc = "sending" <=> ents[j].act # 0
          /\ ents[j].dead => ents[j].pc = "ended"
          /\ ents[j].pc # "ended" /\ ents[j].abort # "closed" => table[ents[j].name] = j
  <2> SUFFICES ASSUME NEW j \in 1..Slots, ents[j] \in Entities
               PROVE  /\ ents[j].abort = "nil" <=> ents[j].pc = "new"
                      /\ ents[j].pc = "sending" <=> ents[j].act # 0
                      /\ ents[j].dead => ents[j].pc = "ended"
                      /\ ents[j].pc # "ended" /\ ents[j].abort # "closed" => table[ents[j].name] = j
    OBVIOUS
  <2>1. CASE j = i
    BY <1>2, <2>1 DEF Goroutines
  <2>2. CASE j # i
    BY <1>2, <2>2 DEF Goroutines
  <2> QED
    BY <2>1, <2>2
<1> QED
  BY <1>1, <1>2, <1>3, <1>4 DEF Goroutines

(* Nothing is left of the goroutines when the process has ended.               *)
LEMMA GoneKeeps ==
  ASSUME Gone
  PROVE  /\ Goroutines(entity', table') /\ \A i \in 1..Slots : entity'[i] = Free
         /\ scanner' \in ScannerState /\ queue' = << >> /\ reslist' = {} /\ results' = IdleResults
         /\ IdleResults \in ResultsState /\ IdleResults.pc = "select" /\ IdleResults.todo = {} /\ IdleResults.cur = Zero
<1>1. /\ entity' = [i \in 1..Slots |-> Free] /\ table' = [n \in Names |-> 0]
      /\ scanner' = IdleScanner /\ queue' = << >> /\ reslist' = {} /\ results' = IdleResults
  BY DEF Gone
<1>2. Goroutines(entity', table')
  BY <1>1, FreeIsFree, RunnerBounds DEF Goroutines
<1>3. IdleResults \in ResultsState /\ IdleResults.pc = "select" /\ IdleResults.todo = {} /\ IdleResults.cur = Zero
  BY DEF IdleResults, ResultsState
<1>4. IdleScanner \in ScannerState
  BY DEF IdleScanner, ScannerState
<1> QED
  BY <1>1, <1>2, <1>3, <1>4

LEMMA GoneThreads ==
  ASSUME Gone
  PROVE  ThreadsType'
<1>1. /\ scanner' \in ScannerState /\ queue' = << >> /\ reslist' = {} /\ results' = IdleResults
      /\ IdleResults \in ResultsState /\ IdleResults.pc = "select" /\ IdleResults.todo = {} /\ IdleResults.cur = Zero
      /\ \A i \in 1..Slots : entity'[i] = Free
  BY GoneKeeps
<1>2. << >> \in Seq(ActionIds) /\ Len(<< >>) = 0 /\ Range(<< >>) = {}
  BY DEF Range
<1> QED
  BY <1>1, <1>2, RunnerBounds DEF ThreadsType, Zero, Free

--------------------------------------------------------------------------------
(* Every action keeps the types.                                              *)

LEMMA OperatorTypes ==
  ASSUME TypeInv, NEW n \in Names, WriteConfig(n) \/ RemoveJob(n)
  PROVE  TypeInv'
<1> USE DEF threads, apiSide, disk
<1>1. UNCHANGED <<posted, tried, scanner, queue, reslist, results, entity, table>>
  BY DEF WriteConfig, RemoveJob
<1>2. ApiType' /\ ThreadsType' /\ Goroutines(entity, table)' /\ Known' = Known
  BY <1>1 DEF TypeInv, ApiType, ThreadsType, Goroutines, Known
<1>3. PICK b \in [configs : 0..MaxConfigs, faults : 0..MaxFaults] : b = budget
  BY DEF TypeInv, BudgetType
<1>4. BudgetType'
  <2>1. CASE budget' = [budget EXCEPT !.configs = @ - 1] /\ budget.configs > 0
    <3>1. budget' = [configs |-> b.configs - 1, faults |-> b.faults]
      BY <1>3, <2>1
    <3> QED
      BY <1>3, <2>1, <3>1, RunnerBounds DEF BudgetType
  <2>2. CASE budget' = [budget EXCEPT !.faults = @ - 1] /\ budget.faults > 0
    <3>1. budget' = [configs |-> b.configs, faults |-> b.faults - 1]
      BY <1>3, <2>2
    <3> QED
      BY <1>3, <2>2, <3>1, RunnerBounds DEF BudgetType
  <2> QED
    BY <2>1, <2>2 DEF WriteConfig, RemoveJob
<1>5. inflight' \subseteq inflight
  BY DEF WriteConfig, RemoveJob
<1>6. jobs' \in [Names -> {Absent, Bare} \union Configs]
  BY DEF WriteConfig, RemoveJob, TypeInv, DiskType
<1> QED
  BY <1>1, <1>2, <1>4, <1>5, <1>6 DEF TypeInv, DiskType

LEMMA EndTypes ==
  ASSUME TypeInv, End \/ Restart
  PROVE  TypeInv'
<1> USE DEF threads, apiSide, disk
<1>1. CASE End
  <2>1. UNCHANGED <<jobs, inflight, posted, tried>> /\ Gone
    BY <1>1 DEF End
  <2>2. PICK b \in [configs : 0..MaxConfigs, faults : 0..MaxFaults] : b = budget
    BY DEF TypeInv, BudgetType
  <2>3. budget' = [budget EXCEPT !.faults = @ - 1] /\ budget.faults > 0
    BY <1>1 DEF End
  <2>4. budget' = [configs |-> b.configs, faults |-> b.faults - 1]
    BY <2>2, <2>3
  <2>5. BudgetType'
    BY <2>2, <2>3, <2>4, RunnerBounds DEF BudgetType
  <2>6. Goroutines(entity, table)' /\ ThreadsType' /\ DiskType' /\ ApiType'
    BY <2>1, GoneKeeps, GoneThreads DEF TypeInv, DiskType, ApiType, Known, Goroutines
  <2> QED
    BY <2>5, <2>6 DEF TypeInv
<1>2. CASE Restart
  BY <1>2 DEF Restart, TypeInv, DiskType, ApiType, ThreadsType, BudgetType, Goroutines, Known
<1> QED
  BY <1>1, <1>2

LEMMA ScanTypes ==
  ASSUME TypeInv, ReadDir \/ ProcReap \/ \E n \in Names : ProcDir(n)
  PROVE  /\ TypeInv' /\ UNCHANGED <<jobs, inflight, posted, tried, budget>> /\ SendsFewer(entity', entity)
         /\ Gone \/ UNCHANGED <<queue, reslist, results>>
<1> USE DEF threads, apiSide, disk
<1>1. UNCHANGED <<jobs, inflight, posted, tried, budget>>
  BY DEF ReadDir, ProcReap, ProcDir
<1>2. DiskType' /\ ApiType' /\ BudgetType'
  BY <1>1 DEF TypeInv, DiskType, ApiType, BudgetType, Known
<1>3. /\ Goroutines(entity, table) /\ DiskType /\ scanner \in ScannerState
  BY DEF TypeInv, ThreadsType
<1>4. Gone => ThreadsType' /\ Goroutines(entity, table)' /\ SendsFewer(entity', entity)
  BY <1>1, GoneKeeps, GoneThreads DEF Goroutines, SendsFewer, Free
<1>5. UNCHANGED <<queue, reslist, results>> /\ scanner' \in ScannerState /\ SendsFewer(entity', entity) => ThreadsType'
  BY <1>1 DEF TypeInv, ThreadsType, Known, SendsFewer
<1>6. PICK s \in ScannerState : s = scanner
  BY <1>3
<1>7. ASSUME ReadDir PROVE Goroutines(entity, table)' /\ ThreadsType' /\ SendsFewer(entity', entity)
  <2>1. scanner' \in ScannerState
    BY <1>7 DEF ReadDir, ScannerState
  <2>2. /\ Goroutines(entity, table)' /\ UNCHANGED <<queue, reslist, results>>
        /\ SendsFewer(entity', entity)
    BY <1>3, <1>7 DEF ReadDir, Goroutines, SendsFewer
  <2> QED
    BY <1>5, <2>1, <2>2
<1>8. ASSUME NEW n \in Names, ProcDir(n) PROVE Goroutines(entity, table)' /\ ThreadsType' /\ SendsFewer(entity', entity)
  <2>1. [scanner EXCEPT !.todo = @ \ {n}] \in ScannerState
    <3>1. [scanner EXCEPT !.todo = @ \ {n}] = [pc |-> s.pc, todo |-> s.todo \ {n}, have |-> s.have]
      BY <1>6 DEF ScannerState
    <3> QED
      BY <3>1 DEF ScannerState
  <2>2. CASE scanner' = [scanner EXCEPT !.todo = @ \ {n}] /\ UNCHANGED <<up, table, entity, queue, reslist, results>>
    BY <1>3, <1>5, <2>1, <2>2 DEF Goroutines, SendsFewer
  <2>3. CASE /\ HasConfig(n) /\ table[n] = 0 /\ Started(n, entity, table)
             /\ scanner' = [scanner EXCEPT !.todo = @ \ {n}] /\ UNCHANGED <<queue, reslist, results>>
    BY <1>3, <1>5, <2>1, <2>3, StartKeeps DEF Goroutines
  <2>4. CASE /\ HasConfig(n) /\ table[n] # 0 /\ CanStop(table[n])
             /\ Started(n, Collected(Stopped(table[n]), [table EXCEPT ![n] = 0]), [table EXCEPT ![n] = 0])
             /\ scanner' = [scanner EXCEPT !.todo = @ \ {n}] /\ UNCHANGED <<queue, reslist, results>>
    <3> DEFINE after == Stopped(table[n])
               tab == [table EXCEPT ![n] = 0]
    <3>1. table \in [Names -> 0..Slots] /\ entity \in [1..Slots -> {Free} \union Entities]
      BY <1>3 DEF Goroutines
    <3>2. after = Told(entity, table, {n})
      BY <2>4, <3>1, RunnerBounds DEF Stopped, Told
    <3>3. tab = Dropped(table, {n})
      BY <3>1 DEF Dropped
    <3>4. tab[n] = 0
      BY <3>1
    <3> HIDE DEF after, tab
    <3>5. Goroutines(after, tab) /\ SendsFewer(after, entity)
      <4>1. /\ {n} \in SUBSET Names /\ {n} \subseteq {n} /\ {n} \ {n} = {}
            /\ entity[table[n]].abort # "nil"
        BY <2>4 DEF CanStop
      <4> QED
        BY <1>3, <3>2, <3>3, <4>1, StopKeeps
    <3> DEFINE ents == Collected(after, tab)
    <3>7. Goroutines(ents, tab) /\ SendsFewer(ents, after)
      BY <3>5, CollectedKeeps
    <3>8. Started(n, ents, tab)
      BY <2>4 DEF after, tab
    <3> HIDE DEF ents
    <3>9. Goroutines(entity', table') /\ SendsFewer(entity', ents)
      BY <1>3, <2>4, <3>4, <3>7, <3>8, StartKeeps
    <3>10. SendsFewer(entity', entity)
      BY <3>5, <3>7, <3>9 DEF SendsFewer
    <3> QED
      BY <1>5, <2>1, <2>4, <3>9, <3>10 DEF Goroutines
  <2>5. CASE Gone
    BY <1>4, <2>5
  <2> QED
    BY <1>8, <2>2, <2>3, <2>4, <2>5 DEF ProcDir
<1>9. ASSUME ProcReap PROVE Goroutines(entity, table)' /\ ThreadsType' /\ SendsFewer(entity', entity)
  <2> DEFINE drop == Removed \union Dead
             tab == [n \in Names |-> IF n \in drop THEN 0 ELSE table[n]]
             stopped == [i \in 1..Slots |->
                           IF \E n \in Removed : table[n] = i
                           THEN [entity[i] EXCEPT !.abort = "closed"] ELSE entity[i]]
  <2>1. CASE Gone
    BY <1>4, <2>1
  <2>2. CASE /\ \A n \in Removed : CanStop(table[n])
             /\ table' = tab /\ entity' = Collected(stopped, tab)
             /\ scanner' = IdleScanner /\ UNCHANGED <<queue, reslist, results>>
    <3>1. /\ Removed \in SUBSET Names /\ drop \in SUBSET Names /\ Removed \subseteq drop
          /\ \A n \in Removed : entity[table[n]].abort # "nil"
      BY <2>2 DEF Removed, Dead, CanStop
    <3>2. \A n \in drop \ Removed : table[n] = 0 \/ entity[table[n]].pc = "ended"
      <4> SUFFICES ASSUME NEW n \in Names, table[n] # 0, entity[table[n]].dead
                   PROVE  entity[table[n]].pc = "ended"
        BY DEF Dead
      <4>1. table[n] \in 1..Slots /\ entity[table[n]] \in Entities
        BY <1>3, RunnerBounds DEF Goroutines
      <4> QED
        BY <1>3, <4>1 DEF Goroutines
    <3>7. stopped = Told(entity, table, Removed) /\ tab = Dropped(table, drop)
      BY DEF Told, Dropped
    <3> HIDE DEF drop, stopped, tab
    <3>3. Goroutines(stopped, tab) /\ SendsFewer(stopped, entity)
      BY <1>3, <3>1, <3>2, <3>7, StopKeeps
    <3>4. Goroutines(Collected(stopped, tab), tab) /\ SendsFewer(Collected(stopped, tab), stopped)
      BY <3>3, CollectedKeeps
    <3>5. Goroutines(entity', table') /\ SendsFewer(entity', stopped)
      BY <2>2, <3>4 DEF stopped, tab
    <3>8. SendsFewer(entity', entity)
      BY <3>3, <3>5 DEF SendsFewer
    <3>6. IdleScanner \in ScannerState
      BY DEF IdleScanner, ScannerState
    <3> QED
      BY <1>5, <2>2, <3>5, <3>6, <3>8 DEF Goroutines
  <2> QED
    BY <1>9, <2>1, <2>2 DEF ProcReap
<1> QED
  <2>1. Goroutines(entity, table)' /\ ThreadsType' /\ SendsFewer(entity', entity)
    BY <1>7, <1>8, <1>9
  <2>2. Gone \/ UNCHANGED <<queue, reslist, results>>
    BY DEF ReadDir, ProcDir, ProcReap
  <2> QED
    BY <1>1, <1>2, <2>1, <2>2 DEF TypeInv

(* A step of a goroutine that does not send changes its own record only.       *)
LEMMA PlainSteps ==
  ASSUME TypeInv, NEW i \in 1..Slots, Begin(i) \/ Abort(i) \/ Fire(i) \/ LaunchFails(i)
  PROVE  /\ Goroutines(entity, table)'
         /\ SendsFewer(entity', entity)
<1>1. Goroutines(entity, table) /\ entity \in [1..Slots -> {Free} \union Entities]
  BY DEF TypeInv, Goroutines
<1>2. entity[i].pc \in {"new", "waiting", "launching"} /\ entity[i] \in Entities
  <2>1. entity[i] \in {Free} \union Entities
    BY <1>1
  <2> QED
    BY <2>1 DEF Begin, Abort, Fire, LaunchFails, Free
<1>3. PICK old \in Entities : old = entity[i]
  BY <1>2
<1>4. /\ old.abort = "nil" <=> old.pc = "new"
      /\ old.pc = "sending" <=> old.act # 0
      /\ old.dead => old.pc = "ended"
      /\ old.pc \in {"new", "waiting", "launching"}
  BY <1>1, <1>2, <1>3 DEF Goroutines
<1>5. old.act = 0 /\ ~old.dead /\ table' = table
  BY <1>4 DEF Begin, Abort, Fire, LaunchFails, EntityUnchanged
<1>6. PICK e \in Entities :
        /\ e.name = old.name /\ e.act = 0 /\ e.pc \in {"waiting", "launching", "ended"}
        /\ (e.abort = "closed" <=> old.abort = "closed") /\ e.abort # "nil"
        /\ e.dead => e.pc = "ended"
        /\ \/ entity' = [entity EXCEPT ![i] = e]
           \/ entity' = Collected([entity EXCEPT ![i] = e], table)
  <2> DEFINE Changed(e) ==
        /\ e.name = old.name /\ e.act = 0 /\ e.pc \in {"waiting", "launching", "ended"}
        /\ (e.abort = "closed" <=> old.abort = "closed") /\ e.abort # "nil"
        /\ e.dead => e.pc = "ended"
  <2>1. CASE Begin(i)
    <3> DEFINE first == [old EXCEPT !.pc = "waiting"]
               e == [first EXCEPT !.abort = "open"]
    <3>1. entity[i].pc = "new" /\ entity' = [entity EXCEPT ![i].pc = "waiting", ![i].abort = "open"]
      BY <2>1 DEF Begin
    <3>2. e \in Entities /\ Changed(e)
      <4>1. first \in Entities /\ first.pc = "waiting" /\ first.name = old.name /\ first.act = 0 /\ ~first.dead
        BY <1>5 DEF Entities
      <4> HIDE DEF first
      <4>2. /\ e \in Entities /\ e.pc = "waiting" /\ e.name = old.name /\ e.act = 0 /\ ~e.dead
            /\ e.abort = "open"
        BY <4>1 DEF Entities
      <4> HIDE DEF e
      <4> QED
        BY <1>3, <1>4, <3>1, <4>2
    <3>3. entity' = [entity EXCEPT ![i] = e]
      <4>1. entity' = [[entity EXCEPT ![i] = first] EXCEPT ![i] = [[entity EXCEPT ![i] = first][i] EXCEPT !.abort = "open"]]
        BY <1>3, <3>1, Zenon
      <4>2. [entity EXCEPT ![i] = first][i] = first
        BY <1>1, Zenon
      <4>3. entity' = [[entity EXCEPT ![i] = first] EXCEPT ![i] = e]
        BY <4>1, <4>2, Zenon
      <4> HIDE DEF first, e
      <4> QED
        BY <1>1, <4>3
    <3> HIDE DEF e, Changed
    <3> QED
      BY <3>2, <3>3 DEF Changed
  <2>2. CASE Abort(i)
    <3> DEFINE e == [old EXCEPT !.pc = "ended"]
    <3>1. entity' = Collected([entity EXCEPT ![i].pc = "ended"], table) /\ entity[i].pc = "waiting"
      BY <2>2 DEF Abort
    <3>2. e \in Entities /\ Changed(e)
      <4>1. /\ e \in Entities /\ e.pc = "ended" /\ e.name = old.name /\ e.act = 0
            /\ e.abort = old.abort
        BY <1>5 DEF Entities
      <4> HIDE DEF e
      <4> QED
        BY <1>3, <1>4, <3>1, <4>1
    <3>3. entity' = Collected([entity EXCEPT ![i] = e], table)
      BY <1>3, <3>1, Zenon
    <3> HIDE DEF e, Changed
    <3> QED
      BY <3>2, <3>3 DEF Changed
  <2>3. CASE Fire(i)
    <3> DEFINE e == [old EXCEPT !.pc = "launching"]
    <3>1. entity' = [entity EXCEPT ![i].pc = "launching"] /\ entity[i].pc = "waiting"
      BY <2>3 DEF Fire
    <3>2. e \in Entities /\ Changed(e)
      <4>1. /\ e \in Entities /\ e.pc = "launching" /\ e.name = old.name /\ e.act = 0
            /\ e.abort = old.abort /\ ~e.dead
        BY <1>5 DEF Entities
      <4> HIDE DEF e
      <4> QED
        BY <1>3, <1>4, <3>1, <4>1
    <3>3. entity' = [entity EXCEPT ![i] = e]
      BY <1>3, <3>1, Zenon
    <3> HIDE DEF e, Changed
    <3> QED
      BY <3>2, <3>3 DEF Changed
  <2>4. CASE LaunchFails(i)
    <3> DEFINE first == [old EXCEPT !.pc = "ended"]
               e == [first EXCEPT !.dead = TRUE]
    <3>1. /\ entity[i].pc = "launching"
          /\ entity' = Collected([entity EXCEPT ![i].pc = "ended", ![i].dead = TRUE], table)
      BY <2>4 DEF LaunchFails
    <3>2. e \in Entities /\ Changed(e)
      <4>1. /\ first \in Entities /\ first.pc = "ended" /\ first.name = old.name /\ first.act = 0
            /\ first.abort = old.abort
        BY <1>5 DEF Entities
      <4> HIDE DEF first
      <4>2. /\ e \in Entities /\ e.pc = "ended" /\ e.name = old.name /\ e.act = 0
            /\ e.abort = old.abort
        BY <4>1 DEF Entities
      <4> HIDE DEF e
      <4> QED
        BY <1>3, <1>4, <3>1, <4>2
    <3>3. entity' = Collected([entity EXCEPT ![i] = e], table)
      <4>1. [entity EXCEPT ![i].pc = "ended", ![i].dead = TRUE]
              = [[entity EXCEPT ![i] = first] EXCEPT ![i] = [[entity EXCEPT ![i] = first][i] EXCEPT !.dead = TRUE]]
        BY <1>3, Zenon
      <4>2. [entity EXCEPT ![i] = first][i] = first
        BY <1>1, Zenon
      <4>3. [entity EXCEPT ![i].pc = "ended", ![i].dead = TRUE] = [[entity EXCEPT ![i] = first] EXCEPT ![i] = e]
        BY <4>1, <4>2, Zenon
      <4>4. [[entity EXCEPT ![i] = first] EXCEPT ![i] = e] = [entity EXCEPT ![i] = e]
        <5> HIDE DEF first, e
        <5> QED
          BY <1>1
      <4> QED
        BY <3>1, <4>3, <4>4, Zenon
    <3> HIDE DEF e, Changed
    <3> QED
      BY <3>2, <3>3 DEF Changed
  <2> QED
    BY <2>1, <2>2, <2>3, <2>4
<1>7. PICK ents : ents = [entity EXCEPT ![i] = e]
  OBVIOUS
<1>8. /\ Goroutines(ents, table) /\ ents[i] = e /\ \A j \in 1..Slots : j # i => ents[j] = entity[j]
  <2>1. /\ e.name = entity[i].name /\ (e.abort = "closed" <=> entity[i].abort = "closed")
        /\ (e.abort = "nil" <=> e.pc = "new") /\ (e.pc = "sending" <=> e.act # 0)
        /\ (e.dead => e.pc = "ended") /\ entity[i].pc # "ended"
    BY <1>2, <1>3, <1>6
  <2> QED
    BY <1>1, <1>2, <1>7, <2>1, StepKeeps
<1>9. CASE entity' = ents
  BY <1>5, <1>6, <1>8, <1>9 DEF SendsFewer
<1>10. CASE entity' = Collected(ents, table)
  <2>1. Goroutines(Collected(ents, table), table)
    BY <1>8, CollectedKeeps
  <2>2. ents \in [1..Slots -> {Free} \union Entities]
    BY <1>8 DEF Goroutines
  <2>3. \A j \in 1..Slots : entity'[j] = ents[j] \/ entity'[j] = Free
    <3> SUFFICES ASSUME NEW j \in 1..Slots PROVE entity'[j] = ents[j] \/ entity'[j] = Free
      OBVIOUS
    <3>1. Collected(ents, table)[j] = ents[j] \/ Collected(ents, table)[j] = Free
      BY DEF Collected
    <3> QED
      BY <1>10, <3>1
  <2>4. SendsFewer(entity', entity)
    BY <1>6, <1>8, <2>3 DEF Free, SendsFewer
  <2> QED
    BY <1>5, <1>10, <2>1, <2>4
<1> QED
  BY <1>6, <1>7, <1>9, <1>10

LEMMA KnownIds ==
  ASSUME ApiType
  PROVE  Known \subseteq ActionIds /\ Zero \notin Known
BY RunnerBounds DEF ApiType, ActionIds, Zero

LEMMA ResultsFields ==
  ASSUME NEW r \in ResultsState
  PROVE  /\ r.pc \in {"select", "create", "write", "scan", "sweep", "complete"}
         /\ r.cur \in {Zero} \union ActionIds /\ r.todo \in SUBSET ({Zero} \union ActionIds)
         /\ r = [pc |-> r.pc, cur |-> r.cur, todo |-> r.todo]
BY DEF ResultsState

(* Posting an action gives it the next number.                                *)
Posts(i) ==
  \E id \in ActionIds :
    /\ id \notin Known /\ Known' = Known \union {id} /\ (\A k \in Known : posted'[k] = posted[k])
    /\ posted'[id] = [name |-> entity[i].name, expired |-> FALSE]
    /\ entity'[i].pc = "sending" /\ entity'[i].act = id

LEMMA LaunchIs ==
  ASSUME TypeInv, NEW i \in 1..Slots, Launch(i)
  PROVE  /\ Goroutines(entity, table)' /\ ApiType' /\ \A j \in 1..Slots : j # i => entity'[j] = entity[j]
         /\ Posts(i) \/ (entity'[i].pc = "waiting" /\ UNCHANGED posted)
<1>1. Goroutines(entity, table) /\ entity \in [1..Slots -> {Free} \union Entities] /\ ApiType
  BY DEF TypeInv, Goroutines
<1>2. entity[i].pc = "launching" /\ entity[i] \in Entities /\ table' = table /\ tried' = tried
  <2>1. entity[i] \in {Free} \union Entities
    BY <1>1
  <2> QED
    BY <2>1 DEF Launch, Free, EntityUnchanged
<1>3. PICK old \in Entities : old = entity[i]
  BY <1>2
<1>4. /\ old.act = 0 /\ ~old.dead /\ old.abort # "nil" /\ old.pc = "launching" /\ old.name \in Names
      /\ old.dead \in BOOLEAN
  BY <1>1, <1>2, <1>3, EntityFields DEF Goroutines
<1>5. PICK k \in 0..MaxActions : Known = 1..k
  BY <1>1 DEF ApiType
<1>6. Cardinality(Known) = k
  BY <1>5, FS_Interval
<1> DEFINE id == k + 1
<1>7. CASE /\ id \in ActionIds
           /\ posted' = [m \in 1..id |-> IF m = id THEN [name |-> old.name, expired |-> FALSE] ELSE posted[m]]
           /\ entity' = [entity EXCEPT ![i].pc = "sending", ![i].act = id]
  <2> DEFINE first == [old EXCEPT !.pc = "sending"]
             e == [first EXCEPT !.act = id]
             new == [name |-> old.name, expired |-> FALSE]
  <2>1. /\ e \in Entities /\ e.pc = "sending" /\ e.act = id /\ e.abort = old.abort /\ e.name = old.name
        /\ e.dead = old.dead
    <3>1. /\ first \in Entities /\ first.pc = "sending" /\ first.abort = old.abort /\ first.name = old.name
          /\ first.dead = old.dead
      BY DEF Entities
    <3> HIDE DEF first
    <3> QED
      BY <1>7, <3>1 DEF Entities
  <2>2. PICK ents : ents = [entity EXCEPT ![i] = e]
    OBVIOUS
  <2>3. entity' = ents
    <3>1. entity' = [[entity EXCEPT ![i] = first] EXCEPT ![i] = [[entity EXCEPT ![i] = first][i] EXCEPT !.act = id]]
      BY <1>3, <1>7, Zenon
    <3>2. [entity EXCEPT ![i] = first][i] = first
      BY <1>1, Zenon
    <3>3. entity' = [[entity EXCEPT ![i] = first] EXCEPT ![i] = e]
      BY <3>1, <3>2, Zenon
    <3> HIDE DEF first, e
    <3> QED
      BY <1>1, <2>2, <3>3
  <2> HIDE DEF e
  <2>4. id # 0
    BY <1>5, RunnerBounds
  <2>5. /\ Goroutines(ents, table) /\ ents[i] = e /\ \A j \in 1..Slots : j # i => ents[j] = entity[j]
    <3>1. /\ e.name = entity[i].name /\ (e.abort = "closed" <=> entity[i].abort = "closed")
          /\ (e.abort = "nil" <=> e.pc = "new") /\ (e.pc = "sending" <=> e.act # 0)
          /\ (e.dead => e.pc = "ended") /\ entity[i].pc # "ended"
      BY <1>2, <1>3, <1>4, <2>1, <2>4
    <3> QED
      BY <1>1, <1>2, <2>1, <2>2, <3>1, StepKeeps
  <2>6. /\ Known' = 1..id /\ id \in 0..MaxActions /\ id \notin Known /\ 1..id = 1..k \union {id}
        /\ \A m \in Known : m # id
    BY <1>5, <1>7, RunnerBounds DEF Known, ActionIds
  <2>7. new \in [name : Names, expired : BOOLEAN]
    BY <1>4
  <2> HIDE DEF new
  <2>8. posted' = [m \in 1..id |-> IF m = id THEN new ELSE posted[m]]
    BY <1>7 DEF new
  <2>9. posted'[id] = new /\ \A m \in Known : posted'[m] = posted[m]
    BY <1>5, <2>4, <2>6, <2>8
  <2>10. ApiType'
    <3>1. \A m \in Known' : posted'[m] \in [name : Names, expired : BOOLEAN]
      BY <1>1, <1>5, <2>6, <2>7, <2>9 DEF ApiType
    <3>2. tried' \subseteq Known' /\ \E m \in 0..MaxActions : Known' = 1..m
      BY <1>1, <1>2, <1>5, <2>6 DEF ApiType
    <3> QED
      BY <3>1, <3>2 DEF ApiType
  <2>11. Posts(i)
    <3>1. /\ id \in ActionIds /\ id \notin Known /\ Known' = Known \union {id}
          /\ posted'[id] = [name |-> entity[i].name, expired |-> FALSE]
      BY <1>3, <1>5, <1>7, <2>6, <2>9 DEF new
    <3> HIDE DEF id
    <3> QED
      BY <2>1, <2>3, <2>5, <2>9, <3>1 DEF Posts
  <2> QED
    <3>1. Goroutines(entity', table')
      BY <1>2, <2>3, <2>5
    <3> QED
      BY <2>3, <2>5, <2>10, <2>11, <3>1
<1>8. CASE entity' = [entity EXCEPT ![i].pc = "waiting"] /\ UNCHANGED posted
  <2> DEFINE e == [old EXCEPT !.pc = "waiting"]
  <2>1. /\ e \in Entities /\ e.pc = "waiting" /\ e.act = 0 /\ e.abort = old.abort /\ e.name = old.name
        /\ ~e.dead
    BY <1>4 DEF Entities
  <2>2. PICK ents : ents = [entity EXCEPT ![i] = e]
    OBVIOUS
  <2>3. entity' = ents
    BY <1>3, <1>8, <2>2, Zenon
  <2> HIDE DEF e
  <2>5. /\ Goroutines(ents, table) /\ ents[i] = e /\ \A j \in 1..Slots : j # i => ents[j] = entity[j]
    <3>1. /\ e.name = entity[i].name /\ (e.abort = "closed" <=> entity[i].abort = "closed")
          /\ (e.abort = "nil" <=> e.pc = "new") /\ (e.pc = "sending" <=> e.act # 0)
          /\ (e.dead => e.pc = "ended") /\ entity[i].pc # "ended"
      BY <1>2, <1>3, <1>4, <2>1
    <3> QED
      BY <1>1, <1>2, <2>1, <2>2, <3>1, StepKeeps
  <2>6. ApiType'
    BY <1>1, <1>2, <1>8 DEF ApiType, Known
  <2> QED
    BY <1>2, <1>8, <2>1, <2>3, <2>5, <2>6
<1> QED
  <2>1. id = Cardinality(DOMAIN posted) + 1 /\ old.name = entity[i].name
    BY <1>3, <1>6 DEF Known
  <2> QED
    BY <1>7, <1>8, <2>1 DEF Launch

LEMMA SendIs ==
  ASSUME TypeInv, NEW i \in 1..Slots, SendResult(i)
  PROVE  /\ Goroutines(entity, table)' /\ \A j \in 1..Slots : j # i => entity'[j] = entity[j]
         /\ entity[i].pc = "sending" /\ entity'[i].pc = "waiting" /\ entity[i].act \in Known
         /\ queue' = Append(queue, entity[i].act) /\ Len(queue) < ResultsCap
<1>1. Goroutines(entity, table) /\ entity \in [1..Slots -> {Free} \union Entities]
  BY DEF TypeInv, Goroutines
<1>2. entity[i].pc = "sending" /\ entity[i] \in Entities /\ table' = table
  <2>1. entity[i] \in {Free} \union Entities
    BY <1>1
  <2> QED
    BY <2>1 DEF SendResult, Free, EntityUnchanged
<1>3. PICK old \in Entities : old = entity[i]
  BY <1>2
<1>4. ~old.dead /\ old.abort # "nil" /\ old.dead \in BOOLEAN
  BY <1>1, <1>2, <1>3, EntityFields DEF Goroutines
<1> DEFINE first == [old EXCEPT !.pc = "waiting"]
           e == [first EXCEPT !.act = 0]
<1>5. /\ e \in Entities /\ e.pc = "waiting" /\ e.act = 0 /\ e.abort = old.abort /\ e.name = old.name
      /\ e.dead = old.dead
  <2>1. /\ first \in Entities /\ first.pc = "waiting" /\ first.abort = old.abort /\ first.name = old.name
        /\ first.dead = old.dead
    BY DEF Entities
  <2> HIDE DEF first
  <2> QED
    BY <2>1 DEF Entities
<1>6. PICK ents : ents = [entity EXCEPT ![i] = e]
  OBVIOUS
<1>7. entity' = ents
  <2>1. entity' = [entity EXCEPT ![i].pc = "waiting", ![i].act = 0]
    BY DEF SendResult
  <2>2. entity' = [[entity EXCEPT ![i] = first] EXCEPT ![i] = [[entity EXCEPT ![i] = first][i] EXCEPT !.act = 0]]
    BY <1>3, <2>1, Zenon
  <2>3. [entity EXCEPT ![i] = first][i] = first
    BY <1>1, Zenon
  <2>4. entity' = [[entity EXCEPT ![i] = first] EXCEPT ![i] = e]
    BY <2>2, <2>3, Zenon
  <2> HIDE DEF first, e
  <2> QED
    BY <1>1, <1>6, <2>4
<1> HIDE DEF e
<1>8. /\ Goroutines(ents, table) /\ ents[i] = e /\ \A j \in 1..Slots : j # i => ents[j] = entity[j]
  <2>1. /\ e.name = entity[i].name /\ (e.abort = "closed" <=> entity[i].abort = "closed")
        /\ (e.abort = "nil" <=> e.pc = "new") /\ (e.pc = "sending" <=> e.act # 0)
        /\ (e.dead => e.pc = "ended") /\ entity[i].pc # "ended"
    BY <1>2, <1>3, <1>4, <1>5
  <2> QED
    BY <1>1, <1>2, <1>5, <1>6, <2>1, StepKeeps
<1>9. entity[i].act \in Known
  BY <1>2 DEF TypeInv, ThreadsType
<1> QED
  BY <1>2, <1>5, <1>7, <1>8, <1>9 DEF SendResult, RoomInQueue

LEMMA EntityTypes ==
  ASSUME TypeInv, NEW i \in 1..Slots, EntityStep(i)
  PROVE  TypeInv'
<1> USE DEF threads, apiSide, disk
<1>1. CASE Begin(i) \/ Abort(i) \/ Fire(i) \/ LaunchFails(i)
  <2>1. UNCHANGED <<jobs, inflight, posted, tried, scanner, queue, reslist, results, budget>>
    BY <1>1 DEF Begin, Abort, Fire, LaunchFails, EntityUnchanged
  <2>2. Goroutines(entity, table)' /\ SendsFewer(entity', entity)
    BY <1>1, PlainSteps
  <2>3. DiskType' /\ ApiType' /\ BudgetType'
    BY <2>1 DEF TypeInv, DiskType, ApiType, BudgetType, Known
  <2>4. ThreadsType'
    BY <2>1, <2>2 DEF TypeInv, ThreadsType, Known, SendsFewer
  <2> QED
    BY <2>2, <2>3, <2>4 DEF TypeInv
<1>2. CASE Launch(i)
  <2>1. UNCHANGED <<jobs, inflight, tried, scanner, queue, reslist, results, budget>>
    BY <1>2 DEF Launch, EntityUnchanged
  <2>2. /\ Goroutines(entity, table)' /\ ApiType' /\ \A j \in 1..Slots : j # i => entity'[j] = entity[j]
        /\ Posts(i) \/ (entity'[i].pc = "waiting" /\ UNCHANGED posted)
    BY <1>2, LaunchIs
  <2>3. /\ Known \subseteq Known' /\ \A k \in Known : posted'[k].name = posted[k].name
        /\ entity'[i].pc = "sending" => entity'[i].act \in Known'
    BY <2>2 DEF Posts, Known
  <2>4. DiskType' /\ BudgetType'
    BY <2>1, <2>3 DEF TypeInv, DiskType, BudgetType
  <2>5. ThreadsType'
    BY <2>1, <2>2, <2>3 DEF TypeInv, ThreadsType
  <2> QED
    BY <2>2, <2>4, <2>5 DEF TypeInv
<1>3. CASE SendResult(i)
  <2>1. UNCHANGED <<jobs, inflight, posted, tried, scanner, reslist, results, budget>>
    BY <1>3 DEF SendResult, EntityUnchanged
  <2>2. /\ Goroutines(entity, table)' /\ \A j \in 1..Slots : j # i => entity'[j] = entity[j]
        /\ entity[i].pc = "sending" /\ entity'[i].pc = "waiting" /\ entity[i].act \in Known
        /\ queue' = Append(queue, entity[i].act) /\ Len(queue) < ResultsCap
    BY <1>3, SendIs
  <2>3. DiskType' /\ ApiType' /\ BudgetType'
    BY <2>1 DEF TypeInv, DiskType, ApiType, BudgetType, Known
  <2>4. queue' \in Seq(ActionIds) /\ Len(queue') <= ResultsCap /\ Range(queue') \subseteq Known
    <3>1. queue \in Seq(ActionIds) /\ entity[i].act \in ActionIds /\ Range(queue) \subseteq Known /\ Len(queue) \in Nat
      BY <2>2, KnownIds, LenProperties DEF TypeInv, ThreadsType
    <3> QED
      BY <2>2, <3>1, AppendRange, RunnerBounds
  <2>5. ThreadsType'
    BY <2>1, <2>2, <2>4 DEF TypeInv, ThreadsType, Known
  <2> QED
    BY <2>2, <2>3, <2>5 DEF TypeInv
<1> QED
  BY <1>1, <1>2, <1>3 DEF EntityStep

(* The directory of a job is there once its files are written.                *)
LEMMA DirectoryMade ==
  ASSUME DiskType, NEW n \in Names, MkdirAll(n)
  PROVE  jobs' \in [Names -> {Absent, Bare} \union Configs]
BY DEF DiskType, MkdirAll

LEMMA FileIs ==
  ASSUME ApiType, NEW id \in Known, NEW whole \in BOOLEAN
  PROVE  /\ File(id, whole) \in [name : Names, id : ActionIds, whole : BOOLEAN]
         /\ File(id, whole).id = id /\ File(id, whole).name = posted[id].name
         /\ File(id, whole).whole = whole /\ posted[id].name \in Names
BY KnownIds DEF ApiType, File

LEMMA ResultsTypes ==
  ASSUME TypeInv, ResultsStep
  PROVE  TypeInv'
<1> USE DEF threads, apiSide, disk
<1>1. DiskType /\ ApiType /\ ThreadsType /\ BudgetType /\ Goroutines(entity, table)
  BY DEF TypeInv
<1>2. PICK r \in ResultsState : r = results
  BY <1>1 DEF ThreadsType
<1>3. /\ r.todo \subseteq reslist /\ r.cur \in {Zero} \union Known
      /\ r.pc \in {"create", "write"} => r.cur \in Known
      /\ reslist \subseteq {Zero} \union Known /\ Known \subseteq ActionIds /\ Zero \notin Known
      /\ r.pc = "complete" => r.cur \in reslist \ r.todo
  BY <1>1, <1>2, KnownIds DEF ThreadsType
<1>4. UNCHANGED <<jobs, inflight, posted, tried>> => DiskType' /\ ApiType'
  BY <1>1 DEF DiskType, ApiType, Known
<1>5. UNCHANGED <<entity, table, posted>> => Goroutines(entity, table)' /\ Known' = Known
  BY <1>1 DEF Goroutines, Known
<1>6. UNCHANGED budget => BudgetType'
  BY <1>1 DEF BudgetType
<1>7. IdleResults \in ResultsState /\ IdleResults.pc = "select" /\ IdleResults.todo = {} /\ IdleResults.cur = Zero
  BY DEF IdleResults, ResultsState
<1>8. ASSUME UNCHANGED <<posted, tried, entity, scanner, queue>>, results' = IdleResults,
             reslist' \subseteq {Zero} \union Known
      PROVE  ThreadsType'
  BY <1>1, <1>7, <1>8 DEF ThreadsType, Known
<1>9. ASSUME UNCHANGED <<jobs, posted, tried>>,
             \A f \in inflight' : f \in inflight \/ \E whole \in BOOLEAN : f = File(r.cur, whole) /\ r.cur \in Known
      PROVE  DiskType' /\ ApiType'
  BY <1>1, <1>9, FileIs DEF DiskType, ApiType, Known
<1>10. CASE TakeResult
  <2>1. /\ results' = [results EXCEPT !.pc = "create", !.cur = Head(queue)] /\ queue' = Tail(queue)
        /\ UNCHANGED <<jobs, inflight, posted, tried, reslist, table, entity, scanner, budget>> /\ queue # << >>
    BY <1>10 DEF TakeResult, ResultsUnchanged
  <2>2. /\ Head(queue) \in Known /\ queue' \in Seq(ActionIds) /\ Len(queue') <= ResultsCap
        /\ Range(queue') \subseteq Known
    <3>1. queue \in Seq(ActionIds) /\ Len(queue) <= ResultsCap /\ Range(queue) \subseteq Known
      BY <1>1 DEF ThreadsType
    <3>2. /\ Head(queue) \in ActionIds /\ Tail(queue) \in Seq(ActionIds)
          /\ Len(Tail(queue)) = Len(queue) - 1 /\ Len(queue) \in Nat \ {0}
          /\ Range(queue) = {Head(queue)} \union Range(Tail(queue))
      BY <2>1, <3>1, TailRange
    <3> QED
      BY <2>1, <3>1, <3>2, RunnerBounds
  <2>3. results' = [pc |-> "create", cur |-> Head(queue), todo |-> r.todo]
    BY <1>2, <2>1, ResultsFields DEF ResultsState
  <2>4. results' \in ResultsState
    BY <1>2, <1>3, <2>2, <2>3 DEF ResultsState
  <2>5. ThreadsType'
    BY <1>1, <1>3, <2>1, <2>2, <2>3, <2>4 DEF ThreadsType, Known
  <2> QED
    BY <1>4, <1>5, <1>6, <2>1, <2>5 DEF TypeInv
<1>11. CASE CreateFile
  <2>1. /\ results' = [results EXCEPT !.pc = "write"] /\ results.pc = "create" /\ MkdirAll(posted[results.cur].name)
        /\ inflight' = (inflight \ {File(results.cur, TRUE)}) \union {File(results.cur, FALSE)}
        /\ UNCHANGED <<posted, tried, queue, reslist, table, entity, scanner, budget>>
    BY <1>11 DEF CreateFile, ResultsUnchanged
  <2>2. results' = [pc |-> "write", cur |-> r.cur, todo |-> r.todo]
    BY <1>2, <2>1 DEF ResultsState
  <2>3. results' \in ResultsState
    BY <1>2, <2>2 DEF ResultsState
  <2>4. ThreadsType'
    BY <1>1, <1>2, <1>3, <2>1, <2>2, <2>3 DEF ThreadsType, Known
  <2>5. jobs' \in [Names -> {Absent, Bare} \union Configs]
    BY <1>1, <1>2, <1>3, <2>1, FileIs, DirectoryMade
  <2>6. r.cur \in Known /\ \A f \in inflight' : f \in inflight \/ f = File(r.cur, FALSE)
    BY <1>2, <1>3, <2>1
  <2>7. DiskType' /\ ApiType'
    <3>1. ApiType'
      BY <1>1, <2>1 DEF ApiType, Known
    <3>2. /\ File(r.cur, FALSE) \in [name : Names, id : ActionIds, whole : BOOLEAN]
          /\ File(r.cur, FALSE).id = r.cur /\ File(r.cur, FALSE).name = posted[r.cur].name
      BY <1>1, <2>6, FileIs
    <3>3. DiskType'
      BY <1>1, <2>1, <2>5, <2>6, <3>2 DEF DiskType, Known
    <3> QED
      BY <3>1, <3>3
  <2> QED
    BY <1>5, <1>6, <2>1, <2>4, <2>7 DEF TypeInv
<1>12. CASE WriteFile
  <2>1. /\ results' = IdleResults /\ results.pc = "write" /\ reslist' = reslist \union {r.cur}
        /\ \A f \in inflight' : f \in inflight \/ f = File(r.cur, TRUE)
        /\ UNCHANGED <<jobs, posted, tried, queue, table, entity, scanner, budget>>
    BY <1>2, <1>12 DEF WriteFile, ResultsUnchanged
  <2>2. DiskType' /\ ApiType'
    BY <1>2, <1>3, <1>9, <2>1
  <2>3. ThreadsType'
    BY <1>2, <1>3, <1>8, <2>1
  <2> QED
    BY <1>5, <1>6, <2>1, <2>2, <2>3 DEF TypeInv
<1>13. CASE RecordFails
  <2>1. /\ results' = IdleResults /\ budget' = [budget EXCEPT !.faults = @ - 1] /\ budget.faults > 0
        /\ UNCHANGED <<jobs, inflight, posted, tried, queue, reslist, table, entity, scanner>>
    BY <1>13 DEF RecordFails
  <2>2. PICK b \in [configs : 0..MaxConfigs, faults : 0..MaxFaults] : b = budget
    BY <1>1 DEF BudgetType
  <2>3. budget' = [configs |-> b.configs, faults |-> b.faults - 1]
    BY <2>1, <2>2
  <2>4. BudgetType'
    BY <2>1, <2>2, <2>3, RunnerBounds DEF BudgetType
  <2>5. ThreadsType'
    BY <1>3, <1>8, <2>1
  <2> QED
    BY <1>4, <1>5, <2>1, <2>4, <2>5 DEF TypeInv
<1>14. CASE Timeout \/ ScanInFlight
  <2>1. UNCHANGED <<jobs, inflight, posted, tried, queue, table, entity, scanner, budget>>
    BY <1>14 DEF Timeout, ScanInFlight, ResultsUnchanged
  <2>2. CASE Timeout
    <3>1. results' = [pc |-> "scan", cur |-> r.cur, todo |-> r.todo] /\ reslist' = reslist
      BY <1>2, <2>2 DEF Timeout, ResultsState
    <3>2. results' \in ResultsState
      BY <1>2, <3>1 DEF ResultsState
    <3>3. ThreadsType'
      BY <1>1, <1>3, <2>1, <3>1, <3>2 DEF ThreadsType, Known
    <3> QED
      BY <1>4, <1>5, <1>6, <2>1, <3>3 DEF TypeInv
  <2>3. CASE ScanInFlight
    <3> DEFINE known == reslist \union {ReadBack(f) : f \in inflight}
    <3>1. known \subseteq {Zero} \union Known
      BY <1>1, <1>3 DEF DiskType, ReadBack
    <3>2. results' = [results EXCEPT !.pc = "sweep", !.todo = known] /\ reslist' = known
      BY <2>3 DEF ScanInFlight
    <3> HIDE DEF known
    <3>3. results' = [pc |-> "sweep", cur |-> r.cur, todo |-> known]
      BY <1>2, <3>2 DEF ResultsState
    <3>4. results' \in ResultsState
      BY <1>2, <1>3, <3>1, <3>3 DEF ResultsState
    <3>5. ThreadsType'
      BY <1>1, <1>3, <2>1, <3>1, <3>2, <3>3, <3>4 DEF ThreadsType, Known
    <3> QED
      BY <1>4, <1>5, <1>6, <2>1, <3>5 DEF TypeInv
  <2> QED
    BY <1>14, <2>2, <2>3
<1>15. CASE SweepEnds
  <2>1. /\ results' = IdleResults
        /\ UNCHANGED <<jobs, inflight, posted, tried, queue, reslist, table, entity, scanner, budget>>
    BY <1>15 DEF SweepEnds, ResultsUnchanged
  <2>2. ThreadsType'
    BY <1>3, <1>8, <2>1
  <2> QED
    BY <1>4, <1>5, <1>6, <2>1, <2>2 DEF TypeInv
<1>16. CASE GetResults
  <2>1. PICK id \in results.todo :
          /\ results' = [results EXCEPT !.pc = "complete", !.cur = id, !.todo = @ \ {id}]
          /\ tried' = IF id = Zero THEN tried ELSE tried \union {id}
          /\ (id # Zero /\ MkdirAll(posted[id].name)) \/ UNCHANGED jobs
          /\ UNCHANGED <<inflight, posted, queue, reslist, table, entity, scanner, budget>>
    BY <1>16 DEF GetResults, ResultsUnchanged
  <2>2. id \in {Zero} \union Known /\ id \in reslist
    BY <1>2, <1>3
  <2>3. results' = [pc |-> "complete", cur |-> id, todo |-> r.todo \ {id}]
    BY <1>2, <2>1 DEF ResultsState
  <2>4. results' \in ResultsState
    BY <1>2, <1>3, <2>2, <2>3 DEF ResultsState
  <2>5. ApiType'
    BY <1>1, <2>1, <2>2 DEF ApiType, Known
  <2>6. jobs' \in [Names -> {Absent, Bare} \union Configs]
    BY <1>1, <2>1, <2>2, FileIs, DirectoryMade DEF DiskType
  <2>7. DiskType'
    BY <1>1, <2>1, <2>6 DEF DiskType, Known
  <2>8. ThreadsType'
    <3>1. id \in {Zero} \union tried'
      BY <2>1
    <3> QED
      BY <1>1, <1>3, <2>1, <2>2, <2>3, <2>4, <3>1 DEF ThreadsType, Known
  <2> QED
    BY <1>5, <1>6, <2>1, <2>5, <2>7, <2>8 DEF TypeInv
<1>17. CASE ActionComplete
  <2>1. results.pc = "complete" /\ UNCHANGED <<jobs, posted, tried, budget>>
    BY <1>17 DEF ActionComplete
  <2>2. CASE /\ inflight' = Completed(r.cur) /\ reslist' = Forgotten(r.cur)
             /\ results' = [results EXCEPT !.pc = "sweep", !.cur = Zero]
             /\ UNCHANGED <<table, entity, scanner, queue>>
    <3>1. results' = [pc |-> "sweep", cur |-> Zero, todo |-> r.todo]
      BY <1>2, <2>2 DEF ResultsState
    <3>2. results' \in ResultsState
      BY <1>2, <3>1 DEF ResultsState
    <3>3. DiskType' /\ ApiType'
      BY <1>9, <2>1, <2>2 DEF Completed
    <3>4. ThreadsType'
      BY <1>1, <1>2, <1>3, <2>1, <2>2, <3>1, <3>2 DEF ThreadsType, Known, Forgotten
    <3> QED
      BY <1>5, <1>6, <2>1, <2>2, <3>3, <3>4 DEF TypeInv
  <2>3. CASE Gone /\ UNCHANGED inflight
    <3>1. ThreadsType' /\ Goroutines(entity, table)'
      BY <2>3, GoneKeeps, GoneThreads DEF Goroutines
    <3> QED
      BY <1>4, <1>6, <2>1, <2>3, <3>1 DEF TypeInv
  <2> QED
    BY <1>2, <1>17, <2>2, <2>3 DEF ActionComplete
<1> QED
  BY <1>10, <1>11, <1>12, <1>13, <1>14, <1>15, <1>16, <1>17 DEF ResultsStep

LEMMA ExpireIs ==
  ASSUME ApiType, NEW id \in ActionIds, ExpireAction(id)
  PROVE  /\ ApiType' /\ Known' = Known /\ \A k \in Known : posted'[k].name = posted[k].name
<1>1. id \in Known /\ posted' = [posted EXCEPT ![id].expired = TRUE] /\ tried' = tried
  BY DEF ExpireAction, Known, disk
<1>2. PICK p \in [name : Names, expired : BOOLEAN] : p = posted[id]
  BY <1>1 DEF ApiType
<1> DEFINE late == [p EXCEPT !.expired = TRUE]
<1>3. late \in [name : Names, expired : BOOLEAN] /\ late.name = p.name
  OBVIOUS
<1>4. posted' = [posted EXCEPT ![id] = late]
  BY <1>1, <1>2, Zenon
<1> HIDE DEF late
<1>5. Known' = Known /\ posted'[id] = late /\ \A k \in Known : k # id => posted'[k] = posted[k]
  BY <1>1, <1>4 DEF Known
<1>6. \A k \in Known : posted'[k] \in [name : Names, expired : BOOLEAN] /\ posted'[k].name = posted[k].name
  BY <1>2, <1>3, <1>5 DEF ApiType
<1> QED
  BY <1>1, <1>5, <1>6 DEF ApiType

LEMMA ExpireTypes ==
  ASSUME TypeInv, NEW id \in ActionIds, ExpireAction(id)
  PROVE  TypeInv'
<1> USE DEF threads, disk
<1>1. UNCHANGED <<jobs, inflight, tried, scanner, queue, reslist, results, entity, table, budget>>
  BY DEF ExpireAction
<1>2. /\ ApiType' /\ Known' = Known /\ \A k \in Known : posted'[k].name = posted[k].name
  BY ExpireIs DEF TypeInv
<1> QED
  BY <1>1, <1>2 DEF TypeInv, DiskType, ThreadsType, BudgetType, Goroutines

(* The types are an invariant.                                                *)
LEMMA InitTypes == RunnerInit => TypeInv
<1> SUFFICES ASSUME RunnerInit PROVE TypeInv
  OBVIOUS
<1> USE DEF RunnerInit
<1>1. DiskType /\ BudgetType
  BY RunnerBounds DEF DiskType, BudgetType
<1>2. DOMAIN posted = {}
  OBVIOUS
<1>3. ApiType
  <2>1. 0 \in 0..MaxActions /\ 1..0 = {}
    BY RunnerBounds
  <2> QED
    BY <1>2, <2>1 DEF ApiType, Known
<1>4. ThreadsType
  <2>1. << >> \in Seq(ActionIds) /\ Len(<< >>) = 0 /\ Range(<< >>) = {}
    BY DEF Range
  <2>2. results.pc = "select" /\ results.todo = {} /\ results.cur = Zero
    BY DEF IdleResults
  <2>3. scanner \in ScannerState /\ results \in ResultsState
    BY DEF IdleScanner, ScannerState, IdleResults, ResultsState
  <2> QED
    BY <2>1, <2>2, <2>3, RunnerBounds DEF ThreadsType, Free
<1>5. Goroutines(entity, table)
  BY FreeIsFree, RunnerBounds DEF Goroutines
<1> QED
  BY <1>1, <1>3, <1>4, <1>5 DEF TypeInv

LEMMA NextTypes == TypeInv /\ [RunnerNext]_rvars => TypeInv'
<1> SUFFICES ASSUME TypeInv, [RunnerNext]_rvars PROVE TypeInv'
  OBVIOUS
<1>1. CASE UNCHANGED rvars
  BY <1>1 DEF rvars, TypeInv, DiskType, ApiType, ThreadsType, BudgetType, Goroutines, Known
<1>2. CASE \E n \in Names : WriteConfig(n) \/ RemoveJob(n)
  BY <1>2, OperatorTypes
<1>3. CASE ReadDir \/ ProcReap \/ \E n \in Names : ProcDir(n)
  BY <1>3, ScanTypes
<1>4. CASE \E i \in 1..Slots : EntityStep(i)
  BY <1>4, EntityTypes
<1>5. CASE \E id \in ActionIds : ExpireAction(id)
  BY <1>5, ExpireTypes
<1>6. CASE ResultsStep
  BY <1>6, ResultsTypes
<1>7. CASE End \/ Restart
  BY <1>7, EndTypes
<1> QED
  BY <1>1, <1>2, <1>3, <1>4, <1>5, <1>6, <1>7 DEF RunnerNext

LEMMA Types == RunnerSpec => []TypeInv
BY InitTypes, NextTypes, PTL DEF RunnerSpec

LEMMA TypesAreOK == TypeInv => TypeOK
<1> SUFFICES ASSUME TypeInv PROVE TypeOK
  OBVIOUS
<1>1. DiskType /\ ApiType /\ ThreadsType /\ Goroutines(entity, table) /\ Known \subseteq ActionIds
  BY KnownIds DEF TypeInv
<1>2. DOMAIN posted \subseteq ActionIds /\ tried \subseteq DOMAIN posted
  BY <1>1 DEF ApiType, Known
<1>3. reslist \subseteq {Zero} \union ActionIds
  BY <1>1 DEF ThreadsType
<1> QED
  BY <1>1, <1>2, <1>3 DEF TypeOK, DiskType, ApiType, ThreadsType, Goroutines, ScannerState, ResultsState, Known

(* The values of TypeOK: files, actions and goroutines that exist, and no more in    *)
(* the channel than it holds.                                                 *)
THEOREM TypeCorrect == RunnerSpec => []TypeOK
BY Types, TypesAreOK, PTL

(* A job never has two goroutines that go on launching its action.             *)
THEOREM OneEntity == RunnerSpec => []OneEntityPerJob
<1>1. TypeInv => OneEntityPerJob
  <2> SUFFICES ASSUME TypeInv PROVE OneEntityPerJob
    OBVIOUS
  <2>1. ASSUME NEW i \in 1..Slots, Runs(i), entity[i].abort # "closed"
        PROVE  table[entity[i].name] = i
    <3>1. Goroutines(entity, table) /\ entity[i] \in {Free} \union Entities /\ entity[i].pc # "free"
      BY <2>1 DEF TypeInv, Goroutines, Runs
    <3>2. entity[i] \in Entities
      BY <3>1 DEF Free
    <3> QED
      BY <2>1, <3>1, <3>2 DEF Goroutines, Runs
  <2> QED
    BY <2>1, TypesAreOK DEF OneEntityPerJob
<1> QED
  BY <1>1, Types, PTL

--------------------------------------------------------------------------------
(* An action is on its way to one file.                                       *)

LEMMA OnTheWayKept ==
  ASSUME TypeInv, OnTheWay, queue' = queue \/ queue' = << >>, SendsFewer(entity', entity),
         Holding' \subseteq Holding, Recorded' \subseteq Recorded \union Holding \union {Zero},
         results'.pc = "create" => results.pc = "create" /\ results'.cur = results.cur /\ results.cur \notin Recorded'
  PROVE  OnTheWay'
<1>1. ThreadsType /\ Zero \notin Known
  BY KnownIds DEF TypeInv
<1>2. Range(queue') \subseteq Range(queue) /\ IsInjective(queue')
  <2>1. Range(<< >>) = {} /\ IsInjective(<< >>)
    BY DEF Range, IsInjective
  <2> QED
    BY <2>1 DEF OnTheWay
<1>3. Range(queue) \subseteq Known /\ \A i \in 1..Slots : entity[i].pc = "sending" => entity[i].act \in Known
  BY <1>1 DEF ThreadsType
<1>4. Range(queue') \intersect (Holding' \union Recorded') = {}
  BY <1>1, <1>2, <1>3 DEF OnTheWay
<1>5. ASSUME NEW i \in 1..Slots, entity'[i].pc = "sending"
      PROVE  /\ entity'[i].act \notin Range(queue') \union Holding' \union Recorded'
             /\ \A j \in 1..Slots : entity'[j].pc = "sending" /\ entity'[j].act = entity'[i].act => j = i
  <2>1. entity[i].pc = "sending" /\ entity[i].act = entity'[i].act
    BY <1>5 DEF SendsFewer
  <2>2. PICK id \in Known : id = entity[i].act
    BY <1>3, <2>1
  <2>3. /\ id \notin Range(queue) \union Holding \union Recorded
        /\ \A j \in 1..Slots : entity[j].pc = "sending" /\ entity[j].act = id => j = i
    BY <2>1, <2>2 DEF OnTheWay
  <2>4. id \notin Range(queue') \union Holding' \union Recorded'
    BY <1>1, <1>2, <2>3
  <2>5. \A j \in 1..Slots : entity'[j].pc = "sending" /\ entity'[j].act = id => j = i
    BY <2>3 DEF SendsFewer
  <2> QED
    BY <2>1, <2>2, <2>4, <2>5
<1> QED
  BY <1>2, <1>4, <1>5 DEF OnTheWay

LEMMA InitOnTheWay == RunnerInit => OnTheWay
<1>1. Range(<< >>) = {} /\ IsInjective(<< >>)
  BY DEF Range, IsInjective
<1> QED
  BY <1>1 DEF RunnerInit, OnTheWay, Free, IdleResults

(* The operator, a scan, the end of the process, time.                         *)
LEMMA OthersOnTheWay ==
  ASSUME TypeInv, OnTheWay,
         \/ \E n \in Names : WriteConfig(n) \/ RemoveJob(n) \/ ProcDir(n)
         \/ ReadDir \/ ProcReap \/ End \/ Restart
         \/ \E id \in ActionIds : ExpireAction(id)
  PROVE  OnTheWay'
<1> USE DEF threads, disk, apiSide
<1>1. SendsFewer(entity', entity) /\ inflight' \subseteq inflight /\ (Gone \/ UNCHANGED <<queue, reslist, results>>)
  <2>1. CASE ReadDir \/ ProcReap \/ \E n \in Names : ProcDir(n)
    BY <2>1, ScanTypes
  <2>2. CASE End
    BY <2>2, GoneKeeps DEF End, SendsFewer, Free
  <2>3. CASE \E n \in Names : WriteConfig(n) \/ RemoveJob(n)
    BY <2>3 DEF WriteConfig, RemoveJob, SendsFewer
  <2>4. CASE Restart \/ \E id \in ActionIds : ExpireAction(id)
    BY <2>4 DEF Restart, ExpireAction, SendsFewer
  <2> QED
    BY <2>1, <2>2, <2>3, <2>4
<1>2. /\ queue' = queue \/ queue' = << >>
      /\ reslist' \subseteq reslist
      /\ results' = results \/ results'.pc = "select"
  BY <1>1, GoneKeeps
<1>3. Holding' \subseteq Holding /\ Recorded' \subseteq Recorded
  BY <1>1, <1>2 DEF Holding, Recorded
<1>4. results'.pc = "create" => results.pc = "create" /\ results'.cur = results.cur /\ results.cur \notin Recorded'
  BY <1>2, <1>3 DEF OnTheWay
<1> QED
  BY <1>1, <1>2, <1>3, <1>4, OnTheWayKept

LEMMA EntityOnTheWay ==
  ASSUME TypeInv, OnTheWay, NEW i \in 1..Slots, EntityStep(i)
  PROVE  OnTheWay'
<1> USE DEF disk, apiSide
<1>1. UNCHANGED <<inflight, reslist, results>> /\ Holding' = Holding /\ Recorded' = Recorded
  BY DEF EntityStep, Begin, Abort, Fire, LaunchFails, Launch, SendResult, EntityUnchanged, Holding, Recorded
<1>2. /\ Range(queue) \subseteq Known /\ queue \in Seq(ActionIds) /\ Holding \subseteq Known
      /\ Recorded \subseteq {Zero} \union Known /\ Known \subseteq ActionIds /\ Zero \notin Known
      /\ \A j \in 1..Slots : entity[j].pc = "sending" => entity[j].act \in Known
  BY KnownIds DEF TypeInv, ThreadsType, DiskType, Holding, Recorded
<1>3. CASE Begin(i) \/ Abort(i) \/ Fire(i) \/ LaunchFails(i)
  <2>1. queue' = queue
    BY <1>3 DEF Begin, Abort, Fire, LaunchFails
  <2>2. SendsFewer(entity', entity)
    BY <1>3, PlainSteps
  <2> QED
    BY <1>1, <2>1, <2>2, OnTheWayKept DEF OnTheWay
<1>4. CASE Launch(i)
  <2>1. queue' = queue
    BY <1>4 DEF Launch
  <2>2. /\ \A j \in 1..Slots : j # i => entity'[j] = entity[j]
        /\ Posts(i) \/ entity'[i].pc = "waiting"
    BY <1>4, LaunchIs
  <2>3. CASE Posts(i)
    <3>1. PICK id \in ActionIds : id \notin Known /\ entity'[i].pc = "sending" /\ entity'[i].act = id
      BY <2>3 DEF Posts
    <3>2. id # Zero
      BY RunnerBounds DEF ActionIds, Zero
    <3>3. id \notin Range(queue) \union Holding \union Recorded
      BY <1>2, <3>1, <3>2
    <3>4. \A j \in 1..Slots : j # i /\ entity'[j].pc = "sending" => entity'[j].act # id
      BY <1>2, <2>2, <3>1
    <3> QED
      BY <1>1, <2>1, <2>2, <3>1, <3>3, <3>4 DEF OnTheWay
  <2>4. CASE entity'[i].pc = "waiting"
    <3>1. SendsFewer(entity', entity)
      BY <2>2, <2>4 DEF SendsFewer
    <3> QED
      BY <1>1, <2>1, <3>1, OnTheWayKept DEF OnTheWay
  <2> QED
    BY <2>2, <2>3, <2>4
<1>5. CASE SendResult(i)
  <2>1. /\ \A j \in 1..Slots : j # i => entity'[j] = entity[j]
        /\ entity[i].pc = "sending" /\ entity'[i].pc = "waiting" /\ entity[i].act \in Known
        /\ queue' = Append(queue, entity[i].act)
    BY <1>5, SendIs
  <2>2. PICK id \in ActionIds : id = entity[i].act
    BY <1>2, <2>1
  <2>3. /\ id \notin Range(queue) \union Holding \union Recorded
        /\ \A j \in 1..Slots : entity[j].pc = "sending" /\ entity[j].act = id => j = i
        /\ IsInjective(queue)
    BY <2>1, <2>2 DEF OnTheWay
  <2>4. Range(queue') = Range(queue) \union {id} /\ IsInjective(queue')
    BY <1>2, <2>1, <2>2, <2>3, AppendRange, AppendInjectiveQueue
  <2>5. ASSUME NEW j \in 1..Slots, entity'[j].pc = "sending"
        PROVE  /\ j # i /\ entity'[j] = entity[j] /\ entity[j].act # id
               /\ \A k \in 1..Slots : entity'[k].pc = "sending" /\ entity'[k].act = entity'[j].act => k = j
    <3>1. j # i /\ entity'[j] = entity[j]
      BY <2>1, <2>5
    <3>2. entity[j].act # id
      BY <2>3, <2>5, <3>1
    <3>3. \A k \in 1..Slots : entity[k].pc = "sending" /\ entity[k].act = entity[j].act => k = j
      BY <2>5, <3>1 DEF OnTheWay
    <3>4. \A k \in 1..Slots : entity'[k].pc = "sending" => entity'[k] = entity[k]
      BY <2>1
    <3> QED
      BY <3>1, <3>2, <3>3, <3>4
  <2>6. Range(queue') \intersect (Holding' \union Recorded') = {}
    BY <1>1, <2>3, <2>4 DEF OnTheWay
  <2>7. \A j \in 1..Slots : entity'[j].pc = "sending" =>
          entity'[j].act \notin Range(queue') \union Holding' \union Recorded'
    BY <1>1, <2>4, <2>5 DEF OnTheWay
  <2> QED
    BY <1>1, <2>4, <2>5, <2>6, <2>7 DEF OnTheWay
<1> QED
  BY <1>3, <1>4, <1>5 DEF EntityStep

LEMMA ResultsOnTheWay ==
  ASSUME TypeInv, OnTheWay, ResultsStep
  PROVE  OnTheWay'
<1> USE DEF threads, disk, apiSide
<1>1. PICK r \in ResultsState : r = results
  BY DEF TypeInv, ThreadsType
<1>2. /\ r.pc \in {"create", "write"} => r.cur \in Known
      /\ Range(queue) \subseteq Known /\ queue \in Seq(ActionIds) /\ ApiType
  BY <1>1 DEF TypeInv, ThreadsType
<1>3. IdleResults.pc = "select"
  BY DEF IdleResults
<1>4. CASE TakeResult
  <2>1. /\ results' = [results EXCEPT !.pc = "create", !.cur = Head(queue)] /\ queue' = Tail(queue)
        /\ UNCHANGED <<inflight, reslist, entity>> /\ queue # << >>
    BY <1>4 DEF TakeResult, ResultsUnchanged
  <2>2. results'.pc = "create" /\ results'.cur = Head(queue)
    BY <1>1, <2>1 DEF ResultsState
  <2>3. /\ Range(queue) = {Head(queue)} \union Range(queue')
        /\ IsInjective(queue') /\ Head(queue) \notin Range(queue')
    <3>1. IsInjective(queue)
      BY DEF OnTheWay
    <3> QED
      BY <1>2, <2>1, <3>1, TailRange, TailInjectiveQueue
  <2>4. Holding' = {Head(queue)} /\ Recorded' = Recorded
    BY <2>1, <2>2 DEF Holding, Recorded
  <2> QED
    BY <2>1, <2>2, <2>3, <2>4 DEF OnTheWay
<1>5. CASE ~TakeResult /\ ~(ActionComplete /\ ~HasFile(results.cur))
  <2>1. UNCHANGED <<queue, entity>>
    BY <1>5 DEF ResultsStep, CreateFile, WriteFile, RecordFails, Timeout, ScanInFlight, SweepEnds, GetResults,
                ActionComplete, ResultsUnchanged
  <2>2. results'.pc # "create" /\ Holding' \subseteq Holding
    <3>1. CASE CreateFile
      <4>1. results.pc = "create" /\ results' = [results EXCEPT !.pc = "write"]
        BY <3>1 DEF CreateFile
      <4>2. results'.pc = "write" /\ results'.cur = r.cur
        BY <1>1, <4>1 DEF ResultsState
      <4> QED
        BY <1>1, <4>1, <4>2 DEF Holding
    <3>2. CASE WriteFile \/ RecordFails \/ SweepEnds
      BY <1>3, <3>2 DEF WriteFile, RecordFails, SweepEnds, Holding
    <3>3. CASE Timeout \/ ScanInFlight \/ GetResults \/ ActionComplete
      <4>1. PICK pc \in {"scan", "sweep", "complete"} : results'.pc = pc
        BY <1>1, <1>5, <3>3 DEF Timeout, ScanInFlight, GetResults, ActionComplete, ResultsState
      <4> QED
        BY <4>1 DEF Holding
    <3> QED
      BY <1>5, <3>1, <3>2, <3>3 DEF ResultsStep
  <2>3. Recorded' \subseteq Recorded \union Holding \union {Zero}
    <3>1. CASE CreateFile
      <4>1. /\ inflight' = (inflight \ {File(results.cur, TRUE)}) \union {File(results.cur, FALSE)}
            /\ reslist' = reslist /\ results.pc = "create"
        BY <3>1 DEF CreateFile
      <4>2. File(results.cur, FALSE).id = results.cur /\ Holding = {results.cur}
        BY <4>1 DEF File, Holding
      <4> QED
        BY <4>1, <4>2 DEF Recorded
    <3>2. CASE WriteFile
      <4>1. /\ \A f \in inflight' : f \in inflight \/ f = File(results.cur, TRUE)
            /\ reslist' = reslist \union {results.cur} /\ results.pc = "write"
        BY <3>2 DEF WriteFile
      <4>2. File(results.cur, TRUE).id = results.cur /\ Holding = {results.cur}
        BY <4>1 DEF File, Holding
      <4> QED
        BY <4>1, <4>2 DEF Recorded
    <3>3. CASE ScanInFlight
      BY <3>3 DEF ScanInFlight, Recorded, ReadBack
    <3>4. CASE RecordFails \/ Timeout \/ SweepEnds \/ GetResults \/ ActionComplete
      BY <1>5, <3>4 DEF RecordFails, Timeout, SweepEnds, GetResults, ActionComplete, Completed, Forgotten, Recorded
    <3> QED
      BY <1>5, <3>1, <3>2, <3>3, <3>4 DEF ResultsStep
  <2> QED
    BY <2>1, <2>2, <2>3, OnTheWayKept DEF SendsFewer
<1>6. CASE ActionComplete /\ ~HasFile(results.cur)
  <2>1. Gone /\ inflight' = inflight
    BY <1>6 DEF ActionComplete
  <2>2. queue' = << >> /\ reslist' = {} /\ results'.pc = "select" /\ SendsFewer(entity', entity)
    BY <2>1, GoneKeeps DEF SendsFewer, Free
  <2>3. Holding' \subseteq Holding /\ Recorded' \subseteq Recorded
    BY <2>1, <2>2 DEF Holding, Recorded
  <2> QED
    BY <2>2, <2>3, OnTheWayKept
<1> QED
  BY <1>4, <1>5, <1>6

LEMMA NextOnTheWay == TypeInv /\ OnTheWay /\ [RunnerNext]_rvars => OnTheWay'
<1> SUFFICES ASSUME TypeInv, OnTheWay, [RunnerNext]_rvars PROVE OnTheWay'
  OBVIOUS
<1>1. CASE UNCHANGED rvars
  BY <1>1 DEF rvars, OnTheWay, Holding, Recorded
<1>2. CASE \/ \E n \in Names : WriteConfig(n) \/ RemoveJob(n) \/ ProcDir(n)
           \/ ReadDir \/ ProcReap \/ End \/ Restart
           \/ \E id \in ActionIds : ExpireAction(id)
  BY <1>2, OthersOnTheWay
<1>3. CASE \E i \in 1..Slots : EntityStep(i)
  BY <1>3, EntityOnTheWay
<1>4. CASE ResultsStep
  BY <1>4, ResultsOnTheWay
<1> QED
  BY <1>1, <1>2, <1>3, <1>4 DEF RunnerNext

LEMMA AlwaysOnTheWay == RunnerSpec => []OnTheWay
BY Types, InitOnTheWay, NextOnTheWay, PTL DEF RunnerSpec

--------------------------------------------------------------------------------
(* Whatever processResults keeps has a file.                                  *)

LEMMA HasFilesKept ==
  ASSUME TypeInv, HasFiles, budget'.faults = budget.faults, inflight' = inflight,
         \A id \in Known : posted'[id].name = posted[id].name,
         Gone \/ UNCHANGED <<reslist, results>>
  PROVE  HasFiles'
<1>1. CASE Gone
  <2>1. reslist' = {} /\ results'.pc = "select"
    BY <1>1, GoneKeeps
  <2> QED
    BY <2>1 DEF HasFiles
<1>2. CASE UNCHANGED <<reslist, results>>
  <2>1. reslist \subseteq {Zero} \union Known /\ (results.pc = "write" => results.cur \in Known)
    BY DEF TypeInv, ThreadsType
  <2>2. \A id \in Known : File(id, TRUE)' = File(id, TRUE) /\ File(id, FALSE)' = File(id, FALSE)
    BY DEF File
  <2> SUFFICES ASSUME budget'.faults = MaxFaults, ~Abandoned'
               PROVE  /\ \A id \in reslist' : id # Zero /\ File(id, TRUE)' \in inflight'
                      /\ results'.pc = "write" => File(results.cur, FALSE)' \in inflight'
    BY <1>2 DEF HasFiles, File
  <2>3. ~Abandoned
    BY <1>2 DEF Abandoned
  <2>4. /\ \A id \in reslist : id # Zero /\ File(id, TRUE) \in inflight
        /\ results.pc = "write" => File(results.cur, FALSE) \in inflight
    BY <2>3 DEF HasFiles
  <2> QED
    BY <1>2, <2>1, <2>2, <2>4
<1> QED
  BY <1>1, <1>2

(* The steps of processResults without a fault.                               *)
LEMMA ResultsHaveFiles ==
  ASSUME TypeInv, OnTheWay, HasFiles, ResultsStep
  PROVE  HasFiles'
<1> USE DEF threads, disk, apiSide
<1>1. PICK r \in ResultsState : r = results
  BY DEF TypeInv, ThreadsType
<1>2. /\ r.pc = "complete" => r.cur \in reslist \ r.todo
      /\ r.pc \in {"create", "write"} => r.cur \in Known
  BY <1>1 DEF TypeInv, ThreadsType
<1>3. IdleResults.pc = "select"
  BY DEF IdleResults
<1>4. UNCHANGED posted
  BY DEF ResultsStep, TakeResult, CreateFile, WriteFile, RecordFails, Timeout, ScanInFlight, SweepEnds, GetResults,
         ActionComplete
<1>5. \A id : File(id, TRUE)' = File(id, TRUE) /\ File(id, FALSE)' = File(id, FALSE)
  BY <1>4 DEF File
<1>6. \A id : /\ File(id, TRUE).id = id /\ File(id, TRUE).whole = TRUE
             /\ File(id, FALSE).id = id /\ File(id, FALSE).whole = FALSE
  BY DEF File
<1> SUFFICES ASSUME budget'.faults = MaxFaults, ~Abandoned'
             PROVE  /\ \A id \in reslist' : id # Zero /\ File(id, TRUE) \in inflight'
                    /\ results'.pc = "write" => File(results'.cur, FALSE) \in inflight'
  <2> QED
    BY <1>4 DEF HasFiles, File
<1>7. UNCHANGED budget /\ ~RecordFails
  <2>1. CASE RecordFails
    <3>1. budget' = [budget EXCEPT !.faults = @ - 1]
      BY <2>1 DEF RecordFails
    <3>2. PICK b \in [configs : 0..MaxConfigs, faults : 0..MaxFaults] : b = budget
      BY DEF TypeInv, BudgetType
    <3>3. budget'.faults = b.faults - 1
      BY <3>1, <3>2
    <3> QED
      BY <3>2, <3>3, RunnerBounds
  <2> QED
    BY <2>1 DEF ResultsStep, TakeResult, CreateFile, WriteFile, Timeout, ScanInFlight, SweepEnds, GetResults,
                ActionComplete, ResultsUnchanged
<1> DEFINE Files == /\ \A id \in reslist : id # Zero /\ File(id, TRUE) \in inflight
                    /\ r.pc = "write" => File(r.cur, FALSE) \in inflight
<1>8. ~Abandoned => Files
  BY <1>1, <1>7 DEF HasFiles
<1>9. CASE TakeResult \/ Timeout \/ SweepEnds \/ GetResults
  <2>1. /\ UNCHANGED <<inflight, reslist>> /\ r.pc # "write"
    BY <1>1, <1>9 DEF TakeResult, Timeout, SweepEnds, GetResults
  <2>2. results'.pc # "write"
    BY <1>1, <1>3, <1>9 DEF TakeResult, Timeout, SweepEnds, GetResults, ResultsState
  <2>3. ~Abandoned
    BY <1>1, <2>1, <2>2 DEF Abandoned
  <2> QED
    BY <1>8, <2>1, <2>2, <2>3
<1>10. CASE CreateFile
  <2>1. /\ inflight' = (inflight \ {File(r.cur, TRUE)}) \union {File(r.cur, FALSE)}
        /\ reslist' = reslist /\ r.pc = "create" /\ results' = [results EXCEPT !.pc = "write"]
    BY <1>1, <1>10 DEF CreateFile, ResultsUnchanged
  <2>2. results'.pc = "write" /\ results'.cur = r.cur
    BY <1>1, <2>1 DEF ResultsState
  <2>3. r.cur \notin reslist /\ \A f \in inflight : f.id # r.cur
    BY <1>1, <2>1 DEF OnTheWay, Recorded
  <2>4. ~Abandoned
    BY <1>1, <1>6, <2>1, <2>2, <2>3 DEF Abandoned
  <2>5. \A id \in reslist : File(id, TRUE) # File(r.cur, TRUE)
    BY <1>6, <2>3, ZenonT(30)
  <2>6. \A id \in reslist' : id # Zero /\ File(id, TRUE) \in inflight'
    <3> SUFFICES ASSUME NEW id \in reslist PROVE id # Zero /\ File(id, TRUE) \in inflight'
      BY <2>1
    <3>1. id # Zero /\ File(id, TRUE) \in inflight /\ File(id, TRUE) # File(r.cur, TRUE)
      BY <1>8, <2>4, <2>5
    <3> QED
      BY <2>1, <3>1
  <2>7. File(results'.cur, FALSE) \in inflight'
    <3>1. File(r.cur, FALSE) \in inflight'
      BY <2>1
    <3> QED
      BY <2>2, <3>1
  <2> QED
    BY <2>6, <2>7
<1>11. CASE WriteFile
  <2>1. /\ inflight' = IF File(r.cur, FALSE) \in inflight
                       THEN (inflight \ {File(r.cur, FALSE)}) \union {File(r.cur, TRUE)} ELSE inflight
        /\ reslist' = reslist \union {r.cur} /\ r.pc = "write" /\ results'.pc = "select"
    BY <1>1, <1>3, <1>11 DEF WriteFile, ResultsUnchanged
  <2>2. ~Abandoned
    BY <1>1, <1>6, <2>1 DEF Abandoned
  <2>3. r.cur # Zero
    BY <1>2, <2>1, KnownIds DEF TypeInv
  <2>4. \A id \in reslist : File(id, TRUE) # File(r.cur, FALSE)
    BY <1>6
  <2> QED
    BY <1>8, <2>1, <2>2, <2>3, <2>4
<1>12. CASE ScanInFlight
  <2>1. inflight' = inflight /\ reslist' = reslist \union {ReadBack(f) : f \in inflight} /\ r.pc = "scan"
    BY <1>1, <1>12 DEF ScanInFlight
  <2>2. results'.pc # "write"
    BY <1>1, <1>12 DEF ScanInFlight, ResultsState
  <2>3. ~Abandoned /\ \A f \in inflight : f.whole
    BY <1>1, <2>1, <2>2 DEF Abandoned
  <2>4. \A f \in inflight : f.id \in Known /\ f.name = posted[f.id].name /\ f \in [name : Names, id : ActionIds, whole : BOOLEAN]
    BY DEF TypeInv, DiskType
  <2>5. \A f \in inflight : ReadBack(f) # Zero /\ File(ReadBack(f), TRUE) = f
    BY <2>3, <2>4, KnownIds DEF TypeInv, ReadBack, File
  <2> QED
    BY <1>8, <2>1, <2>2, <2>3, <2>5
<1>13. CASE ActionComplete
  <2>1. r.pc = "complete" /\ r.cur \in reslist
    BY <1>1, <1>2, <1>13 DEF ActionComplete
  <2>2. CASE /\ inflight' = Completed(r.cur) /\ reslist' = Forgotten(r.cur)
             /\ results' = [results EXCEPT !.pc = "sweep", !.cur = Zero]
    <3>1. results'.pc = "sweep"
      BY <1>1, <2>2 DEF ResultsState
    <3>2. ~Abandoned
      BY <1>1, <1>6, <2>1, <2>2, <3>1 DEF Abandoned, Completed
    <3>3. \A id \in reslist : id # r.cur => File(id, TRUE) # File(r.cur, TRUE)
      BY <1>6
    <3> QED
      BY <1>8, <2>2, <3>1, <3>2, <3>3 DEF Completed, Forgotten
  <2>3. CASE Gone
    BY <2>3, GoneKeeps
  <2> QED
    BY <1>1, <1>13, <2>2, <2>3 DEF ActionComplete
<1> QED
  BY <1>7, <1>9, <1>10, <1>11, <1>12, <1>13 DEF ResultsStep

LEMMA NextHasFiles == TypeInv /\ OnTheWay /\ HasFiles /\ [RunnerNext]_rvars => HasFiles'
<1> SUFFICES ASSUME TypeInv, OnTheWay, HasFiles, [RunnerNext]_rvars PROVE HasFiles'
  OBVIOUS
<1> USE DEF threads, disk, apiSide
<1>1. CASE UNCHANGED rvars
  BY <1>1, HasFilesKept DEF rvars
<1>2. CASE \E n \in Names : RemoveJob(n)
  <2>1. budget' = [budget EXCEPT !.faults = @ - 1]
    BY <1>2 DEF RemoveJob
  <2>2. PICK b \in [configs : 0..MaxConfigs, faults : 0..MaxFaults] : b = budget
    BY DEF TypeInv, BudgetType
  <2>3. budget'.faults = b.faults - 1
    BY <2>1, <2>2
  <2>4. budget'.faults # MaxFaults
    BY <2>2, <2>3, RunnerBounds
  <2> QED
    BY <2>4 DEF HasFiles
<1>3. CASE End
  BY <1>3, GoneKeeps DEF End, HasFiles
<1>4. CASE \E n \in Names : WriteConfig(n)
  <2>1. budget' = [budget EXCEPT !.configs = @ - 1] /\ UNCHANGED <<inflight, posted, reslist, results>>
    BY <1>4 DEF WriteConfig
  <2>2. PICK b \in [configs : 0..MaxConfigs, faults : 0..MaxFaults] : b = budget
    BY DEF TypeInv, BudgetType
  <2>3. budget'.faults = budget.faults
    BY <2>1, <2>2
  <2> QED
    BY <2>1, <2>3, HasFilesKept
<1>5. CASE ReadDir \/ ProcReap \/ \E n \in Names : ProcDir(n)
  BY <1>5, ScanTypes, HasFilesKept
<1>6. CASE \E i \in 1..Slots : EntityStep(i)
  <2>1. PICK i \in 1..Slots : EntityStep(i)
    BY <1>6
  <2>2. UNCHANGED <<inflight, reslist, results, budget>>
    BY <2>1 DEF EntityStep, Begin, Abort, Fire, LaunchFails, Launch, SendResult, EntityUnchanged
  <2>3. \A id \in Known : posted'[id].name = posted[id].name
    <3>1. CASE Launch(i)
      BY <3>1, LaunchIs DEF Posts
    <3>2. CASE ~Launch(i)
      BY <2>1, <3>2 DEF EntityStep, Begin, Abort, Fire, LaunchFails, SendResult
    <3> QED
      BY <3>1, <3>2
  <2> QED
    BY <2>2, <2>3, HasFilesKept
<1>7. CASE \E id \in ActionIds : ExpireAction(id)
  <2>1. PICK id \in ActionIds : ExpireAction(id)
    BY <1>7
  <2>2. UNCHANGED <<inflight, reslist, results, budget>>
    BY <2>1 DEF ExpireAction
  <2>3. \A k \in Known : posted'[k].name = posted[k].name
    BY <2>1, ExpireIs DEF TypeInv
  <2> QED
    BY <2>2, <2>3, HasFilesKept
<1>8. CASE ResultsStep
  BY <1>8, ResultsHaveFiles
<1>9. CASE Restart
  BY <1>9, HasFilesKept DEF Restart
<1> QED
  BY <1>1, <1>2, <1>3, <1>4, <1>5, <1>6, <1>7, <1>8, <1>9 DEF RunnerNext

LEMMA InitHasFiles == RunnerInit => HasFiles
BY DEF RunnerInit, HasFiles, IdleResults

LEMMA AlwaysHasFiles == RunnerSpec => []HasFiles
BY Types, AlwaysOnTheWay, InitHasFiles, NextHasFiles, PTL DEF RunnerSpec

(* Left to itself the runner goes on: it only ends after a fault, when a file was left *)
(* empty, or when a scan stops an entity that has not begun.                        *)
THEOREM EndsAfterFault == RunnerSpec => EndsOnlyAfterFault
<1>1. ASSUME TypeInv, HasFiles, RunnerNext, up, ~up'
      PROVE  budget'.faults < MaxFaults \/ Torn \/ \E i \in 1..Slots : entity[i].pc = "new"
  <2> USE DEF threads, disk, apiSide
  <2>1. PICK b \in [configs : 0..MaxConfigs, faults : 0..MaxFaults] : b = budget
    BY <1>1 DEF TypeInv, BudgetType
  <2>2. CASE End
    <3>1. budget' = [budget EXCEPT !.faults = @ - 1]
      BY <2>2 DEF End
    <3>2. budget'.faults = b.faults - 1
      BY <2>1, <3>1
    <3> QED
      BY <2>1, <3>2, RunnerBounds
  <2>3. ASSUME NEW n \in Names, table[n] # 0, ~CanStop(table[n])
        PROVE  \E i \in 1..Slots : entity[i].pc = "new"
    <3>1. PICK i \in 1..Slots : i = table[n]
      BY <1>1, <2>3, RunnerBounds DEF TypeInv, Goroutines
    <3>2. entity[i] \in Entities /\ entity[i].abort = "nil"
      BY <1>1, <2>3, <3>1 DEF TypeInv, Goroutines, CanStop
    <3>3. entity[i].pc = "new"
      BY <1>1, <3>2 DEF TypeInv, Goroutines
    <3> QED
      BY <3>3
  <2>4. CASE ProcReap \/ \E n \in Names : ProcDir(n)
    BY <1>1, <2>3, <2>4 DEF ProcReap, ProcDir, Removed
  <2>5. CASE ActionComplete
    <3>1. ~HasFile(results.cur) /\ UNCHANGED budget
      BY <1>1, <2>5 DEF ActionComplete
    <3>2. results.cur \in reslist
      BY <1>1, <2>5 DEF TypeInv, ThreadsType, ActionComplete
    <3>3. ~(File(results.cur, TRUE) \in inflight)
      BY <3>1 DEF HasFile, File
    <3>4. budget.faults # MaxFaults \/ Abandoned
      BY <1>1, <3>2, <3>3 DEF HasFiles
    <3>5. Abandoned => Torn
      BY DEF Abandoned, Torn
    <3> QED
      BY <2>1, <3>1, <3>4, <3>5, RunnerBounds
  <2>6. CASE ~End /\ ~ProcReap /\ ~ActionComplete /\ ~\E n \in Names : ProcDir(n)
    BY <1>1, <2>6 DEF RunnerNext, WriteConfig, RemoveJob, EntityStep, Begin, Abort, Fire, LaunchFails, Launch,
         SendResult, EntityUnchanged, ExpireAction, ReadDir, ResultsStep, TakeResult, CreateFile, WriteFile, RecordFails,
         Timeout, ScanInFlight, SweepEnds, GetResults, Restart
  <2> QED
    BY <2>2, <2>4, <2>5, <2>6
<1>2. TypeInv /\ HasFiles /\ [RunnerNext]_rvars =>
        [up /\ ~up' => budget'.faults < MaxFaults \/ Torn \/ \E i \in 1..Slots : entity[i].pc = "new"]_rvars
  BY <1>1
<1> QED
  BY <1>2, Types, AlwaysHasFiles, PTL DEF RunnerSpec, EndsOnlyAfterFault

(* What is in a file stays there until the API has been asked for its results, or the *)
(* directory of the job is removed.                                            *)
THEOREM FilesKept == RunnerSpec => KeptUntilTried
<1>1. ASSUME TypeInv, OnTheWay, RunnerNext, NEW f \in inflight, f.whole, f \notin inflight'
      PROVE  f.id \in tried \/ jobs'[f.name] = Absent
  <2> USE DEF disk
  <2>1. f.id \in ActionIds /\ f.id \in Known /\ f.id # Zero
    BY <1>1, KnownIds DEF TypeInv, DiskType
  <2>2. ASSUME NEW n \in Names, RemoveJob(n) PROVE jobs'[f.name] = Absent
    <3>1. f.name = n
      BY <1>1, <2>2 DEF RemoveJob
    <3> QED
      BY <1>1, <2>2, <3>1 DEF RemoveJob, TypeInv, DiskType
  <2>3. ~CreateFile
    <3> SUFFICES ASSUME CreateFile PROVE FALSE
      OBVIOUS
    <3>1. results.pc = "create" /\ f = File(results.cur, TRUE)
      BY <1>1 DEF CreateFile
    <3>2. f.id = results.cur
      BY <3>1 DEF File
    <3> QED
      BY <1>1, <3>1, <3>2 DEF OnTheWay, Recorded
  <2>4. ~WriteFile
    <3> SUFFICES ASSUME WriteFile PROVE FALSE
      OBVIOUS
    <3>1. f = File(results.cur, FALSE)
      BY <1>1 DEF WriteFile
    <3> QED
      BY <1>1, <3>1 DEF File
  <2>5. CASE ActionComplete
    <3>1. results.pc = "complete" /\ f = File(results.cur, TRUE)
      BY <1>1, <2>5 DEF ActionComplete, Completed
    <3>2. f.id = results.cur
      BY <3>1 DEF File
    <3> QED
      BY <1>1, <2>1, <3>1, <3>2 DEF TypeInv, ThreadsType
  <2>6. CASE ~ActionComplete /\ ~\E n \in Names : RemoveJob(n)
    BY <1>1, <2>3, <2>4, <2>6 DEF RunnerNext, WriteConfig, ProcDir, ProcReap, EntityStep, Begin, Abort, Fire, LaunchFails,
         Launch, SendResult, EntityUnchanged, ExpireAction, ReadDir, ResultsStep, TakeResult, RecordFails,
         Timeout, ScanInFlight, SweepEnds, GetResults, End, Restart
  <2> QED
    BY <2>2, <2>5, <2>6
<1>2. TypeInv /\ OnTheWay /\ [RunnerNext]_rvars =>
        [\A f \in inflight : f.whole /\ f \notin inflight' => f.id \in tried \/ jobs'[f.name] = Absent]_rvars
  BY <1>1
<1> QED
  BY <1>2, Types, AlwaysOnTheWay, PTL DEF RunnerSpec, KeptUntilTried

================================================================================
