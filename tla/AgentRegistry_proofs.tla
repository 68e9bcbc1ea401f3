-------------------------- MODULE AgentRegistry_proofs --------------------------
(******************************************************************************)
(* Theorems about AgentRegistry, for any number of processes, rows, refreshes   *)
(* and heartbeats being handled at once.                                       *)
(******************************************************************************)
EXTENDS AgentRegistry, FiniteSetTheorems, FunctionTheorems, SequenceTheorems, WellFoundedInduction, TLAPS

(* The oldest of several rows exists.                                         *)
LEMMA LeastNumber ==
  ASSUME NEW S \in SUBSET Nat, S # {}
  PROVE  Min(S) \in S /\ \A n \in S : Min(S) <= n
<1>1. IsWellFoundedOn(OpToRel(<, Nat), Nat)
  BY NatLessThanWellFounded
<1>2. PICK m \in S : \A n \in S : ~ (<<n, m>> \in OpToRel(<, Nat))
  BY <1>1, WFMin
<1>3. \A n \in S : m <= n
  <2> SUFFICES ASSUME NEW n \in S PROVE m <= n
    OBVIOUS
  <2>1. ~ (n < m)
    BY <1>2 DEF OpToRel
  <2> QED
    BY <2>1
<1> QED
  BY <1>3 DEF Min

(* A query that returns more than one agent returns another than a given one.   *)
LEMMA SeveralFound ==
  ASSUME NEW S, IsFiniteSet(S), Cardinality(S) > 1, NEW x
  PROVE  \E y \in S : y # x
<1> SUFFICES ASSUME \A y \in S : y = x PROVE FALSE
  OBVIOUS
<1>1. S \subseteq {x} /\ IsFiniteSet({x}) /\ Cardinality({x}) = 1
  BY FS_Singleton
<1>2. Cardinality(S) <= Cardinality({x})
  BY <1>1, FS_Subset
<1>3. Cardinality(S) \in Nat
  BY FS_CardinalityType
<1> QED
  BY <1>1, <1>2, <1>3

(* The table after a row is written, and after one is inserted.               *)
LEMMA RowWritten ==
  ASSUME NEW table \in Seq(Rows), NEW i \in DOMAIN table, NEW row \in Rows,
         NEW new, new = [table EXCEPT ![i] = row]
  PROVE  /\ new \in Seq(Rows) /\ Len(new) = Len(table) /\ DOMAIN new = DOMAIN table
         /\ new[i] = row /\ \A j \in DOMAIN table : j # i => new[j] = table[j]
<1>1. DOMAIN table = 1..Len(table) /\ Len(table) \in Nat
  BY LenProperties
<1>2. new \in Seq(Rows) /\ Len(new) = Len(table)
  BY <1>1, ExceptSeq
<1> QED
  BY <1>1, <1>2, LenProperties

LEMMA RowInserted ==
  ASSUME NEW table \in Seq(Rows), NEW row \in Rows, NEW new, new = Append(table, row)
  PROVE  /\ new \in Seq(Rows) /\ Len(new) = Len(table) + 1
         /\ DOMAIN table \subseteq Nat \ {0}
         /\ DOMAIN new = DOMAIN table \union {Len(table) + 1} /\ Len(table) + 1 \notin DOMAIN table
         /\ new[Len(table) + 1] = row /\ \A j \in DOMAIN table : new[j] = table[j]
<1>1. DOMAIN table = 1..Len(table) /\ Len(table) \in Nat
  BY LenProperties
<1>2. new \in Seq(Rows) /\ Len(new) = Len(table) + 1 /\ DOMAIN new = 1..Len(new)
  BY AppendProperties, LenProperties
<1>3. new[Len(table) + 1] = row /\ \A j \in 1..Len(table) : new[j] = table[j]
  BY AppendProperties
<1> QED
  BY <1>1, <1>2, <1>3

--------------------------------------------------------------------------------
(* What each variable holds.                                                  *)
HandlerState ==
  [pc : {"idle", "lookup", "insert", "update", "replace", "notify"},
   refresh : 0..MaxRefresh, id : Nat, dup : BOOLEAN]

Finding == [id : Nat, status : Statuses]

KillerState == [pc : {"idle", "lookup", "kill"}, found : SUBSET Finding, todo : SUBSET Finding]

ProcessesType ==
  /\ alive \subseteq started /\ listening \subseteq alive /\ started \subseteq Pids
  /\ env \in [Pids -> 0..MaxRefresh]
  /\ queue \in BOOLEAN /\ (listening # {} => queue)

TableType == rows \in Seq(Rows) /\ Len(rows) <= MaxRows

RoutinesType ==
  /\ handler \in [Pids -> HandlerState] /\ killer \in KillerState
  /\ periodic \in {"idle", "idles", "detect", "send"}
  /\ orders \subseteq Pids /\ cleanup \in {"idle", "listed"}

(* A handler writes the row of its agent that it has found, and replaces the row  *)
(* only if the heartbeat is newer.                                                *)
HandlersFound ==
  \A p \in Pids : handler[p].pc \in {"update", "replace"} =>
    /\ handler[p].id \in DOMAIN rows /\ rows[handler[p].id].pid = p
    /\ handler[p].pc = "update" /\ p \in Legacy => rows[handler[p].id].refresh >= handler[p].refresh
    /\ handler[p].pc = "replace" => p \in Legacy

KillerFound ==
  /\ IsFiniteSet(killer.found) /\ killer.todo \subseteq killer.found
  /\ \A a \in killer.found : a.id \in DOMAIN rows /\ a.status # "offline"
  /\ \A a \in killer.todo : a.status = "destroyed"
  /\ \A a, b \in killer.found : a.id = b.id => a = b

TypeInv == ProcessesType /\ TableType /\ RoutinesType /\ HandlersFound /\ KillerFound

(* The rows of process p, but for row i, are not in use.                       *)
InUse(i) == rows[i].status # "offline"
OnlyRow(i, p) == \A j \in DOMAIN rows : j # i /\ rows[j].pid = p => ~ InUse(j)

NoRow == 0

(* No two rows in use are the same process of the API: this is what a handler of   *)
(* its heartbeats relies on between its query and its write.  A row that the       *)
(* killer has found fresh does not go offline before the killer is done.           *)
RowsApart == \A i \in DOMAIN rows : rows[i].pid \notin Legacy /\ InUse(i) => OnlyRow(i, rows[i].pid)

WritesApart ==
  \A p \in Pids \ Legacy :
    /\ handler[p].pc = "insert" => OnlyRow(NoRow, p)
    /\ handler[p].pc = "update" => OnlyRow(handler[p].id, p)

FoundInUse ==
  \A a \in killer.found : rows[a.id].age # Gone /\ (rows[a.id].pid \notin Legacy => InUse(a.id))

ApartInv == RowsApart /\ WritesApart /\ FoundInUse

(* Another process has registered after process p: this remains so.            *)
Outlived(p) == \E i, j \in DOMAIN rows : i < j /\ rows[i].pid = p /\ rows[j].pid # p

(* An agent whose destruction was ordered is outlived; and so is one with several  *)
(* rows in use: for an agent with heartbeats over the relay there may be some,     *)
(* after the killer has marked a row that was replaced.                            *)
DestroyedOutlived ==
  /\ \A i \in DOMAIN rows : rows[i].status = "destroyed" => Outlived(rows[i].pid)
  /\ \A a \in killer.found : a.status = "destroyed" => Outlived(rows[a.id].pid)

RowsOutlived == \A i \in DOMAIN rows : InUse(i) => OnlyRow(i, rows[i].pid) \/ Outlived(rows[i].pid)

WritesOutlived ==
  \A p \in Pids :
    /\ handler[p].pc = "insert" => OnlyRow(NoRow, p) \/ Outlived(p)
    /\ handler[p].pc \in {"update", "replace"} => OnlyRow(handler[p].id, p) \/ Outlived(p)

FoundOutlived ==
  \A a, b \in killer.found : a # b /\ rows[a.id].pid = rows[b.id].pid => Outlived(rows[a.id].pid)

(* Idle rows are not fresh: of the agents that the query of the killer returns,     *)
(* those not marked as destroyed are online.                                       *)
FreshIsOnline ==
  /\ \A i \in DOMAIN rows : rows[i].status = "idle" => rows[i].age # Fresh
  /\ \A a \in killer.found : a.status \in {"online", "destroyed"}

OutlivedInv ==
  /\ DestroyedOutlived /\ RowsOutlived /\ WritesOutlived /\ FoundOutlived /\ FreshIsOnline

(* Rows stay, with the process and the environment that they were inserted with. *)
Grows ==
  /\ TableType' /\ DOMAIN rows \subseteq DOMAIN rows'
  /\ \A i \in DOMAIN rows : rows'[i].pid = rows[i].pid /\ rows'[i].refresh = rows[i].refresh

(* What is in a row that is there.                                            *)
LEMMA RowIs ==
  ASSUME TableType, NEW i \in DOMAIN rows
  PROVE  rows[i] \in Rows /\ i \in Nat \ {0}
<1>1. i \in 1..Len(rows) /\ Len(rows) \in Nat
  BY LenProperties DEF TableType
<1>2. rows[i] \in Rows
  BY <1>1, ElementOfSeq DEF TableType
<1>3. i \in Nat \ {0}
  BY <1>1
<1> QED
  BY <1>2, <1>3

LEMMA StatusWritten ==
  ASSUME TableType, NEW i \in DOMAIN rows, NEW s \in Statuses, rows' = [rows EXCEPT ![i].status = s]
  PROVE  /\ Grows /\ DOMAIN rows' = DOMAIN rows
         /\ rows'[i].status = s /\ rows'[i].age = rows[i].age
         /\ \A j \in DOMAIN rows : j # i => rows'[j] = rows[j]
<1>0. PICK old \in Rows : old = rows[i]
  BY RowIs
<1> DEFINE row == [old EXCEPT !.status = s]
<1>1. row \in Rows /\ row.status = s /\ row.age = old.age /\ row.pid = old.pid /\ row.refresh = old.refresh
  BY DEF Rows
<1>2. rows' = [rows EXCEPT ![i] = row] /\ rows \in Seq(Rows)
  BY <1>0, Zenon DEF TableType
<1> HIDE DEF row
<1>3. /\ rows' \in Seq(Rows) /\ Len(rows') = Len(rows) /\ DOMAIN rows' = DOMAIN rows
      /\ rows'[i] = row /\ \A j \in DOMAIN rows : j # i => rows'[j] = rows[j]
  <2>1. row \in Rows
    BY <1>1
  <2>2. \A r \in Rows : \A new : new = [rows EXCEPT ![i] = r] =>
           /\ new \in Seq(Rows) /\ Len(new) = Len(rows) /\ DOMAIN new = DOMAIN rows
           /\ new[i] = r /\ \A j \in DOMAIN rows : j # i => new[j] = rows[j]
    BY <1>2, RowWritten
  <2>3. rows' = [rows EXCEPT ![i] = row]
    BY <1>2
  <2>4. rows' = [rows EXCEPT ![i] = row] => 
           /\ rows' \in Seq(Rows) /\ Len(rows') = Len(rows) /\ DOMAIN rows' = DOMAIN rows
           /\ rows'[i] = row /\ \A j \in DOMAIN rows : j # i => rows'[j] = rows[j]
    BY <2>1, <2>2, Zenon
  <2> QED
    BY <2>3, <2>4, Zenon
<1> QED
  BY <1>0, <1>1, <1>3 DEF Grows, TableType

(* One UPDATE for the rows of a status.                                       *)
LEMMA AllMarked ==
  ASSUME TableType, NEW from \in Statuses, NEW to \in Statuses, NEW age \in Ages, rows' = Mark(from, to, age)
  PROVE  /\ Grows /\ DOMAIN rows' = DOMAIN rows
         /\ \A i \in DOMAIN rows : rows'[i].age = rows[i].age
         /\ \A i \in DOMAIN rows :
              \/ rows'[i] = rows[i] /\ ~ (rows[i].status = from /\ rows[i].age >= age)
              \/ rows[i].status = from /\ rows[i].age >= age /\ rows'[i].status = to
<1>1. DOMAIN rows = 1..Len(rows) /\ Len(rows) \in Nat
  BY LenProperties DEF TableType
<1>2. \A i \in DOMAIN rows :
        /\ rows'[i] \in Rows /\ rows'[i].age = rows[i].age
        /\ rows'[i].pid = rows[i].pid /\ rows'[i].refresh = rows[i].refresh
        /\ \/ rows'[i] = rows[i] /\ ~ (rows[i].status = from /\ rows[i].age >= age)
           \/ rows[i].status = from /\ rows[i].age >= age /\ rows'[i].status = to
  <2> SUFFICES ASSUME NEW i \in DOMAIN rows
               PROVE  /\ rows'[i] \in Rows /\ rows'[i].age = rows[i].age
                      /\ rows'[i].pid = rows[i].pid /\ rows'[i].refresh = rows[i].refresh
                      /\ \/ rows'[i] = rows[i] /\ ~ (rows[i].status = from /\ rows[i].age >= age)
                         \/ rows[i].status = from /\ rows[i].age >= age /\ rows'[i].status = to
    OBVIOUS
  <2>1. rows'[i] = IF rows[i].status = from /\ rows[i].age >= age THEN [rows[i] EXCEPT !.status = to] ELSE rows[i]
    BY DEF Mark
  <2>2. rows[i] \in Rows
    BY RowIs
  <2>3. CASE rows[i].status = from /\ rows[i].age >= age
    <3>1. PICK old \in Rows : old = rows[i]
      BY <2>2
    <3>2. rows'[i] = [old EXCEPT !.status = to]
      BY <2>1, <2>3, <3>1
    <3>3. /\ rows'[i] \in Rows /\ rows'[i].status = to /\ rows'[i].age = old.age
          /\ rows'[i].pid = old.pid /\ rows'[i].refresh = old.refresh
      BY <3>2 DEF Rows
    <3> QED
      BY <2>3, <3>1, <3>3
  <2>4. CASE ~ (rows[i].status = from /\ rows[i].age >= age)
    BY <2>1, <2>2, <2>4
  <2> QED
    BY <2>3, <2>4
<1>3. rows' = [i \in 1..Len(rows) |-> rows'[i]]
  BY <1>1 DEF Mark
<1>4. rows' \in Seq(Rows) /\ Len(rows') = Len(rows) /\ DOMAIN rows' = DOMAIN rows
  <2>1. rows' \in [1..Len(rows) -> Rows]
    BY <1>1, <1>2, <1>3
  <2>2. rows' \in Seq(Rows) /\ DOMAIN rows' = 1..Len(rows)
    BY <1>1, <2>1, SeqDef
  <2>3. Len(rows') \in Nat /\ 1..Len(rows') = 1..Len(rows)
    BY <2>2, LenProperties
  <2>4. Len(rows') = Len(rows)
    BY <1>1, <2>3
  <2> QED
    BY <1>1, <2>2, <2>4
<1> QED
  BY <1>2, <1>4 DEF Grows, TableType
LEMMA RowsStay ==
  ASSUME TableType, UNCHANGED rows
  PROVE  Grows
BY DEF TableType, Grows

LEMMA RowAdded ==
  ASSUME TableType, NEW row \in Rows, Len(rows) < MaxRows, rows' = Append(rows, row)
  PROVE  /\ Grows /\ Len(rows) + 1 \notin DOMAIN rows /\ DOMAIN rows \subseteq Nat \ {0}
         /\ DOMAIN rows' = DOMAIN rows \union {Len(rows) + 1}
         /\ rows'[Len(rows) + 1] = row /\ \A j \in DOMAIN rows : rows'[j] = rows[j]
<1>1. rows \in Seq(Rows) /\ Len(rows) \in Nat
  BY LenProperties DEF TableType
<1>2. /\ rows' \in Seq(Rows) /\ Len(rows') = Len(rows) + 1
      /\ DOMAIN rows' = DOMAIN rows \union {Len(rows) + 1} /\ Len(rows) + 1 \notin DOMAIN rows
      /\ rows'[Len(rows) + 1] = row /\ \A j \in DOMAIN rows : rows'[j] = rows[j]
      /\ DOMAIN rows \subseteq Nat \ {0}
  BY <1>1, RowInserted
<1>3. Len(rows') <= MaxRows
  BY <1>1, <1>2, AgentRegistryAssumption
<1> QED
  BY <1>2, <1>3 DEF Grows, TableType

(* ReplaceRefreshedAgent writes a row and adds another.                        *)
LEMMA RowReplaced ==
  ASSUME TableType, NEW i \in DOMAIN rows, NEW row \in Rows, Len(rows) < MaxRows,
         rows' = Append([rows EXCEPT ![i].status = "offline"], row)
  PROVE  /\ Grows /\ Len(rows) + 1 \notin DOMAIN rows /\ DOMAIN rows \subseteq Nat \ {0}
         /\ DOMAIN rows' = DOMAIN rows \union {Len(rows) + 1}
         /\ rows'[Len(rows) + 1] = row
         /\ rows'[i].status = "offline" /\ rows'[i].age = rows[i].age
         /\ \A j \in DOMAIN rows : j # i => rows'[j] = rows[j]
<1>0. PICK was \in Rows : was = rows[i]
  BY RowIs
<1> DEFINE old == [was EXCEPT !.status = "offline"]
           written == [rows EXCEPT ![i] = old]
<1>1. /\ old \in Rows /\ old.status = "offline" /\ old.age = was.age
      /\ old.pid = was.pid /\ old.refresh = was.refresh
  BY DEF Rows, Statuses
<1>2. rows \in Seq(Rows) /\ Len(rows) \in Nat
  BY LenProperties DEF TableType
<1>6. rows' = Append(written, row)
  BY <1>0, Zenon
<1> HIDE DEF old
<1>3. /\ written \in Seq(Rows) /\ Len(written) = Len(rows) /\ DOMAIN written = DOMAIN rows
      /\ written[i] = old /\ \A j \in DOMAIN rows : j # i => written[j] = rows[j]
  BY <1>1, <1>2, RowWritten
<1> HIDE DEF written
<1>4. /\ rows' \in Seq(Rows) /\ Len(rows') = Len(rows) + 1
      /\ DOMAIN rows' = DOMAIN rows \union {Len(rows) + 1} /\ Len(rows) + 1 \notin DOMAIN rows
      /\ rows'[Len(rows) + 1] = row /\ \A j \in DOMAIN rows : rows'[j] = written[j]
      /\ DOMAIN rows \subseteq Nat \ {0}
  <2>1. \A new : new = Append(written, row) =>
          /\ new \in Seq(Rows) /\ Len(new) = Len(rows) + 1
          /\ DOMAIN new = DOMAIN rows \union {Len(rows) + 1} /\ Len(rows) + 1 \notin DOMAIN rows
          /\ new[Len(rows) + 1] = row /\ \A j \in DOMAIN rows : new[j] = written[j]
          /\ DOMAIN rows \subseteq Nat \ {0}
    BY <1>3, RowInserted
  <2> QED
    BY <1>6, <2>1, Zenon
<1>5. Len(rows') <= MaxRows
  BY <1>2, <1>4, AgentRegistryAssumption
<1> QED
  BY <1>0, <1>1, <1>3, <1>4, <1>5 DEF Grows, TableType

LEMMA RowRefreshed ==
  ASSUME TableType, NEW i \in DOMAIN rows,
         rows' = [rows EXCEPT ![i].status = "online", ![i].age = Fresh]
  PROVE  /\ Grows /\ DOMAIN rows' = DOMAIN rows
         /\ rows'[i].status = "online" /\ rows'[i].age = Fresh
         /\ \A j \in DOMAIN rows : j # i => rows'[j] = rows[j]
<1>0. PICK old \in Rows : old = rows[i]
  BY RowIs
<1> DEFINE online == [old EXCEPT !.status = "online"]
           row == [online EXCEPT !.age = Fresh]
<1>1. /\ row \in Rows /\ row.status = "online" /\ row.age = Fresh
      /\ row.pid = old.pid /\ row.refresh = old.refresh
  <2>1. /\ online \in Rows /\ online.status = "online"
        /\ online.pid = old.pid /\ online.refresh = old.refresh
    BY DEF Rows, Statuses
  <2> HIDE DEF online
  <2> QED
    BY <2>1 DEF Rows, Ages, Fresh, Gone
<1>2. rows' = [rows EXCEPT ![i] = row] /\ rows \in Seq(Rows)
  <2>1. rows[i] = old
    BY <1>0
  <2>2. rows' = [[rows EXCEPT ![i] = online] EXCEPT ![i] = [[rows EXCEPT ![i] = online][i] EXCEPT !.age = Fresh]]
    BY <2>1, Zenon
  <2>3. [rows EXCEPT ![i] = online][i] = online
    BY Zenon
  <2>4. rows' = [[rows EXCEPT ![i] = online] EXCEPT ![i] = row]
    BY <2>2, <2>3, Zenon
  <2> HIDE DEF row, online
  <2> QED
    BY <2>4 DEF TableType
<1> HIDE DEF row
<1>3. /\ rows' \in Seq(Rows) /\ Len(rows') = Len(rows) /\ DOMAIN rows' = DOMAIN rows
      /\ rows'[i] = row /\ \A j \in DOMAIN rows : j # i => rows'[j] = rows[j]
  <2>1. row \in Rows
    BY <1>1
  <2>2. \A r \in Rows : \A new : new = [rows EXCEPT ![i] = r] =>
           /\ new \in Seq(Rows) /\ Len(new) = Len(rows) /\ DOMAIN new = DOMAIN rows
           /\ new[i] = r /\ \A j \in DOMAIN rows : j # i => new[j] = rows[j]
    BY <1>2, RowWritten
  <2>3. rows' = [rows EXCEPT ![i] = row]
    BY <1>2
  <2>4. rows' = [rows EXCEPT ![i] = row] =>
           /\ rows' \in Seq(Rows) /\ Len(rows') = Len(rows) /\ DOMAIN rows' = DOMAIN rows
           /\ rows'[i] = row /\ \A j \in DOMAIN rows : j # i => rows'[j] = rows[j]
    BY <2>1, <2>2, Zenon
  <2> QED
    BY <2>3, <2>4, Zenon
<1> QED
  BY <1>0, <1>1, <1>3 DEF Grows, TableType

LEMMA RowAges ==
  ASSUME TableType, NEW i \in DOMAIN rows, Older(i)
  PROVE  /\ Grows /\ DOMAIN rows' = DOMAIN rows
         /\ rows'[i].status = rows[i].status /\ rows'[i].age = rows[i].age + 1
         /\ \A j \in DOMAIN rows : j # i => rows'[j] = rows[j]
<1>0. PICK old \in Rows : old = rows[i]
  BY RowIs
<1> DEFINE row == [old EXCEPT !.age = old.age + 1]
<1>1. old.age \in Ages /\ old.age + 1 \in Ages
  <2>1. \A r \in Rows : r.age \in Ages
    BY DEF Rows
  <2>2. old.age \in Ages /\ old.age < MaxAge
    BY <1>0, <2>1 DEF Older
  <2> QED
    BY <2>2, AgentRegistryAssumption DEF Ages, Fresh, Gone
<1>2. /\ row \in Rows /\ row.age = old.age + 1 /\ row.status = old.status
      /\ row.pid = old.pid /\ row.refresh = old.refresh
  BY <1>1 DEF Rows
<1>3. rows' = [rows EXCEPT ![i] = row] /\ rows \in Seq(Rows)
  BY <1>0, Zenon DEF TableType, Older
<1> HIDE DEF row
<1>4. /\ rows' \in Seq(Rows) /\ Len(rows') = Len(rows) /\ DOMAIN rows' = DOMAIN rows
      /\ rows'[i] = row /\ \A j \in DOMAIN rows : j # i => rows'[j] = rows[j]
  BY <1>2, <1>3, RowWritten
<1> QED
  BY <1>0, <1>2, <1>4 DEF Grows, TableType

(* The agent that killDupAgents kills is one that it has found: no online one is    *)
(* older.                                                                          *)
LEMMA OldestIsFound ==
  ASSUME TypeInv, NEW first \in killer.found
  PROVE  /\ \E a \in killer.found : a.id = Oldest(first) /\ (a = first \/ a.status = "online")
         /\ \A b \in killer.found : b.status = "online" => Oldest(first) <= b.id
<1> DEFINE ids == {first.id} \union {a.id : a \in {b \in killer.found : b.status = "online"}}
<1>1. killer.found \subseteq Finding
  BY DEF TypeInv, RoutinesType, KillerState
<1>2. ids \in SUBSET Nat /\ ids # {}
  BY <1>1 DEF Finding
<1>3. Min(ids) \in ids /\ \A n \in ids : Min(ids) <= n
  BY <1>2, LeastNumber
<1>4. Oldest(first) = Min(ids)
  BY DEF Oldest
<1> QED
  BY <1>3, <1>4

--------------------------------------------------------------------------------
(* Types.                                                                     *)

(* A heartbeat that has been handled.                                         *)
LEMMA HandlersEnd ==
  /\ HandlerIdle \in HandlerState /\ HandlerIdle.pc = "idle"
  /\ \A h \in HandlerState : Written(h) \in HandlerState /\ Written(h).pc \in {"idle", "notify"}
<1>1. HandlerIdle \in HandlerState /\ HandlerIdle.pc = "idle"
  BY AgentRegistryAssumption DEF HandlerState, HandlerIdle
<1>2. \A h \in HandlerState :
        [h EXCEPT !.pc = "notify"] \in HandlerState /\ [h EXCEPT !.pc = "notify"].pc = "notify"
  BY DEF HandlerState
<1>3. [HandlerIdle EXCEPT !.pc = "notify"] \in HandlerState /\ [HandlerIdle EXCEPT !.pc = "notify"].pc = "notify"
  BY <1>1, <1>2, Zenon
<1> QED
  BY <1>1, <1>3 DEF Written

(* A step of the handler of process p.                                         *)
LEMMA HandlerSteps ==
  ASSUME handler \in [Pids -> HandlerState], NEW p \in Pids, NEW h \in HandlerState,
         handler' = [handler EXCEPT ![p] = h]
  PROVE  /\ handler' \in [Pids -> HandlerState]
         /\ handler'[p] = h /\ \A q \in Pids : q # p => handler'[q] = handler[q]
OBVIOUS

(* A step in which no handler finds a row, and the killer none.                *)
LEMMA TypesKept ==
  ASSUME TypeInv, Grows, ProcessesType', RoutinesType',
         \A p \in Pids : handler'[p] = handler[p] \/ handler'[p].pc \notin {"update", "replace"},
         killer'.found \in {killer.found, {}}, killer'.todo \subseteq killer.todo \intersect killer'.found
  PROVE  TypeInv'
<1>1. TableType'
  BY DEF Grows
<1>2. HandlersFound'
  <2> SUFFICES ASSUME NEW p \in Pids, handler'[p].pc \in {"update", "replace"}
               PROVE  /\ handler'[p].id \in DOMAIN rows' /\ rows'[handler'[p].id].pid = p
                      /\ handler'[p].pc = "update" /\ p \in Legacy => rows'[handler'[p].id].refresh >= handler'[p].refresh
                      /\ handler'[p].pc = "replace" => p \in Legacy
    BY DEF HandlersFound
  <2>1. handler'[p] = handler[p]
    OBVIOUS
  <2>2. /\ handler[p].id \in DOMAIN rows /\ rows[handler[p].id].pid = p
        /\ handler[p].pc = "update" /\ p \in Legacy => rows[handler[p].id].refresh >= handler[p].refresh
        /\ handler[p].pc = "replace" => p \in Legacy
    BY <2>1 DEF TypeInv, HandlersFound
  <2> QED
    BY <2>1, <2>2 DEF Grows
<1>3. KillerFound'
  BY FS_EmptySet DEF TypeInv, KillerFound, Grows
<1> QED
  BY <1>1, <1>2, <1>3 DEF TypeInv

(* A step of the killer after its query.                                      *)
LEMMA KillerSteps ==
  ASSUME RoutinesType
  PROVE  /\ KillerIdle \in KillerState /\ KillerIdle.found = {} /\ KillerIdle.todo = {}
         /\ \A k : k = [killer EXCEPT !.pc = "lookup"] =>
              k \in KillerState /\ k.found = killer.found /\ k.todo = killer.todo
         /\ \A a : \A k : k = [killer EXCEPT !.todo = @ \ {a}] =>
              k \in KillerState /\ k.found = killer.found /\ k.todo = killer.todo \ {a}
BY DEF RoutinesType, KillerState, KillerIdle

LEMMA AgentsTypes ==
  ASSUME TypeInv, Agents
  PROVE  TypeInv'
<1>1. ASSUME NEW p \in Pids, StartAgent(p) \/ EndAgent(p) \/ RefreshEnvironment(p) \/ ExpireOrder(p)
      PROVE  TypeInv'
  <2>1. Grows
    BY <1>1, RowsStay DEF TypeInv, StartAgent, EndAgent, RefreshEnvironment, ExpireOrder
  <2>2. ProcessesType'
    <3>1. CASE StartAgent(p)
      BY <3>1 DEF TypeInv, ProcessesType, StartAgent
    <3>2. CASE EndAgent(p)
      BY <3>2 DEF TypeInv, ProcessesType, EndAgent
    <3>3. CASE RefreshEnvironment(p)
      BY <3>3, AgentRegistryAssumption DEF TypeInv, ProcessesType, RefreshEnvironment
    <3>4. CASE ExpireOrder(p)
      BY <3>4 DEF TypeInv, ProcessesType, ExpireOrder, processVars
    <3> QED
      BY <1>1, <3>1, <3>2, <3>3, <3>4
  <2>3. RoutinesType' /\ UNCHANGED <<handler, killer>>
    BY <1>1 DEF TypeInv, RoutinesType, StartAgent, EndAgent, RefreshEnvironment, ExpireOrder
  <2> QED
    BY <2>1, <2>2, <2>3, TypesKept DEF TypeInv, KillerFound
<1>2. ASSUME NEW p \in Pids, NEW q \in Pids, DestroyAgent(p, q)
      PROVE  TypeInv'
  <2>1. Grows
    BY <1>2, RowsStay DEF TypeInv, DestroyAgent
  <2>2. ProcessesType'
    BY <1>2 DEF TypeInv, ProcessesType, DestroyAgent
  <2>3. RoutinesType' /\ UNCHANGED <<handler, killer>>
    BY <1>2 DEF TypeInv, RoutinesType, DestroyAgent
  <2> QED
    BY <2>1, <2>2, <2>3, TypesKept DEF TypeInv, KillerFound
<1>3. ASSUME NEW i \in DOMAIN rows, Older(i)
      PROVE  TypeInv'
  <2>1. Grows
    BY <1>3, RowAges DEF TypeInv
  <2>2. ProcessesType' /\ RoutinesType' /\ UNCHANGED <<handler, killer>>
    BY <1>3 DEF TypeInv, ProcessesType, RoutinesType, Older, processVars
  <2> QED
    BY <2>1, <2>2, TypesKept DEF TypeInv, KillerFound
<1> QED
  BY <1>1, <1>2, <1>3 DEF Agents

LEMMA PeriodicTypes ==
  ASSUME TypeInv, Periodic \/ PeriodicFails
  PROVE  TypeInv'
<1>1. Grows
  <2>1. CASE MarkOfflineAgents
    BY <2>1, AllMarked DEF TypeInv, MarkOfflineAgents, Statuses, Ages, Fresh, Gone
  <2>2. CASE MarkIdleAgents
    BY <2>2, AllMarked DEF TypeInv, MarkIdleAgents, Statuses, Ages, Fresh, Silent, Gone
  <2>3. CASE DetectMultiAgents \/ SendMultiAgents \/ PeriodicFails
    BY <2>3, RowsStay DEF TypeInv, DetectMultiAgents, SendMultiAgents, PeriodicFails
  <2> QED
    BY <2>1, <2>2, <2>3 DEF Periodic
<1>2. ProcessesType' /\ UNCHANGED handler
  BY DEF TypeInv, ProcessesType, Periodic, MarkOfflineAgents, MarkIdleAgents, DetectMultiAgents,
         SendMultiAgents, PeriodicFails, periodicUnchanged, processVars
<1>3. RoutinesType' /\ killer'.found = killer.found /\ killer'.todo = killer.todo
  <2>1. CASE SendMultiAgents
    <3>1. killer' \in KillerState /\ killer'.found = killer.found /\ killer'.todo = killer.todo
      BY <2>1, KillerSteps DEF TypeInv, SendMultiAgents
    <3> QED
      BY <2>1, <3>1 DEF TypeInv, RoutinesType, SendMultiAgents, periodicUnchanged
  <2>2. CASE MarkOfflineAgents \/ MarkIdleAgents \/ DetectMultiAgents \/ PeriodicFails
    BY <2>2 DEF TypeInv, RoutinesType, MarkOfflineAgents, MarkIdleAgents, DetectMultiAgents,
                PeriodicFails, periodicUnchanged
  <2> QED
    BY <2>1, <2>2 DEF Periodic
<1> QED
  BY <1>1, <1>2, <1>3, TypesKept DEF TypeInv, KillerFound

LEMMA CleanupTypes ==
  ASSUME TypeInv, GetDisappearedEndpoints \/ DeleteQueue \/ SkipQueue
  PROVE  TypeInv'
<1>1. Grows
  BY RowsStay DEF TypeInv, GetDisappearedEndpoints, DeleteQueue, SkipQueue, cleanupUnchanged
<1>2. ProcessesType' /\ RoutinesType' /\ UNCHANGED <<handler, killer>>
  BY DEF TypeInv, ProcessesType, RoutinesType, GetDisappearedEndpoints, DeleteQueue, SkipQueue, cleanupUnchanged
<1> QED
  BY <1>1, <1>2, TypesKept DEF TypeInv, KillerFound

(* The table and the handler of process p in a step of its handler.             *)
LEMMA HandlerTypes ==
  ASSUME TypeInv, NEW p \in Pids, Heartbeat(p) \/ DropHeartbeat(p) \/ Handler(p)
  PROVE  TypeInv'
<1>1. /\ handler \in [Pids -> HandlerState] /\ handler[p] \in HandlerState /\ TableType
      /\ RoutinesType /\ ProcessesType /\ killer.todo \subseteq killer.found
  BY DEF TypeInv, RoutinesType, KillerFound
<1>2. Written(handler[p]) \in HandlerState /\ Written(handler[p]).pc \in {"idle", "notify"}
  BY <1>1, HandlersEnd
<1>3. ProcessesType' /\ UNCHANGED <<periodic, orders, cleanup>>
  BY <1>1 DEF ProcessesType, Heartbeat, DropHeartbeat, Handler, LookupAgent, InsertAgent, UpdateAgentHeartbeat,
              ReplaceRefreshedAgent, NotifyDestroyed, handlerUnchanged, processVars
(* All steps but the query end in a state in which there is nothing to write.   *)
<1>4. ASSUME Grows, NEW h \in HandlerState, handler' = [handler EXCEPT ![p] = h],
             h.pc \notin {"update", "replace"},
             killer' \in KillerState, killer'.found = killer.found, killer'.todo = killer.todo
      PROVE  TypeInv'
  <2>1. /\ handler' \in [Pids -> HandlerState]
        /\ handler'[p] = h /\ \A q \in Pids : q # p => handler'[q] = handler[q]
    BY <1>1, <1>4, HandlerSteps
  <2>2. RoutinesType'
    BY <1>1, <1>3, <1>4, <2>1 DEF RoutinesType
  <2> QED
    BY <1>1, <1>3, <1>4, <2>1, <2>2, TypesKept
<1>5. UNCHANGED killer => killer' \in KillerState /\ killer'.found = killer.found /\ killer'.todo = killer.todo
  BY <1>1 DEF RoutinesType
<1>6. [pid |-> p, status |-> "online", age |-> Fresh, refresh |-> handler[p].refresh] \in Rows
  BY <1>1 DEF Rows, HandlerState, Statuses, Ages, Fresh, Gone
<1>7. CASE Heartbeat(p)
  <2> DEFINE h == [HandlerIdle EXCEPT !.pc = "lookup", !.refresh = env[p]]
  <2>1. h \in HandlerState /\ h.pc = "lookup"
    <3>1. env[p] \in 0..MaxRefresh
      BY <1>1 DEF ProcessesType
    <3> QED
      BY <3>1 DEF HandlerState, HandlerIdle
  <2>2. handler' = [handler EXCEPT ![p] = h] /\ UNCHANGED <<rows, killer>>
    BY <1>7 DEF Heartbeat
  <2> HIDE DEF h
  <2> QED
    BY <1>1, <1>4, <1>5, <2>1, <2>2, RowsStay
<1>8. CASE DropHeartbeat(p)
  <2>1. handler' = [handler EXCEPT ![p] = Written(handler[p])] /\ UNCHANGED <<rows, killer>>
    BY <1>8 DEF DropHeartbeat
  <2> QED
    BY <1>1, <1>2, <1>4, <1>5, <2>1, RowsStay
<1>9. CASE InsertAgent(p)
  <2>1. /\ handler' = [handler EXCEPT ![p] = HandlerIdle] /\ UNCHANGED killer
        /\ Len(rows) < MaxRows /\ rows' = Append(rows, NewRow(p)) /\ NewRow(p) \in Rows
    BY <1>6, <1>9 DEF InsertAgent, NewRow
  <2>2. Grows
    BY <1>1, <2>1, RowAdded
  <2> QED
    BY <1>4, <1>5, <2>1, <2>2, HandlersEnd
<1>10. CASE UpdateAgentHeartbeat(p)
  <2>1. /\ handler' = [handler EXCEPT ![p] = Written(handler[p])] /\ UNCHANGED killer
        /\ rows' = [rows EXCEPT ![handler[p].id].status = "online", ![handler[p].id].age = Fresh]
        /\ handler[p].id \in DOMAIN rows
    BY <1>10 DEF UpdateAgentHeartbeat, TypeInv, HandlersFound
  <2>2. Grows
    BY <1>1, <2>1, RowRefreshed
  <2> QED
    BY <1>2, <1>4, <1>5, <2>1, <2>2
<1>11. CASE ReplaceRefreshedAgent(p)
  <2>1. /\ handler' = [handler EXCEPT ![p] = Written(handler[p])] /\ UNCHANGED killer
        /\ Len(rows) < MaxRows /\ NewRow(p) \in Rows
        /\ rows' = Append([rows EXCEPT ![handler[p].id].status = "offline"], NewRow(p))
        /\ handler[p].id \in DOMAIN rows
    BY <1>6, <1>11 DEF ReplaceRefreshedAgent, TypeInv, HandlersFound, NewRow
  <2>2. Grows
    BY <1>1, <2>1, RowReplaced
  <2> QED
    BY <1>2, <1>4, <1>5, <2>1, <2>2
<1>12. CASE NotifyDestroyed(p)
  <2>1. /\ handler' = [handler EXCEPT ![p] = HandlerIdle] /\ UNCHANGED rows
        /\ killer' = [killer EXCEPT !.pc = "lookup"]
    BY <1>12 DEF NotifyDestroyed
  <2>2. killer' \in KillerState /\ killer'.found = killer.found /\ killer'.todo = killer.todo
    BY <1>1, <2>1, KillerSteps
  <2>3. Grows
    BY <1>1, <2>1, RowsStay
  <2> QED
    BY <1>4, <2>1, <2>2, <2>3, HandlersEnd
<1>13. CASE LookupAgent(p)
  <2>1. UNCHANGED <<rows, killer>> /\ DOMAIN rows' = DOMAIN rows /\ Grows
    BY <1>1, <1>13, RowsStay DEF LookupAgent
  <2>2. ASSUME NEW h \in HandlerState, handler' = [handler EXCEPT ![p] = h],
               h.pc \in {"update", "replace"} =>
                 /\ h.id \in DOMAIN rows /\ rows[h.id].pid = p
                 /\ h.pc = "update" /\ p \in Legacy => rows[h.id].refresh >= h.refresh
                 /\ h.pc = "replace" => p \in Legacy
        PROVE  TypeInv'
    <3>1. /\ handler' \in [Pids -> HandlerState]
          /\ handler'[p] = h /\ \A q \in Pids : q # p => handler'[q] = handler[q]
      BY <1>1, <2>2, HandlerSteps
    <3>2. RoutinesType'
      BY <1>1, <1>3, <2>1, <3>1 DEF RoutinesType
    <3>3. HandlersFound'
      BY <2>1, <2>2, <3>1 DEF TypeInv, HandlersFound
    <3>4. KillerFound' /\ TableType'
      BY <2>1 DEF TypeInv, KillerFound, Grows
    <3> QED
      BY <1>3, <3>2, <3>3, <3>4 DEF TypeInv
  <2>3. CASE handler' = [handler EXCEPT ![p].pc = "insert"]
    <3> DEFINE h == [handler[p] EXCEPT !.pc = "insert"]
    <3>1. h \in HandlerState /\ h.pc = "insert"
      <4>1. \A s \in HandlerState : [s EXCEPT !.pc = "insert"] \in HandlerState /\ [s EXCEPT !.pc = "insert"].pc = "insert"
        BY DEF HandlerState
      <4> QED
        BY <1>1, <4>1, Zenon
    <3>2. handler' = [handler EXCEPT ![p] = h]
      BY <2>3
    <3> HIDE DEF h
    <3> QED
      BY <2>2, <3>1, <3>2
  <2>4. ASSUME NEW i \in AgentByQueueAndPID(p),
               handler' = [handler EXCEPT ![p].id = i,
                                          ![p].dup = (p \in Legacy /\ rows[i].status = "destroyed"),
                                          ![p].pc = IF Refreshed(p, rows[i]) THEN "replace" ELSE "update"]
        PROVE  TypeInv'
    <3>1. PICK dup \in BOOLEAN : dup = (p \in Legacy /\ rows[i].status = "destroyed")
      OBVIOUS
    <3>2. PICK pc \in {"replace", "update"} : pc = IF Refreshed(p, rows[i]) THEN "replace" ELSE "update"
      OBVIOUS
    <3>3. PICK s \in HandlerState : s = handler[p]
      BY <1>1
    <3>4. i \in DOMAIN rows /\ rows[i].pid = p /\ i \in Nat /\ rows[i] \in Rows
      BY <1>1, RowIs DEF AgentByQueueAndPID
    <3> DEFINE h == [pc |-> pc, refresh |-> s.refresh, id |-> i, dup |-> dup]
    <3>5. h \in HandlerState /\ h.pc = pc /\ h.id = i /\ h.refresh = s.refresh
      BY <3>4 DEF HandlerState
    <3>6. handler' = [handler EXCEPT ![p] = h]
      <4> DEFINE found == [s EXCEPT !.id = i]
                 dups == [found EXCEPT !.dup = dup]
      <4>1. found = [pc |-> s.pc, refresh |-> s.refresh, id |-> i, dup |-> s.dup]
        BY DEF HandlerState
      <4>2. dups = [pc |-> s.pc, refresh |-> s.refresh, id |-> i, dup |-> dup]
        <5> HIDE DEF found
        <5> QED
          BY <4>1
      <4>3. [dups EXCEPT !.pc = pc] = h
        <5> HIDE DEF dups
        <5> QED
          BY <4>2
      <4> HIDE DEF h
      <4> QED
        BY <2>4, <3>1, <3>2, <3>3, <4>3
    <3> HIDE DEF h
    <3>7. /\ pc = "replace" => p \in Legacy
          /\ pc = "update" /\ p \in Legacy => rows[i].refresh >= s.refresh
      <4>1. s.refresh \in Nat /\ rows[i].refresh \in Nat
        BY <3>4, AgentRegistryAssumption DEF HandlerState, Rows
      <4> QED
        BY <3>2, <3>3, <4>1 DEF Refreshed
    <3> QED
      BY <2>2, <3>4, <3>5, <3>6, <3>7
  <2> QED
    BY <1>13, <2>3, <2>4 DEF LookupAgent
<1> QED
  BY <1>7, <1>8, <1>9, <1>10, <1>11, <1>12, <1>13 DEF Handler

LEMMA KillerTypes ==
  ASSUME TypeInv, KillDupAgents \/ KillerFails
  PROVE  TypeInv'
<1>1. RoutinesType /\ killer \in KillerState /\ TableType /\ ProcessesType
  BY DEF TypeInv, RoutinesType
<1>2. ProcessesType' /\ UNCHANGED <<handler, periodic, cleanup>>
  BY <1>1 DEF ProcessesType, KillDupAgents, LookupDuplicates, ReissueKill, KillOldest, LeaveDuplicates,
              KillerFails, killerUnchanged, processVars
(* All steps but the query.                                                   *)
<1>3. ASSUME Grows, orders' \subseteq Pids, killer' \in KillerState,
             killer'.found \in {killer.found, {}}, killer'.todo \subseteq killer.todo \intersect killer'.found
      PROVE  TypeInv'
  <2>1. RoutinesType'
    BY <1>1, <1>2, <1>3 DEF RoutinesType
  <2> QED
    BY <1>2, <1>3, <2>1, TypesKept
<1>4. ASSUME NEW i \in DOMAIN rows, NEW next \in KillerState,
             next.found \in {killer.found, {}}, next.todo \subseteq killer.todo \intersect next.found,
             IssueKillAction(i, next)
      PROVE  TypeInv'
  <2>1. rows[i].pid \in Pids
    BY <1>1, RowIs DEF Rows
  <2>2. orders' \subseteq Pids
    BY <1>1, <1>4, <2>1 DEF IssueKillAction, RoutinesType
  <2>3. Grows
    <3>1. CASE rows' = rows
      BY <1>1, <3>1, RowsStay
    <3>2. CASE rows' = [rows EXCEPT ![i].status = "destroyed"]
      BY <1>1, <3>2, StatusWritten DEF Statuses
    <3> QED
      BY <1>4, <3>1, <3>2 DEF IssueKillAction
  <2>4. /\ killer' \in KillerState /\ killer'.found \in {killer.found, {}}
        /\ killer'.todo \subseteq killer.todo \intersect killer'.found
    BY <1>1, <1>4, KillerSteps DEF IssueKillAction
  <2> QED
    BY <1>3, <2>2, <2>3, <2>4
<1>5. CASE LookupDuplicates
  <2> DEFINE found == {[id |-> i, status |-> rows[i].status] : i \in ActiveAgentsByQueue}
             todo == {a \in found : a.status = "destroyed"}
  <2>1. UNCHANGED <<rows, orders>> /\ Grows
    BY <1>1, <1>5, RowsStay DEF LookupDuplicates
  <2>2. CASE killer' = KillerIdle
    BY <1>1, <1>3, <2>1, <2>2, KillerSteps DEF RoutinesType
  <2>3. CASE killer' = [pc |-> "kill", found |-> found, todo |-> todo]
    <3>1. \A a \in found : a.id \in ActiveAgentsByQueue /\ a.status = rows[a.id].status
      OBVIOUS
    <3>2. \A i \in ActiveAgentsByQueue : i \in DOMAIN rows /\ i \in Nat /\ rows[i].status \in Statuses /\ rows[i].status # "offline"
      BY <1>1, RowIs DEF ActiveAgentsByQueue, Rows
    <3>3. found \subseteq Finding
      BY <3>2 DEF Finding
    <3>4. IsFiniteSet(found)
      <4>1. DOMAIN rows = 1..Len(rows) /\ Len(rows) \in Nat
        BY <1>1, LenProperties DEF TableType
      <4>2. IsFiniteSet(DOMAIN rows)
        BY <4>1, FS_Interval
      <4>3. IsFiniteSet(ActiveAgentsByQueue)
        BY <4>2, FS_Subset DEF ActiveAgentsByQueue
      <4> DEFINE finding == [i \in ActiveAgentsByQueue |-> [id |-> i, status |-> rows[i].status]]
      <4>4. finding \in [ActiveAgentsByQueue -> found] /\ \A a \in found : \E i \in ActiveAgentsByQueue : finding[i] = a
        OBVIOUS
      <4> HIDE DEF finding, found
      <4>5. finding \in Surjection(ActiveAgentsByQueue, found)
        BY <4>4, Fun_IsSurj
      <4> QED
        BY <4>3, <4>5, FS_Surjection
    <3>5. \A a, b \in found : a.id = b.id => a = b
      OBVIOUS
    <3> HIDE DEF found
    <3>6. killer'.found = found /\ killer'.todo = todo /\ killer' \in KillerState
      BY <2>3, <3>3 DEF KillerState
    <3>7. KillerFound'
      BY <2>1, <3>1, <3>2, <3>4, <3>5, <3>6 DEF KillerFound
    <3>8. RoutinesType'
      BY <1>1, <1>2, <2>1, <3>6 DEF RoutinesType
    <3>9. HandlersFound' /\ TableType'
      BY <1>2, <2>1 DEF TypeInv, HandlersFound, Grows
    <3> QED
      BY <1>2, <3>7, <3>8, <3>9 DEF TypeInv
  <2> QED
    BY <1>5, <2>2, <2>3 DEF LookupDuplicates
<1>6. CASE ReissueKill
  <2>1. PICK a \in killer.todo : IssueKillAction(a.id, [killer EXCEPT !.todo = @ \ {a}])
    BY <1>6 DEF ReissueKill
  <2> DEFINE next == [killer EXCEPT !.todo = @ \ {a}]
  <2>2. next \in KillerState /\ next.found = killer.found /\ next.todo = killer.todo \ {a}
    BY <1>1, KillerSteps
  <2>3. a.id \in DOMAIN rows /\ killer.todo \subseteq killer.found
    BY DEF TypeInv, KillerFound
  <2>4. IssueKillAction(a.id, next)
    BY <2>1
  <2> HIDE DEF next
  <2> QED
    BY <1>4, <2>2, <2>3, <2>4
<1>7. CASE KillOldest
  <2>1. PICK first \in killer.found : IssueKillAction(Oldest(first), KillerIdle)
    BY <1>7 DEF KillOldest
  <2>2. Oldest(first) \in DOMAIN rows
    BY OldestIsFound DEF TypeInv, KillerFound
  <2> QED
    BY <1>1, <1>4, <2>1, <2>2, KillerSteps
<1>8. CASE LeaveDuplicates \/ KillerFails
  <2>1. UNCHANGED <<rows, orders>> /\ killer' = KillerIdle
    BY <1>8 DEF LeaveDuplicates, KillerFails
  <2> QED
    BY <1>1, <1>3, <2>1, RowsStay, KillerSteps DEF RoutinesType
<1> QED
  BY <1>5, <1>6, <1>7, <1>8 DEF KillDupAgents

(* Rows and routines are as TypeInv says.                                      *)
LEMMA Types == Spec => []TypeInv
<1>1. Init => TypeInv
  <2> SUFFICES ASSUME Init PROVE TypeInv
    OBVIOUS
  <2>1. ProcessesType
    <3>1. 0 \in 0..MaxRefresh
      BY AgentRegistryAssumption
    <3>2. env \in [Pids -> 0..MaxRefresh]
      BY <3>1 DEF Init
    <3>3. started = {} /\ alive = {} /\ listening = {} /\ queue = FALSE
      BY DEF Init
    <3> QED
      BY <3>2, <3>3 DEF ProcessesType
  <2>5. HandlersFound
    BY HandlersEnd DEF Init, HandlersFound
  <2>2. TableType
    BY AgentRegistryAssumption, EmptySeq DEF Init, TableType
  <2>3. RoutinesType
    BY HandlersEnd, AgentRegistryAssumption DEF Init, RoutinesType, KillerIdle, KillerState
  <2>4. KillerFound
    BY FS_EmptySet DEF Init, KillerFound, KillerIdle
  <2> QED
    BY <2>1, <2>2, <2>3, <2>4, <2>5 DEF TypeInv
<1>2. TypeInv /\ [Next]_vars => TypeInv'
  <2> SUFFICES ASSUME TypeInv, [Next]_vars PROVE TypeInv'
    OBVIOUS
  <2>1. CASE Agents
    BY <2>1, AgentsTypes
  <2>2. ASSUME NEW p \in Pids, Heartbeat(p) \/ DropHeartbeat(p) \/ Handler(p) PROVE TypeInv'
    BY <2>2, HandlerTypes
  <2>3. CASE Periodic \/ PeriodicFails
    BY <2>3, PeriodicTypes
  <2>4. CASE KillDupAgents \/ KillerFails
    BY <2>4, KillerTypes
  <2>5. CASE GetDisappearedEndpoints \/ DeleteQueue \/ SkipQueue
    BY <2>5, CleanupTypes
  <2>6. CASE UNCHANGED vars
    BY <2>6 DEF TypeInv, ProcessesType, TableType, RoutinesType, HandlersFound, KillerFound, vars, processVars
  <2> QED
    BY <2>1, <2>2, <2>3, <2>4, <2>5, <2>6 DEF Next
<1> QED
  BY <1>1, <1>2, PTL DEF Spec

(* The states of the routines and the rows of the table: TypeOK.                *)
THEOREM TypeCorrect == Spec => []TypeOK
<1>1. TypeInv => TypeOK
  BY DEF TypeInv, ProcessesType, TableType, RoutinesType, HandlersFound, KillerFound,
         HandlerState, KillerState, TypeOK
<1> QED
  BY <1>1, Types, PTL

--------------------------------------------------------------------------------
(* Rows of one process.                                                       *)

LEMMA OutlivedStays ==
  ASSUME Grows, NEW p, Outlived(p)
  PROVE  Outlived(p)'
BY DEF Grows, Outlived

(* A step in which the handlers do not find anything, and rows only leave use; but  *)
(* the killer may bring a row that was replaced back into use.                     *)
LEMMA RowsLeaveUse ==
  ASSUME TypeInv, ApartInv, OutlivedInv, TypeInv', Grows, DOMAIN rows' = DOMAIN rows,
         \A i \in DOMAIN rows : rows'[i].status # "offline" =>
           InUse(i) \/ (rows[i].pid \in Legacy /\ Outlived(rows[i].pid)),
         \A i \in DOMAIN rows : rows'[i].status = "destroyed" =>
           rows[i].status = "destroyed" \/ Outlived(rows[i].pid),
         \A i \in DOMAIN rows : rows'[i].status = "idle" => rows'[i].age # Fresh,
         \A p \in Pids : handler'[p] = handler[p] \/ handler'[p].pc \notin {"insert", "update", "replace"},
         \/ killer'.found = {}
         \/ /\ killer'.found = killer.found
            /\ \A a \in killer.found : rows'[a.id].age # Gone /\ (InUse(a.id) => rows'[a.id].status # "offline")
  PROVE  ApartInv' /\ OutlivedInv'
<1>1. \A i \in DOMAIN rows : rows'[i].pid = rows[i].pid /\ rows[i].pid \in Pids
  BY RowIs DEF TypeInv, Grows, Rows
<1>2. \A p : Outlived(p) => Outlived(p)'
  BY OutlivedStays
<1>3. \A p \in Pids, i \in Nat : OnlyRow(i, p) => OnlyRow(i, p)' \/ (p \in Legacy /\ Outlived(p))
  BY <1>1 DEF OnlyRow, InUse
<1>4. DOMAIN rows \subseteq Nat /\ NoRow \in Nat /\ \A p \in Pids : handler[p].id \in Nat
  BY RowIs DEF TypeInv, RoutinesType, HandlerState, NoRow
<1>5. killer'.found \subseteq killer.found /\ \A a \in killer.found : a.id \in DOMAIN rows
  BY DEF TypeInv, KillerFound
<1>6. RowsApart'
  <2> SUFFICES ASSUME NEW i \in DOMAIN rows, NEW p \in Pids \ Legacy, p = rows'[i].pid, rows'[i].status # "offline"
               PROVE  OnlyRow(i, p)'
    BY <1>1 DEF RowsApart, InUse
  <2>1. InUse(i) /\ rows[i].pid = p
    BY <1>1
  <2>2. OnlyRow(i, p)
    BY <2>1 DEF ApartInv, RowsApart
  <2> QED
    BY <1>3, <1>4, <2>2
<1>7. WritesApart'
  <2> SUFFICES ASSUME NEW p \in Pids \ Legacy
               PROVE  /\ handler'[p].pc = "insert" => OnlyRow(NoRow, p)'
                      /\ handler'[p].pc = "update" => OnlyRow(handler[p].id, p)' /\ handler'[p] = handler[p]
    BY DEF WritesApart, OnlyRow, InUse, NoRow
  <2> QED
    BY <1>3, <1>4 DEF ApartInv, WritesApart
<1>8. FoundInUse'
  BY <1>1, <1>5 DEF ApartInv, FoundInUse, InUse
<1>9. DestroyedOutlived'
  BY <1>1, <1>2, <1>5 DEF OutlivedInv, DestroyedOutlived
<1>10. RowsOutlived'
  <2> SUFFICES ASSUME NEW i \in DOMAIN rows, rows'[i].status # "offline", NEW p \in Pids, p = rows'[i].pid
               PROVE  OnlyRow(i, p)' \/ Outlived(p)'
    BY <1>1 DEF RowsOutlived, InUse
  <2>1. p = rows[i].pid
    BY <1>1
  <2>2. OnlyRow(i, p) \/ Outlived(p)
    BY <2>1 DEF OutlivedInv, RowsOutlived
  <2> QED
    BY <1>2, <1>3, <1>4, <2>2
<1>11. WritesOutlived'
  <2> SUFFICES ASSUME NEW p \in Pids
               PROVE  /\ handler'[p].pc = "insert" => OnlyRow(NoRow, p)' \/ Outlived(p)'
                      /\ handler'[p].pc \in {"update", "replace"} =>
                           handler'[p] = handler[p] /\ (OnlyRow(handler[p].id, p)' \/ Outlived(p)')
    BY DEF WritesOutlived, OnlyRow, InUse, NoRow
  <2> QED
    BY <1>2, <1>3, <1>4 DEF OutlivedInv, WritesOutlived
<1>12. FoundOutlived'
  <2> SUFFICES ASSUME NEW a \in killer'.found, NEW b \in killer'.found, a # b, rows'[a.id].pid = rows'[b.id].pid,
                      NEW p \in Pids, p = rows'[a.id].pid
               PROVE  Outlived(p)'
    BY <1>1, <1>5 DEF FoundOutlived
  <2>1. Outlived(p)
    BY <1>1, <1>5 DEF OutlivedInv, FoundOutlived
  <2> QED
    BY <1>2, <2>1
<1>13. FreshIsOnline'
  BY <1>5 DEF OutlivedInv, FreshIsOnline
<1> QED
  BY <1>6, <1>7, <1>8, <1>9, <1>10, <1>11, <1>12, <1>13 DEF ApartInv, OutlivedInv

(* The handler of process p writes row n, and takes row i out of use.            *)
LEMMA RowPlaced ==
  ASSUME TypeInv, ApartInv, OutlivedInv, TypeInv', Grows, UNCHANGED killer,
         NEW p \in Pids, NEW i \in Nat, NEW n \in Nat \ {0},
         DOMAIN rows' = DOMAIN rows \union {n},
         rows'[n].pid = p, rows'[n].status = "online", rows'[n].age = Fresh,
         \A j \in DOMAIN rows : j # n =>
           \/ rows'[j] = rows[j] /\ j # i
           \/ j = i /\ p \in Legacy /\ rows[j].pid = p /\ rows'[j].status = "offline" /\ rows'[j].age = rows[j].age,
         p \notin Legacy => OnlyRow(i, p), OnlyRow(i, p) \/ Outlived(p),
         handler'[p].pc \notin {"insert", "update", "replace"},
         \A q \in Pids : q # p => handler'[q] = handler[q]
  PROVE  ApartInv' /\ OutlivedInv'
<1>1. \A j \in DOMAIN rows : rows'[j].pid = rows[j].pid /\ rows[j].pid \in Pids
  BY RowIs DEF TypeInv, Grows, Rows
<1>2. \A q : Outlived(q) => Outlived(q)'
  BY OutlivedStays
<1>3. \A q \in Pids, j \in Nat : q # p /\ OnlyRow(j, q) => OnlyRow(j, q)'
  BY <1>1 DEF OnlyRow, InUse
<1>4. OnlyRow(i, p) => OnlyRow(n, p)'
  BY <1>1 DEF OnlyRow, InUse
<1>5. \A j \in DOMAIN rows : j # n /\ rows'[j].pid = p /\ rows'[j].status # "offline" => ~ OnlyRow(i, p)
  BY <1>1 DEF OnlyRow, InUse
<1>6. \A j \in DOMAIN rows : j # n /\ rows'[j].status # "offline" => rows'[j] = rows[j] /\ InUse(j)
  BY DEF InUse
<1>7. DOMAIN rows \subseteq Nat /\ NoRow \in Nat /\ \A q \in Pids : handler[q].id \in Nat
  BY RowIs DEF TypeInv, RoutinesType, HandlerState, NoRow
<1>8. killer'.found = killer.found /\ \A a \in killer.found : a.id \in DOMAIN rows
  BY DEF TypeInv, KillerFound
<1>9. RowsApart'
  <2> SUFFICES ASSUME NEW j \in DOMAIN rows', NEW q \in Pids \ Legacy, q = rows'[j].pid, rows'[j].status # "offline"
               PROVE  OnlyRow(j, q)'
    BY <1>1 DEF RowsApart, InUse
  <2>1. CASE q = p
    BY <1>4, <1>5, <2>1
  <2>2. CASE q # p
    <3>1. j \in DOMAIN rows /\ j # n /\ InUse(j) /\ rows[j].pid = q
      BY <1>1, <1>6, <2>2
    <3> QED
      BY <1>3, <1>7, <2>2, <3>1 DEF ApartInv, RowsApart
  <2> QED
    BY <2>1, <2>2
<1>10. WritesApart'
  <2> SUFFICES ASSUME NEW q \in Pids \ Legacy, q # p
               PROVE  /\ handler[q].pc = "insert" => OnlyRow(NoRow, q)'
                      /\ handler[q].pc = "update" => OnlyRow(handler[q].id, q)'
    BY DEF WritesApart, OnlyRow, InUse, NoRow
  <2> QED
    BY <1>3, <1>7 DEF ApartInv, WritesApart
<1>11. FoundInUse'
  <2> SUFFICES ASSUME NEW a \in killer.found
               PROVE  rows'[a.id].age # Gone /\ (rows'[a.id].pid \notin Legacy => rows'[a.id].status # "offline")
    BY <1>8 DEF FoundInUse, InUse
  <2>1. rows[a.id].age # Gone /\ (rows[a.id].pid \notin Legacy => InUse(a.id)) /\ a.id \in DOMAIN rows
    BY <1>8 DEF ApartInv, FoundInUse
  <2> QED
    BY <1>1, <2>1 DEF InUse, Fresh, Gone
<1>12. DestroyedOutlived'
  BY <1>1, <1>2, <1>6, <1>8 DEF OutlivedInv, DestroyedOutlived
<1>13. RowsOutlived'
  <2> SUFFICES ASSUME NEW j \in DOMAIN rows', NEW q \in Pids, q = rows'[j].pid, rows'[j].status # "offline"
               PROVE  OnlyRow(j, q)' \/ Outlived(q)'
    BY <1>1 DEF RowsOutlived, InUse
  <2>1. CASE q = p
    <3>1. CASE OnlyRow(i, p)
      <4>1. j = n
        BY <1>5, <2>1, <3>1
      <4>2. OnlyRow(n, p)'
        BY <1>4, <3>1
      <4>3. OnlyRow(j, q)'
        BY <2>1, <4>1, <4>2
      <4> QED
        BY <4>3
    <3>2. CASE Outlived(p)
      BY <1>2, <2>1, <3>2
    <3> QED
      BY <3>1, <3>2
  <2>2. CASE q # p
    <3>1. j \in DOMAIN rows /\ j # n /\ InUse(j) /\ rows[j].pid = q
      BY <1>1, <1>6, <2>2
    <3>2. OnlyRow(j, q) \/ Outlived(q)
      BY <3>1 DEF OutlivedInv, RowsOutlived
    <3> QED
      BY <1>2, <1>3, <1>7, <2>2, <3>1, <3>2
  <2> QED
    BY <2>1, <2>2
<1>14. WritesOutlived'
  <2> SUFFICES ASSUME NEW q \in Pids, q # p
               PROVE  /\ handler[q].pc = "insert" => OnlyRow(NoRow, q)' \/ Outlived(q)'
                      /\ handler[q].pc \in {"update", "replace"} => OnlyRow(handler[q].id, q)' \/ Outlived(q)'
    BY DEF WritesOutlived, OnlyRow, InUse, NoRow
  <2> QED
    BY <1>2, <1>3, <1>7 DEF OutlivedInv, WritesOutlived
<1>15. FoundOutlived'
  <2> SUFFICES ASSUME NEW a \in killer.found, NEW b \in killer.found, a # b, rows'[a.id].pid = rows'[b.id].pid,
                      NEW q \in Pids, q = rows'[a.id].pid
               PROVE  Outlived(q)'
    BY <1>1, <1>8 DEF FoundOutlived
  <2>1. Outlived(q)
    BY <1>1, <1>8 DEF OutlivedInv, FoundOutlived
  <2> QED
    BY <1>2, <2>1
<1>16. FreshIsOnline'
  BY <1>6, <1>8 DEF OutlivedInv, FreshIsOnline
<1> QED
  BY <1>9, <1>10, <1>11, <1>12, <1>13, <1>14, <1>15, <1>16 DEF ApartInv, OutlivedInv

--------------------------------------------------------------------------------
(* What the handlers, the periodic routine and the killer do to the rows.        *)

LEMMA AgentsApart ==
  ASSUME TypeInv, ApartInv, OutlivedInv, TypeInv', Agents
  PROVE  ApartInv' /\ OutlivedInv'
<1>1. CASE UNCHANGED <<rows, handler, killer>>
  <2>1. Grows
    BY <1>1, RowsStay DEF TypeInv
  <2> QED
    BY <1>1, <2>1, RowsLeaveUse DEF InUse, OutlivedInv, FreshIsOnline, ApartInv, FoundInUse
<1>2. ASSUME NEW i \in DOMAIN rows, Older(i)
      PROVE  ApartInv' /\ OutlivedInv'
  <2>1. /\ Grows /\ DOMAIN rows' = DOMAIN rows
        /\ rows'[i].status = rows[i].status /\ rows'[i].age = rows[i].age + 1
        /\ \A j \in DOMAIN rows : j # i => rows'[j] = rows[j]
    BY <1>2, RowAges DEF TypeInv
  <2>2. UNCHANGED <<handler, killer>> /\ rows[i].age < MaxAge /\ (rows[i].age = Silent => i \notin {a.id : a \in killer.found})
    BY <1>2 DEF Older
  <2>3. rows[i].age \in Ages
    BY RowIs DEF TypeInv, Rows
  <2>4. rows'[i].age # Fresh /\ (rows[i].age # Silent => rows'[i].age # Gone)
    BY <2>1, <2>2, <2>3, AgentRegistryAssumption DEF Ages, Fresh, Silent, Gone
  <2>5. \A a \in killer.found : rows'[a.id].age # Gone /\ rows'[a.id].status = rows[a.id].status
    BY <2>1, <2>2, <2>4 DEF TypeInv, KillerFound, ApartInv, FoundInUse
  <2>6. \A j \in DOMAIN rows : /\ rows'[j].status = rows[j].status
                               /\ rows'[j].status = "idle" => rows'[j].age # Fresh
    BY <2>1, <2>4 DEF OutlivedInv, FreshIsOnline
  <2> QED
    BY <2>1, <2>2, <2>5, <2>6, RowsLeaveUse DEF InUse
<1> QED
  BY <1>1, <1>2 DEF Agents, StartAgent, EndAgent, RefreshEnvironment, ExpireOrder, DestroyAgent

LEMMA PeriodicApart ==
  ASSUME TypeInv, ApartInv, OutlivedInv, TypeInv', Periodic \/ PeriodicFails
  PROVE  ApartInv' /\ OutlivedInv'
<1>1. UNCHANGED handler /\ killer'.found = killer.found
  BY KillerSteps DEF TypeInv, Periodic, MarkOfflineAgents, MarkIdleAgents, DetectMultiAgents, SendMultiAgents, PeriodicFails,
         periodicUnchanged
<1>2. CASE UNCHANGED rows
  <2>1. Grows
    BY <1>2, RowsStay DEF TypeInv
  <2> QED
    BY <1>1, <1>2, <2>1, RowsLeaveUse DEF InUse, OutlivedInv, FreshIsOnline, ApartInv, FoundInUse
<1>3. ASSUME NEW from \in {"idle", "online"}, NEW to \in {"offline", "idle"}, NEW age \in Ages, rows' = Mark(from, to, age),
             to = "offline" => age = Gone, to = "idle" => age = Silent
      PROVE  ApartInv' /\ OutlivedInv'
  <2>1. /\ Grows /\ DOMAIN rows' = DOMAIN rows
        /\ \A i \in DOMAIN rows : rows'[i].age = rows[i].age
        /\ \A i \in DOMAIN rows :
             \/ rows'[i] = rows[i]
             \/ rows[i].status = from /\ rows[i].age >= age /\ rows'[i].status = to
    BY <1>3, AllMarked DEF TypeInv, Statuses
  <2>2. \A i \in DOMAIN rows : rows[i].age \in Ages
    BY RowIs DEF TypeInv, Rows
  <2>3. \A i \in DOMAIN rows : /\ rows'[i].status # "offline" => InUse(i)
                               /\ rows'[i].status = "destroyed" => rows[i].status = "destroyed"
                               /\ rows[i].age # Gone /\ InUse(i) => rows'[i].status # "offline"
    BY <1>3, <2>1, <2>2 DEF InUse, Ages, Fresh, Gone
  <2>4. \A i \in DOMAIN rows : rows'[i].status = "idle" => rows'[i].age # Fresh
    BY <1>3, <2>1, <2>2 DEF OutlivedInv, FreshIsOnline, Ages, Fresh, Silent, Gone
  <2>5. \A a \in killer.found : a.id \in DOMAIN rows /\ rows[a.id].age # Gone
    BY DEF TypeInv, KillerFound, ApartInv, FoundInUse
  <2> QED
    BY <1>1, <2>1, <2>3, <2>4, <2>5, RowsLeaveUse
<1>4. MarkOfflineAgents => ApartInv' /\ OutlivedInv'
  BY <1>3 DEF MarkOfflineAgents, Ages, Fresh, Gone
<1>5. MarkIdleAgents => ApartInv' /\ OutlivedInv'
  BY <1>3 DEF MarkIdleAgents, Ages, Fresh, Silent, Gone
<1> QED
  BY <1>2, <1>4, <1>5 DEF Periodic, DetectMultiAgents, SendMultiAgents, PeriodicFails

LEMMA HandlerApart ==
  ASSUME TypeInv, ApartInv, OutlivedInv, TypeInv', NEW p \in Pids,
         Heartbeat(p) \/ DropHeartbeat(p) \/ Handler(p)
  PROVE  ApartInv' /\ OutlivedInv'
<1>1. /\ handler \in [Pids -> HandlerState] /\ handler[p] \in HandlerState /\ handler[p].id \in Nat
      /\ TableType /\ rows \in Seq(Rows)
  BY DEF TypeInv, RoutinesType, HandlerState, TableType
<1>2. Written(handler[p]) \in HandlerState /\ Written(handler[p]).pc \in {"idle", "notify"}
  BY <1>1, HandlersEnd
<1>3. HandlerIdle \in HandlerState /\ HandlerIdle.pc = "idle"
  BY HandlersEnd
<1>4. [pid |-> p, status |-> "online", age |-> Fresh, refresh |-> handler[p].refresh] \in Rows
  BY <1>1 DEF Rows, HandlerState, Statuses, Ages, Fresh, Gone
<1>5. CASE Heartbeat(p) \/ DropHeartbeat(p) \/ NotifyDestroyed(p)
  <2>1. UNCHANGED rows /\ Grows /\ killer'.found = killer.found
    BY <1>1, <1>5, RowsStay, KillerSteps DEF TypeInv, Heartbeat, DropHeartbeat, NotifyDestroyed
  <2>2. handler'[p].pc \in {"lookup", "idle", "notify"} /\ \A q \in Pids : q # p => handler'[q] = handler[q]
    <3>1. CASE Heartbeat(p)
      <4> DEFINE h == [HandlerIdle EXCEPT !.pc = "lookup", !.refresh = env[p]]
      <4>1. h.pc = "lookup"
        BY DEF HandlerIdle
      <4>2. handler' = [handler EXCEPT ![p] = h]
        BY <3>1 DEF Heartbeat
      <4> HIDE DEF h
      <4> QED
        BY <1>1, <4>1, <4>2
    <3>2. CASE DropHeartbeat(p)
      BY <1>1, <1>2, <3>2 DEF DropHeartbeat
    <3>3. CASE NotifyDestroyed(p)
      BY <1>1, <1>3, <3>3 DEF NotifyDestroyed
    <3> QED
      BY <1>5, <3>1, <3>2, <3>3
  <2> QED
    BY <2>1, <2>2, RowsLeaveUse DEF InUse, OutlivedInv, FreshIsOnline, ApartInv, FoundInUse
<1>6. CASE InsertAgent(p)
  <2> DEFINE n == Len(rows) + 1
  <2>1. /\ handler' = [handler EXCEPT ![p] = HandlerIdle] /\ UNCHANGED killer /\ handler[p].pc = "insert"
        /\ Len(rows) < MaxRows /\ rows' = Append(rows, NewRow(p)) /\ NewRow(p) \in Rows
    BY <1>4, <1>6 DEF InsertAgent, NewRow
  <2>2. /\ Grows /\ n \notin DOMAIN rows /\ DOMAIN rows \subseteq Nat \ {0}
        /\ DOMAIN rows' = DOMAIN rows \union {n}
        /\ rows'[n] = NewRow(p) /\ \A j \in DOMAIN rows : rows'[j] = rows[j]
    BY <1>1, <2>1, RowAdded
  <2>3. n \in Nat \ {0} /\ NoRow \in Nat /\ NoRow \notin DOMAIN rows
    BY <1>1, <2>2, LenProperties DEF NoRow
  <2>4. NewRow(p).pid = p /\ NewRow(p).status = "online" /\ NewRow(p).age = Fresh
    BY DEF NewRow
  <2>5. /\ p \notin Legacy => OnlyRow(NoRow, p)
        /\ OnlyRow(NoRow, p) \/ Outlived(p)
    BY <2>1 DEF ApartInv, WritesApart, OutlivedInv, WritesOutlived
  <2>6. handler'[p].pc = "idle" /\ \A q \in Pids : q # p => handler'[q] = handler[q]
    BY <1>1, <1>3, <2>1
  <2> HIDE DEF n
  <2> QED
    BY <2>1, <2>2, <2>3, <2>4, <2>5, <2>6, RowPlaced
<1>7. CASE UpdateAgentHeartbeat(p)
  <2> DEFINE i == handler[p].id
  <2>1. /\ handler' = [handler EXCEPT ![p] = Written(handler[p])] /\ UNCHANGED killer /\ handler[p].pc = "update"
        /\ rows' = [rows EXCEPT ![i].status = "online", ![i].age = Fresh]
        /\ i \in DOMAIN rows /\ rows[i].pid = p
    BY <1>7 DEF UpdateAgentHeartbeat, TypeInv, HandlersFound
  <2>2. /\ Grows /\ DOMAIN rows' = DOMAIN rows
        /\ rows'[i].status = "online" /\ rows'[i].age = Fresh
        /\ \A j \in DOMAIN rows : j # i => rows'[j] = rows[j]
    BY <1>1, <2>1, RowRefreshed
  <2>3. rows'[i].pid = p /\ i \in Nat \ {0}
    BY <1>1, <2>1, <2>2, RowIs DEF Grows
  <2>4. /\ p \notin Legacy => OnlyRow(i, p)
        /\ OnlyRow(i, p) \/ Outlived(p)
    BY <2>1 DEF ApartInv, WritesApart, OutlivedInv, WritesOutlived
  <2>5. handler'[p].pc \in {"idle", "notify"} /\ \A q \in Pids : q # p => handler'[q] = handler[q]
    BY <1>1, <1>2, <2>1
  <2>6. UNCHANGED killer /\ DOMAIN rows' = DOMAIN rows \union {i} /\ i \in Nat
    BY <2>1, <2>2, <2>3
  <2> HIDE DEF i
  <2> QED
    BY <2>2, <2>3, <2>4, <2>5, <2>6, RowPlaced
<1>8. CASE ReplaceRefreshedAgent(p)
  <2> DEFINE i == handler[p].id
             n == Len(rows) + 1
  <2>1. /\ handler' = [handler EXCEPT ![p] = Written(handler[p])] /\ UNCHANGED killer /\ handler[p].pc = "replace"
        /\ Len(rows) < MaxRows /\ NewRow(p) \in Rows
        /\ rows' = Append([rows EXCEPT ![i].status = "offline"], NewRow(p))
        /\ i \in DOMAIN rows /\ rows[i].pid = p /\ p \in Legacy
    BY <1>4, <1>8 DEF ReplaceRefreshedAgent, NewRow, TypeInv, HandlersFound
  <2>2. /\ Grows /\ n \notin DOMAIN rows /\ DOMAIN rows \subseteq Nat \ {0}
        /\ DOMAIN rows' = DOMAIN rows \union {n}
        /\ rows'[n] = NewRow(p)
        /\ rows'[i].status = "offline" /\ rows'[i].age = rows[i].age
        /\ \A j \in DOMAIN rows : j # i => rows'[j] = rows[j]
    BY <1>1, <2>1, RowReplaced
  <2>3. n \in Nat \ {0} /\ i \in Nat
    BY <1>1, LenProperties
  <2>4. NewRow(p).pid = p /\ NewRow(p).status = "online" /\ NewRow(p).age = Fresh
    BY DEF NewRow
  <2>5. OnlyRow(i, p) \/ Outlived(p)
    BY <2>1 DEF OutlivedInv, WritesOutlived
  <2>6. handler'[p].pc \in {"idle", "notify"} /\ \A q \in Pids : q # p => handler'[q] = handler[q]
    BY <1>1, <1>2, <2>1
  <2>7. UNCHANGED killer /\ rows[i].pid = p /\ p \in Legacy
    BY <2>1
  <2> HIDE DEF i, n
  <2> QED
    BY <2>2, <2>3, <2>4, <2>5, <2>6, <2>7, RowPlaced
<1>9. CASE LookupAgent(p)
  <2>1. /\ UNCHANGED <<rows, killer>> /\ \A q \in Pids : q # p => handler'[q] = handler[q]
    BY <1>1, <1>9 DEF LookupAgent
  <2>2. /\ handler'[p].pc \in {"insert", "update", "replace"}
        /\ handler'[p].pc = "insert" => AgentByQueueAndPID(p) = {}
        /\ handler'[p].pc # "insert" => handler'[p].id \in AgentByQueueAndPID(p)
    <3>1. \A h \in HandlerState : [h EXCEPT !.pc = "insert"].pc = "insert"
      BY DEF HandlerState
    <3>2. CASE AgentByQueueAndPID(p) = {} /\ handler' = [handler EXCEPT ![p].pc = "insert"]
      <4>1. handler'[p] = [handler[p] EXCEPT !.pc = "insert"]
        BY <1>1, <3>2, Zenon
      <4>2. handler'[p].pc = "insert"
        BY <1>1, <3>1, <4>1, Zenon
      <4> QED
        BY <3>2, <4>2
    <3>3. ASSUME NEW i \in AgentByQueueAndPID(p),
                 handler' = [handler EXCEPT ![p].id = i,
                                            ![p].dup = (p \in Legacy /\ rows[i].status = "destroyed"),
                                            ![p].pc = IF Refreshed(p, rows[i]) THEN "replace" ELSE "update"]
          PROVE  handler'[p].pc \in {"update", "replace"} /\ handler'[p].id = i
      <4>1. PICK dup \in BOOLEAN : dup = (p \in Legacy /\ rows[i].status = "destroyed")
        OBVIOUS
      <4>2. PICK pc \in {"replace", "update"} : pc = IF Refreshed(p, rows[i]) THEN "replace" ELSE "update"
        OBVIOUS
      <4>3. PICK s \in HandlerState : s = handler[p]
        BY <1>1
      <4> DEFINE found == [s EXCEPT !.id = i]
                 dups == [found EXCEPT !.dup = dup]
                 h == [dups EXCEPT !.pc = pc]
      <4>4. found = [pc |-> s.pc, refresh |-> s.refresh, id |-> i, dup |-> s.dup]
        BY DEF HandlerState
      <4>5. dups = [pc |-> s.pc, refresh |-> s.refresh, id |-> i, dup |-> dup]
        <5> HIDE DEF found
        <5> QED
          BY <4>4
      <4>6. h.pc = pc /\ h.id = i
        <5> HIDE DEF dups
        <5> QED
          BY <4>5
      <4>7. handler' = [handler EXCEPT ![p] = h]
        BY <3>3, <4>1, <4>2, <4>3
      <4> HIDE DEF h
      <4> QED
        BY <1>1, <4>2, <4>6, <4>7
    <3> QED
      BY <1>9, <3>2, <3>3 DEF LookupAgent
  <2>3. /\ handler'[p].pc = "insert" => OnlyRow(NoRow, p)
        /\ handler'[p].pc # "insert" =>
             /\ p \notin Legacy => OnlyRow(handler'[p].id, p)
             /\ OnlyRow(handler'[p].id, p) \/ Outlived(p)
    <3>1. AgentByQueueAndPID(p) = {} => OnlyRow(NoRow, p)
      BY DEF AgentByQueueAndPID, OnlyRow, InUse
    <3>2. \A i \in AgentByQueueAndPID(p) : /\ p \notin Legacy => OnlyRow(i, p)
                                           /\ OnlyRow(i, p) \/ Outlived(p)
      BY DEF AgentByQueueAndPID, InUse, ApartInv, RowsApart, OutlivedInv, RowsOutlived
    <3> QED
      BY <2>2, <3>1, <3>2
  <2>4. ApartInv'
    <3>1. RowsApart' /\ FoundInUse'
      BY <2>1 DEF ApartInv, RowsApart, FoundInUse, OnlyRow, InUse
    <3>2. WritesApart'
      BY <2>1, <2>2, <2>3 DEF ApartInv, WritesApart, OnlyRow, InUse
    <3> QED
      BY <3>1, <3>2 DEF ApartInv
  <2>5. OutlivedInv'
    <3>1. DestroyedOutlived' /\ RowsOutlived' /\ FoundOutlived' /\ FreshIsOnline'
      BY <2>1 DEF OutlivedInv, DestroyedOutlived, RowsOutlived, FoundOutlived, FreshIsOnline, OnlyRow, InUse, Outlived
    <3>2. WritesOutlived'
      BY <2>1, <2>2, <2>3 DEF OutlivedInv, WritesOutlived, OnlyRow, InUse, Outlived
    <3> QED
      BY <3>1, <3>2 DEF OutlivedInv
  <2> QED
    BY <2>4, <2>5
<1> QED
  BY <1>5, <1>6, <1>7, <1>8, <1>9 DEF Handler

(* The agent that killDupAgents kills is outlived: another one, that is left, is    *)
(* online and newer, and it is another process, or of several rows of the same     *)
(* process that are in use.                                                        *)
LEMMA OldestIsOutlived ==
  ASSUME TypeInv, OutlivedInv, Cardinality(Remaining) > 1, NEW first \in killer.found
  PROVE  Oldest(first) \in DOMAIN rows /\ Outlived(rows[Oldest(first)].pid)
<1>1. PICK a \in killer.found : a.id = Oldest(first)
  BY OldestIsFound
<1>2. a.id \in DOMAIN rows /\ DOMAIN rows \subseteq Nat
  BY RowIs DEF TypeInv, KillerFound
<1>3. CASE a.status = "destroyed"
  BY <1>1, <1>2, <1>3 DEF OutlivedInv, DestroyedOutlived
<1>4. CASE a.status # "destroyed"
  <2>1. IsFiniteSet(Remaining)
    BY FS_Subset DEF Remaining, TypeInv, KillerFound
  <2>2. PICK b \in Remaining : b # a
    BY <2>1, SeveralFound
  <2>3. b \in killer.found /\ b.status = "online" /\ b.id \in DOMAIN rows
    BY DEF Remaining, OutlivedInv, FreshIsOnline, TypeInv, KillerFound
  <2>4. Oldest(first) <= b.id
    BY <2>3, OldestIsFound
  <2>5. a.id # b.id
    BY <2>2, <2>3 DEF TypeInv, KillerFound
  <2>6. a.id < b.id
    BY <1>1, <1>2, <2>3, <2>4, <2>5
  <2>7. CASE rows[a.id].pid = rows[b.id].pid
    BY <1>1, <1>2, <2>2, <2>3, <2>7 DEF OutlivedInv, FoundOutlived
  <2>8. CASE rows[a.id].pid # rows[b.id].pid
    <3>1. PICK p : p = rows[a.id].pid
      OBVIOUS
    <3>2. Outlived(p)
      BY <1>2, <2>3, <2>6, <2>8, <3>1 DEF Outlived
    <3> QED
      BY <1>1, <1>2, <3>1, <3>2
  <2> QED
    BY <2>7, <2>8
<1> QED
  BY <1>3, <1>4

(* The rows that killDupAgents orders the destruction of.                       *)
LEMMA KilledIsOutlived ==
  ASSUME TypeInv, OutlivedInv, ReissueKill \/ KillOldest
  PROVE  \E a \in killer.found : /\ Outlived(rows[a.id].pid) /\ a.id \in DOMAIN rows
                                 /\ \E next : IssueKillAction(a.id, next) /\ next.found \in {killer.found, {}}
<1>1. RoutinesType /\ killer.todo \subseteq killer.found /\ \A a \in killer.found : a.id \in DOMAIN rows
  BY DEF TypeInv, KillerFound
<1>2. CASE ReissueKill
  <2>1. PICK a \in killer.todo : IssueKillAction(a.id, [killer EXCEPT !.todo = @ \ {a}])
    BY <1>2 DEF ReissueKill
  <2> DEFINE next == [killer EXCEPT !.todo = @ \ {a}]
  <2>2. next.found = killer.found /\ IssueKillAction(a.id, next)
    BY <1>1, <2>1, KillerSteps
  <2>3. a.status = "destroyed" /\ a \in killer.found
    BY DEF TypeInv, KillerFound
  <2>4. Outlived(rows[a.id].pid)
    BY <2>3 DEF OutlivedInv, DestroyedOutlived
  <2> HIDE DEF next
  <2> QED
    BY <1>1, <2>2, <2>3, <2>4
<1>3. CASE KillOldest
  <2>1. PICK first \in killer.found : IssueKillAction(Oldest(first), KillerIdle) /\ Cardinality(Remaining) > 1
    BY <1>3 DEF KillOldest
  <2>2. PICK a \in killer.found : a.id = Oldest(first)
    BY OldestIsFound
  <2>3. IssueKillAction(a.id, KillerIdle) /\ Outlived(rows[a.id].pid)
    BY <2>1, <2>2, OldestIsOutlived
  <2> QED
    BY <1>1, <2>3, KillerSteps
<1> QED
  BY <1>2, <1>3

LEMMA KillerApart ==
  ASSUME TypeInv, ApartInv, OutlivedInv, TypeInv', KillDupAgents \/ KillerFails
  PROVE  ApartInv' /\ OutlivedInv'
<1>1. UNCHANGED handler /\ TableType /\ RoutinesType
  BY DEF TypeInv, KillDupAgents, LookupDuplicates, ReissueKill, KillOldest, LeaveDuplicates, KillerFails, killerUnchanged
<1>2. CASE rows' = rows /\ killer'.found \in {killer.found, {}}
  <2>1. Grows
    BY <1>1, <1>2, RowsStay
  <2> QED
    BY <1>1, <1>2, <2>1, RowsLeaveUse DEF InUse, OutlivedInv, FreshIsOnline, ApartInv, FoundInUse
<1>3. CASE LookupDuplicates
  <2> DEFINE found == {[id |-> i, status |-> rows[i].status] : i \in ActiveAgentsByQueue}
             todo == {a \in found : a.status = "destroyed"}
  <2>1. UNCHANGED rows
    BY <1>3 DEF LookupDuplicates
  <2>2. CASE killer' = KillerIdle
    BY <1>1, <1>2, <2>1, <2>2, KillerSteps
  <2>3. CASE killer' = [pc |-> "kill", found |-> found, todo |-> todo]
    <3>1. \A a \in found : a.id \in ActiveAgentsByQueue /\ a.status = rows[a.id].status
      OBVIOUS
    <3>2. killer'.found = found
      BY <2>3
    <3> HIDE DEF found
    <3>3. \A a \in found : /\ a.id \in DOMAIN rows /\ rows[a.id].age = Fresh /\ a.status = rows[a.id].status
                           /\ InUse(a.id) /\ rows[a.id].status \in Statuses
      BY <1>1, <3>1, RowIs DEF ActiveAgentsByQueue, InUse, Rows
    <3>4. ApartInv'
      BY <1>1, <2>1, <3>2, <3>3 DEF ApartInv, RowsApart, WritesApart, FoundInUse, OnlyRow, InUse, Fresh, Gone
    <3>5. DestroyedOutlived' /\ RowsOutlived' /\ WritesOutlived'
      BY <1>1, <2>1, <3>2, <3>3 DEF OutlivedInv, DestroyedOutlived, RowsOutlived, WritesOutlived, OnlyRow, InUse, Outlived
    <3>6. FoundOutlived'
      <4> SUFFICES ASSUME NEW a \in found, NEW b \in found, a # b, rows[a.id].pid = rows[b.id].pid
                   PROVE  Outlived(rows[a.id].pid)
        BY <2>1, <3>2 DEF FoundOutlived, Outlived
      <4>1. a.id # b.id
        BY <3>2 DEF TypeInv, KillerFound
      <4>2. ~ OnlyRow(a.id, rows[a.id].pid)
        BY <3>3, <4>1 DEF OnlyRow
      <4> QED
        BY <3>3, <4>2 DEF OutlivedInv, RowsOutlived
    <3>7. FreshIsOnline'
      BY <2>1, <3>2, <3>3 DEF OutlivedInv, FreshIsOnline, InUse, Statuses
    <3> QED
      BY <3>4, <3>5, <3>6, <3>7 DEF OutlivedInv
  <2> QED
    BY <1>3, <2>2, <2>3 DEF LookupDuplicates
<1>4. CASE ReissueKill \/ KillOldest
  <2>0. PICK a \in killer.found : /\ Outlived(rows[a.id].pid) /\ a.id \in DOMAIN rows
                                 /\ \E next : IssueKillAction(a.id, next) /\ next.found \in {killer.found, {}}
    BY <1>4, KilledIsOutlived
  <2>1. PICK next : IssueKillAction(a.id, next) /\ next.found \in {killer.found, {}}
    BY <2>0
  <2>2. killer'.found \in {killer.found, {}}
    BY <1>1, <2>1, KillerSteps DEF IssueKillAction
  <2>3. CASE rows' = rows
    BY <1>2, <2>2, <2>3
  <2>4. CASE rows' = [rows EXCEPT ![a.id].status = "destroyed"]
    <3>1. /\ Grows /\ DOMAIN rows' = DOMAIN rows
          /\ rows'[a.id].status = "destroyed" /\ rows'[a.id].age = rows[a.id].age
          /\ \A j \in DOMAIN rows : j # a.id => rows'[j] = rows[j]
      BY <1>1, <2>0, <2>4, StatusWritten DEF Statuses
    <3>2. InUse(a.id) \/ (rows[a.id].pid \in Legacy /\ Outlived(rows[a.id].pid))
      BY <2>0 DEF ApartInv, FoundInUse
    <3>3. \A i \in DOMAIN rows : /\ rows'[i].status # "offline" => InUse(i) \/ (rows[i].pid \in Legacy /\ Outlived(rows[i].pid))
                                 /\ rows'[i].status = "destroyed" => rows[i].status = "destroyed" \/ Outlived(rows[i].pid)
                                 /\ rows'[i].status = "idle" => rows'[i].age # Fresh
      BY <2>0, <3>1, <3>2 DEF InUse, OutlivedInv, FreshIsOnline
    <3>4. \A b \in killer.found : rows'[b.id].age # Gone /\ (InUse(b.id) => rows'[b.id].status # "offline")
      BY <3>1 DEF InUse, TypeInv, KillerFound, ApartInv, FoundInUse
    <3> QED
      BY <1>1, <2>2, <3>1, <3>3, <3>4, RowsLeaveUse
  <2> QED
    BY <2>1, <2>3, <2>4 DEF IssueKillAction
<1>5. CASE LeaveDuplicates \/ KillerFails
  BY <1>1, <1>2, <1>5, KillerSteps DEF LeaveDuplicates, KillerFails
<1> QED
  BY <1>3, <1>4, <1>5 DEF KillDupAgents

(* Rows in use are apart, and what is destroyed is outlived.                    *)
LEMMA Apart == Spec => [](ApartInv /\ OutlivedInv)
<1>1. Init => ApartInv /\ OutlivedInv
  <2> SUFFICES ASSUME Init PROVE ApartInv /\ OutlivedInv
    OBVIOUS
  <2>1. DOMAIN rows = {} /\ killer.found = {} /\ \A p \in Pids : handler[p].pc = "idle"
    <3>1. killer.found = {} /\ \A p \in Pids : handler[p].pc = "idle"
      BY HandlersEnd DEF Init, KillerIdle
    <3> QED
      BY <3>1, EmptySeq DEF Init
  <2> QED
    BY <2>1 DEF ApartInv, RowsApart, WritesApart, FoundInUse, OutlivedInv, DestroyedOutlived, RowsOutlived,
                WritesOutlived, FoundOutlived, FreshIsOnline
<1>2. TypeInv /\ TypeInv' /\ (ApartInv /\ OutlivedInv) /\ [Next]_vars => (ApartInv /\ OutlivedInv)'
  <2> SUFFICES ASSUME TypeInv, TypeInv', ApartInv, OutlivedInv, [Next]_vars PROVE ApartInv' /\ OutlivedInv'
    OBVIOUS
  <2>1. CASE Agents
    BY <2>1, AgentsApart
  <2>2. ASSUME NEW p \in Pids, Heartbeat(p) \/ DropHeartbeat(p) \/ Handler(p) PROVE ApartInv' /\ OutlivedInv'
    BY <2>2, HandlerApart
  <2>3. CASE Periodic \/ PeriodicFails
    BY <2>3, PeriodicApart
  <2>4. CASE KillDupAgents \/ KillerFails
    BY <2>4, KillerApart
  <2>5. CASE UNCHANGED <<rows, handler, killer>>
    <3>1. Grows
      BY <2>5, RowsStay DEF TypeInv
    <3> QED
      BY <2>5, <3>1, RowsLeaveUse DEF InUse, OutlivedInv, FreshIsOnline, ApartInv, FoundInUse
  <2> QED
    BY <2>1, <2>2, <2>3, <2>4, <2>5
    DEF Next, GetDisappearedEndpoints, DeleteQueue, SkipQueue, cleanupUnchanged, vars
<1> QED
  BY <1>1, <1>2, Types, PTL DEF Spec

(* PersistHeartbeat: no two rows in use are the same process of the API.         *)
THEOREM OneRow == Spec => []OneRowPerAgent
<1>1. TypeOK /\ ApartInv => OneRowPerAgent
  BY DEF ApartInv, RowsApart, OnlyRow, InUse, OneRowPerAgent
<1> QED
  BY <1>1, TypeCorrect, Apart, PTL

(* killDupAgents: the destruction of an agent is only ordered when another          *)
(* process has registered after it.                                                *)
THEOREM NewestSpared == Spec => NewestIsSpared
<1> DEFINE Spared == \A p \in orders' \ orders :
                       \E i, j \in DOMAIN rows : i < j /\ rows[i].pid = p /\ rows[j].pid # p
<1>1. TypeInv /\ (ApartInv /\ OutlivedInv) /\ [Next]_vars => [Spared]_vars
  <2> SUFFICES ASSUME TypeInv, OutlivedInv, Next, NEW p \in orders' \ orders
               PROVE  Outlived(p)
    BY DEF Outlived, vars
  <2>1. CASE ReissueKill \/ KillOldest
    <3>1. PICK a \in killer.found : Outlived(rows[a.id].pid) /\ \E next : IssueKillAction(a.id, next)
      BY <2>1, KilledIsOutlived
    <3>2. p = rows[a.id].pid
      BY <3>1 DEF IssueKillAction
    <3> QED
      BY <3>1, <3>2
  <2>2. CASE Agents
    BY <2>2 DEF Agents, StartAgent, EndAgent, RefreshEnvironment, ExpireOrder, DestroyAgent, Older
  <2>3. ASSUME NEW q \in Pids, Heartbeat(q) \/ DropHeartbeat(q) \/ Handler(q) PROVE FALSE
    BY <2>3 DEF Heartbeat, DropHeartbeat, Handler, LookupAgent, InsertAgent, UpdateAgentHeartbeat,
                ReplaceRefreshedAgent, NotifyDestroyed, handlerUnchanged
  <2>4. CASE Periodic \/ PeriodicFails
    BY <2>4 DEF Periodic, MarkOfflineAgents, MarkIdleAgents, DetectMultiAgents, SendMultiAgents,
                PeriodicFails, periodicUnchanged
  <2>5. CASE LookupDuplicates \/ LeaveDuplicates \/ KillerFails
    BY <2>5 DEF LookupDuplicates, LeaveDuplicates, KillerFails
  <2>6. CASE GetDisappearedEndpoints \/ DeleteQueue \/ SkipQueue
    BY <2>6 DEF GetDisappearedEndpoints, DeleteQueue, SkipQueue, cleanupUnchanged
  <2> QED
    BY <2>1, <2>2, <2>3, <2>4, <2>5, <2>6 DEF Next, KillDupAgents
<1>2. NewestIsSpared <=> [][Spared]_vars
  BY PTL DEF NewestIsSpared
<1> QED
  BY <1>1, <1>2, Types, Apart, PTL DEF Spec

(* ReplaceRefreshedAgent: once a heartbeat from the relay has been written to the   *)
(* table, the environment in the table is as new as that of the heartbeat.         *)
THEOREM RefreshRecorded == Spec => RefreshIsRecorded
<1> DEFINE Recorded == \A p \in Pids :
                         /\ p \in Legacy /\ handler[p].pc \in {"insert", "update", "replace"}
                         /\ rows' # rows /\ handler'[p] # handler[p]
                         => \E i \in DOMAIN rows' : /\ rows'[i].pid = p /\ rows'[i].status = "online"
                                                    /\ rows'[i].refresh >= handler[p].refresh
<1>1. TypeInv /\ [Next]_vars => [Recorded]_vars
  <2> SUFFICES ASSUME TypeInv, Next, NEW p \in Pids,
                      p \in Legacy, handler[p].pc \in {"insert", "update", "replace"},
                      rows' # rows, handler'[p] # handler[p]
               PROVE  \E i \in DOMAIN rows' : /\ rows'[i].pid = p /\ rows'[i].status = "online"
                                              /\ rows'[i].refresh >= handler[p].refresh
    BY DEF vars
  <2>1. /\ handler \in [Pids -> HandlerState] /\ TableType /\ rows \in Seq(Rows)
        /\ handler[p].refresh \in Nat
    BY AgentRegistryAssumption DEF TypeInv, RoutinesType, HandlerState, TableType
  <2>2. [pid |-> p, status |-> "online", age |-> Fresh, refresh |-> handler[p].refresh] \in Rows
    BY <2>1 DEF TypeInv, RoutinesType, Rows, HandlerState, Statuses, Ages, Fresh, Gone
  <2>3. InsertAgent(p) \/ UpdateAgentHeartbeat(p) \/ ReplaceRefreshedAgent(p)
    <3>1. UNCHANGED handler \/ \E q \in Pids : Heartbeat(q) \/ DropHeartbeat(q) \/ Handler(q)
      BY DEF Next, Agents, StartAgent, EndAgent, RefreshEnvironment, ExpireOrder, DestroyAgent, Older,
             Periodic, MarkOfflineAgents, MarkIdleAgents, DetectMultiAgents, SendMultiAgents, PeriodicFails,
             periodicUnchanged, KillDupAgents, LookupDuplicates, ReissueKill, KillOldest, LeaveDuplicates,
             KillerFails, killerUnchanged, GetDisappearedEndpoints, DeleteQueue, SkipQueue, cleanupUnchanged
    <3>2. PICK q \in Pids : Heartbeat(q) \/ DropHeartbeat(q) \/ Handler(q)
      BY <3>1
    <3>3. InsertAgent(q) \/ UpdateAgentHeartbeat(q) \/ ReplaceRefreshedAgent(q)
      BY <3>2 DEF Heartbeat, DropHeartbeat, Handler, LookupAgent, NotifyDestroyed
    <3>4. PICK h : handler' = [handler EXCEPT ![q] = h]
      BY <3>3 DEF InsertAgent, UpdateAgentHeartbeat, ReplaceRefreshedAgent
    <3>5. q = p
      BY <2>1, <3>4
    <3> QED
      BY <3>3, <3>5
  <2>4. NewRow(p).pid = p /\ NewRow(p).status = "online" /\ NewRow(p).refresh = handler[p].refresh /\ NewRow(p) \in Rows
    BY <2>2 DEF NewRow
  <2>5. CASE InsertAgent(p)
    <3>1. Len(rows) + 1 \in DOMAIN rows' /\ rows'[Len(rows) + 1] = NewRow(p)
      BY <2>1, <2>4, <2>5, RowAdded DEF InsertAgent
    <3> QED
      BY <2>1, <2>4, <3>1
  <2>6. CASE ReplaceRefreshedAgent(p)
    <3>1. handler[p].id \in DOMAIN rows
      BY <2>6 DEF ReplaceRefreshedAgent, TypeInv, HandlersFound
    <3>2. Len(rows) + 1 \in DOMAIN rows' /\ rows'[Len(rows) + 1] = NewRow(p)
      BY <2>1, <2>4, <2>6, <3>1, RowReplaced DEF ReplaceRefreshedAgent
    <3> QED
      BY <2>1, <2>4, <3>2
  <2>7. CASE UpdateAgentHeartbeat(p)
    <3>1. /\ handler[p].id \in DOMAIN rows /\ rows[handler[p].id].pid = p
          /\ rows[handler[p].id].refresh >= handler[p].refresh
      BY <2>7 DEF UpdateAgentHeartbeat, TypeInv, HandlersFound
    <3>2. Grows /\ rows'[handler[p].id].status = "online"
      BY <2>1, <2>7, <3>1, RowRefreshed DEF UpdateAgentHeartbeat
    <3> QED
      BY <3>1, <3>2 DEF Grows
  <2> QED
    BY <2>3, <2>5, <2>6, <2>7
<1>2. RefreshIsRecorded <=> [][Recorded]_vars
  BY PTL DEF RefreshIsRecorded
<1> QED
  BY <1>1, <1>2, Types, PTL DEF Spec

================================================================================
