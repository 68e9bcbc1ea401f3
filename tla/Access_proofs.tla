----------------------------- MODULE Access_proofs -----------------------------
(******************************************************************************)
(* Theorems about Access, for any requests and number of them served at a time, *)
(* any investigators at the start, keys of agents, ages and bounds.               *)
(******************************************************************************)
EXTENDS Access, SequenceTheorems, FiniteSetTheorems, FunctionTheorems, WellFoundedInduction, TLAPS

--------------------------------------------------------------------------------
(* The signatures that are left, one by one.                                    *)
LEMMA TailRange ==
  ASSUME NEW S, NEW q \in Seq(S), q # <<>>
  PROVE  /\ Head(q) \in S /\ Tail(q) \in Seq(S)
         /\ Len(Tail(q)) = Len(q) - 1 /\ Len(q) \in Nat \ {0}
         /\ Range(q) = {Head(q)} \union Range(Tail(q))
<1> DEFINE p == Tail(q)
<1>1. /\ Head(q) \in S /\ p \in Seq(S) /\ Len(p) = Len(q) - 1 /\ Len(q) \in Nat \ {0}
      /\ \A i \in 1..Len(p) : p[i] = q[i + 1]
      /\ Head(q) = q[1]
  BY HeadTailProperties, EmptySeq
<1>2. Range(q) = {q[i] : i \in 1..Len(q)} /\ Range(p) = {p[i] : i \in 1..Len(p)}
  BY <1>1, RangeEquality, ZenonT(30)
<1> HIDE DEF p
<1>3. \A i \in 1..Len(q) : i = 1 \/ \E j \in 1..Len(p) : i = j + 1
  <2> SUFFICES ASSUME NEW i \in 1..Len(q), i # 1 PROVE \E j \in 1..Len(p) : i = j + 1
    OBVIOUS
  <2>1. i - 1 \in 1..Len(p) /\ i = (i - 1) + 1
    BY <1>1
  <2> QED
    BY <2>1
<1>4. \A j \in 1..Len(p) : j + 1 \in 1..Len(q)
  BY <1>1
<1>5. Range(q) = {Head(q)} \union Range(p)
  <2>1. \A x \in Range(q) : x = Head(q) \/ x \in Range(p)
    <3> SUFFICES ASSUME NEW i \in 1..Len(q) PROVE q[i] = Head(q) \/ q[i] \in Range(p)
      BY <1>2
    <3>1. CASE i = 1
      BY <1>1, <3>1
    <3>2. ASSUME NEW j \in 1..Len(p), i = j + 1 PROVE q[i] \in Range(p)
      <4>1. p[j] = q[i]
        BY <1>1, <3>2
      <4> QED
        BY <1>2, <4>1
    <3> QED
      BY <1>3, <3>1, <3>2
  <2>2. \A x \in Range(p) : x \in Range(q)
    BY <1>1, <1>2, <1>4
  <2>3. Head(q) \in Range(q)
    BY <1>1, <1>2
  <2> QED
    BY <2>1, <2>2, <2>3
<1> QED
  BY <1>1, <1>5 DEF p


--------------------------------------------------------------------------------
(* What each variable holds.                                                  *)
Creations == {q \in Requests : q.endpoint = "createAction"}
Stored(q, at) ==
  [sigs |-> q.body.sigs, ops |-> q.body.ops, from |-> q.body.from, until |-> q.body.until,
   form |-> q.body.form, at |-> at]
ActionRows == {Stored(q, at) : q \in Creations, at \in Int}

CallStates ==
  {"answered", "permit", "handle", "perms", "write", "apikey", "insert", "sign"}

NoRequest == [endpoint |-> "none"]

Calls ==
  [pc : CallStates, request : Requests \union {NoRequest}, at : Int, who : Int,
   action : Nat, left : Seq(STRING), verified : Int, code : Int]

TableType ==
  investigators \in Seq(Rows) /\ Len(investigators) <= MaxInvestigators /\ UniqueKeys(investigators)

PastType == past \in [disabled : [1..MaxInvestigators -> Int], ended : Seq(Int), overlap : BOOLEAN]

(* An API key is that of one row, and has not ended while it is.                 *)
ApiKeysType ==
  \A i \in Ids :
    /\ investigators[i].api \in 0..Len(past.ended)
    /\ investigators[i].api # 0 => past.ended[investigators[i].api] = Never
    /\ \A j \in Ids : investigators[j].api = investigators[i].api /\ investigators[i].api # 0 => j = i

ClockType ==
  /\ clock \in Nat /\ keyring \in [keys : SUBSET STRING, at : Int]
  /\ keyring.at \in Never..clock

ActionsType ==
  /\ actions \in Seq(ActionRows) /\ signatures \subseteq (DOMAIN actions) \X Ids
  /\ ran \subseteq DOMAIN actions

(* A request is at a place of its own endpoint; who was let in, when signatures were *)
(* verified and which action was created is known.                            *)
GoodCall(c) ==
  /\ c.pc # "answered" => c.request \in Requests
  /\ c.pc \in {"perms", "write", "apikey"} => c.request.endpoint = "updateInvestigator"
  /\ c.pc = "write" => c.request.body.mask = "given"
  /\ c.pc \in {"insert", "sign"} => c.request.endpoint = "createAction"
  /\ c.pc = "permit" => c.at # Never
  /\ c.at # Never => c.request \in Requests /\ c.at \in 0..clock /\ c.who \in Ids
  /\ c.verified <= clock
  /\ c.pc = "sign" \/ c.code = 202 => c.action \in DOMAIN actions

CallsType == calls \in [Slots -> Calls] /\ \A s \in Slots : GoodCall(calls[s])

TypeInv ==
  TableType /\ PastType /\ ApiKeysType /\ ClockType /\ ActionsType /\ CallsType

--------------------------------------------------------------------------------
(* Who has signed: the row of a key, unless it was disabled before t.            *)
Holder(key, t) ==
  \E i \in ByFingerprint(key) : investigators[i].status = "disabled" => t <= past.disabled[i]

KeyringHolds == \A key \in keyring.keys : key # NoKey /\ Holder(key, keyring.at)

(* What was verified is that of known keys, in a request and in the table.          *)
CallVerified(c) ==
  c.pc = "insert" => \A key \in Range(c.request.body.sigs) : Holder(key, c.verified - KeyringAge)
RowVerified(row) ==
  row.at <= clock /\ \A key \in Range(row.sigs) : Holder(key, row.at - KeyringAge)

VerifiedHolds ==
  /\ \A s \in Slots : CallVerified(calls[s])
  /\ \A aid \in DOMAIN actions : RowVerified(actions[aid])

(* A request was let in while its credential was good.                          *)
AdmittedOnce(c) ==
  LET cred == c.request.cred
      slack == IF cred.kind = "token" THEN KeyringAge ELSE 0
  IN /\ investigators[c.who].status = "disabled" => c.at - past.disabled[c.who] <= slack
     /\ cred.kind = "apikey" =>
          cred.key \in DOMAIN past.ended /\ (past.ended[cred.key] # Never => c.at <= past.ended[cred.key])

AdmittedHolds == \A s \in Slots : calls[s].at # Never => AdmittedOnce(calls[s])

(* The signatures of an action that is being created are in the table, or left.     *)
Signed(aid, key) == \E i \in ByFingerprint(key) : <<aid, i>> \in signatures

Accepting(c) ==
  c.pc = "sign" \/ (c.pc = "answered" /\ c.code = 202) =>
    \A key \in Range(actions[c.action].sigs) :
      Signed(c.action, key) \/ (c.pc = "sign" /\ key \in Range(c.left))

AcceptedHolds == \A s \in Slots : Accepting(calls[s])

(* Who is about to write permissions has found another administrator, or makes one. *)
Administrates(perms) == {"investigator", "investigator_update"} \subseteq perms

AdminHolds ==
  ~past.overlap =>
    /\ \E i \in Ids : IsAdmin(investigators[i].perms)
    /\ \A s, t \in Slots : calls[s].pc = "write" /\ calls[t].pc = "write" => s = t
    /\ \A s \in Slots : calls[s].pc = "write" =>
         Administrates(calls[s].request.body.perms) \/ OtherAdmin(calls[s].request.body.id)


(* What an agent runs, it has verified.                                          *)
RunVerified ==
  \A aid \in ran : OnlyVerifyPubKey
    \/ \A k \in DOMAIN actions[aid].ops : VerifyPermission(actions[aid].ops[k], actions[aid].sigs)

--------------------------------------------------------------------------------
(* A step goes on: rows keep their keys, and a row that is disabled was so        *)
(* before or is disabled now; API keys end now; actions remain.                   *)
RowsLater ==
  \A i \in Ids :
    /\ i \in Ids' /\ investigators'[i].key = investigators[i].key
    /\ investigators'[i].status = "disabled" =>
         (investigators[i].status = "disabled" /\ past'.disabled[i] = past.disabled[i])
           \/ past'.disabled[i] = clock

EndsLater ==
  \A k \in DOMAIN past.ended :
    k \in DOMAIN past'.ended /\ (past'.ended[k] = past.ended[k] \/ past'.ended[k] = clock)

ActionsLater ==
  /\ \A aid \in DOMAIN actions : aid \in DOMAIN actions' /\ actions'[aid] = actions[aid]
  /\ signatures \subseteq signatures'

Later == clock' \in Nat /\ clock' >= clock /\ RowsLater /\ EndsLater /\ ActionsLater

(* What a step does not do to the request it serves.                            *)
SameAdmission(s, c) ==
  c.at # Never => c.at = calls[s].at /\ c.who = calls[s].who /\ c.request = calls[s].request
NotAccepted(c) == c.pc # "sign" /\ (c.pc = "answered" => c.code # 202)

(* ... nor to the permissions.                                                  *)
SamePerms ==
  /\ \A i \in Ids : i \in Ids' /\ investigators'[i].perms = investigators[i].perms
  /\ past'.overlap = past.overlap

SameActions == actions' = actions /\ signatures' = signatures

--------------------------------------------------------------------------------
LEMMA FreeIsCall == Free \in Calls
BY DEF Answered, Free, Calls, CallStates, NoRequest, Never

LEMMA CallFields ==
  ASSUME NEW c \in Calls
  PROVE  /\ c.pc \in CallStates /\ c.request \in Requests \union {NoRequest} /\ c.at \in Int
         /\ c.who \in Int /\ c.action \in Nat /\ c.left \in Seq(STRING) /\ c.verified \in Int
         /\ c.code \in Int
BY DEF Calls

LEMMA BecomesIs ==
  ASSUME calls \in [Slots -> Calls], NEW s \in Slots, NEW c \in Calls, Becomes(s, c)
  PROVE  /\ calls' \in [Slots -> Calls] /\ calls'[s] = c
         /\ \A t \in Slots \ {s} : calls'[t] = calls[t]
BY DEF Becomes

(* What is true of a request stays true while the rest goes on.                 *)
LEMMA GoodCallKept ==
  ASSUME TypeInv, Later, NEW c \in Calls, GoodCall(c)
  PROVE  GoodCall(c)'
<1>1. clock \in Nat /\ clock' \in Nat /\ clock' >= clock
  BY DEF TypeInv, ClockType, Later
<1>2. c.verified \in Int /\ c.at \in Int
  BY CallFields
<1>3. Ids \subseteq Ids' /\ DOMAIN actions \subseteq DOMAIN actions'
  BY DEF Later, RowsLater, ActionsLater
<1> QED
  BY <1>1, <1>2, <1>3 DEF GoodCall

LEMMA CallsKept ==
  ASSUME TypeInv, Later, UNCHANGED calls
  PROVE  CallsType'
<1>1. \A t \in Slots : calls[t] \in Calls /\ GoodCall(calls[t])
  BY DEF TypeInv, CallsType
<1>2. \A t \in Slots : GoodCall(calls[t])'
  <2> SUFFICES ASSUME NEW t \in Slots PROVE GoodCall(calls[t])'
    OBVIOUS
  <2>1. PICK c \in Calls : c = calls[t] /\ GoodCall(c)
    BY <1>1
  <2>2. GoodCall(c)'
    BY <2>1, GoodCallKept
  <2> QED
    BY <2>1, <2>2 DEF GoodCall
<1> QED
  BY <1>2 DEF TypeInv, CallsType

LEMMA CallsStep ==
  ASSUME TypeInv, Later, NEW s \in Slots, NEW c \in Calls, Becomes(s, c), GoodCall(c)'
  PROVE  CallsType'
<1>1. /\ calls' \in [Slots -> Calls] /\ calls'[s] = c
      /\ \A t \in Slots \ {s} : calls'[t] = calls[t]
  BY BecomesIs DEF TypeInv, CallsType
<1>2. \A t \in Slots : GoodCall(calls[t])'
  <2> SUFFICES ASSUME NEW t \in Slots PROVE GoodCall(calls[t])'
    OBVIOUS
  <2>1. CASE t = s
    BY <1>1, <2>1 DEF GoodCall
  <2>2. CASE t # s
    <3>1. PICK d \in Calls : d = calls[t] /\ GoodCall(d) /\ calls'[t] = d
      BY <1>1, <2>2 DEF TypeInv, CallsType
    <3>2. GoodCall(d)'
      BY <3>1, GoodCallKept
    <3> QED
      BY <3>1, <3>2 DEF GoodCall
  <2> QED
    BY <2>1, <2>2
<1> QED
  BY <1>1, <1>2 DEF CallsType

(* An answer, and going on.                                                      *)
LEMMA AnswerIs ==
  ASSUME TypeInv, NEW s \in Slots, NEW code \in Int, Answer(s, code)
  PROVE  \E c \in Calls :
           /\ Becomes(s, c) /\ c.pc = "answered" /\ c.at = Never /\ c.code = code /\ c.verified = Never
           /\ code = 202 => c.action = calls[s].action
<1>1. calls[s] \in Calls /\ Free \in Calls
  BY FreeIsCall DEF TypeInv, CallsType
<1>2. calls[s].action \in Nat
  BY <1>1, CallFields
<1> DEFINE c == Answered(code, IF code = 202 THEN calls[s].action ELSE 0)
<1>3. c \in Calls /\ c.pc = "answered" /\ c.at = Never /\ c.code = code /\ c.verified = Never
      /\ (code = 202 => c.action = calls[s].action)
  BY <1>1, <1>2 DEF Answered, Calls, CallStates, NoRequest, Never
<1>4. Becomes(s, c)
  BY DEF Answer
<1> HIDE DEF c
<1> QED
  BY <1>3, <1>4

LEMMA GotoIs ==
  ASSUME TypeInv, NEW s \in Slots, NEW pc \in CallStates, Goto(s, pc)
  PROVE  \E c \in Calls :
           /\ Becomes(s, c) /\ c.pc = pc /\ c.at = calls[s].at /\ c.who = calls[s].who
           /\ c.request = calls[s].request /\ c.action = calls[s].action /\ c.left = calls[s].left
           /\ c.verified = calls[s].verified /\ c.code = calls[s].code
<1>1. calls[s] \in Calls
  BY DEF TypeInv, CallsType
<1> DEFINE c == [calls[s] EXCEPT !.pc = pc]
<1>2. /\ c \in Calls /\ c.pc = pc /\ c.at = calls[s].at /\ c.who = calls[s].who
      /\ c.request = calls[s].request /\ c.action = calls[s].action /\ c.left = calls[s].left
      /\ c.verified = calls[s].verified /\ c.code = calls[s].code
  BY <1>1 DEF Calls
<1>3. Becomes(s, c)
  BY DEF Goto
<1> HIDE DEF c
<1> QED
  BY <1>2, <1>3

--------------------------------------------------------------------------------
(* Rows and who holds a key.                                                     *)
LEMMA RowFields ==
  ASSUME TypeInv, NEW i \in Ids
  PROVE  /\ investigators[i] \in Rows /\ investigators[i].key \in STRING
         /\ investigators[i].status \in {"active", "disabled"}
         /\ investigators[i].perms \in Nat /\ investigators[i].api \in Nat
         /\ i \in 1..MaxInvestigators /\ past.disabled[i] \in Int
<1>1. /\ Ids = 1..Len(investigators) /\ Len(investigators) \in Nat
      /\ investigators[i] \in Rows
  BY LenProperties, ElementOfSeq DEF TypeInv, TableType, Ids
<1>2. i \in 1..MaxInvestigators
  BY <1>1, AccessBounds DEF TypeInv, TableType
<1> QED
  BY <1>1, <1>2 DEF Rows, TypeInv, PastType

LEMMA HolderEarlier ==
  ASSUME TypeInv, NEW key, NEW t \in Int, NEW u \in Int, u <= t, Holder(key, t)
  PROVE  Holder(key, u)
<1>1. PICK i \in ByFingerprint(key) : investigators[i].status = "disabled" => t <= past.disabled[i]
  BY DEF Holder
<1>2. past.disabled[i] \in Int
  BY <1>1, RowFields DEF ByFingerprint
<1> QED
  BY <1>1, <1>2 DEF Holder

LEMMA HolderKept ==
  ASSUME TypeInv, Later, NEW key, NEW t \in Int, t <= clock, Holder(key, t)
  PROVE  Holder(key, t)'
<1>1. PICK i \in ByFingerprint(key) : investigators[i].status = "disabled" => t <= past.disabled[i]
  BY DEF Holder
<1>2. i \in Ids /\ i \in Ids' /\ investigators'[i].key = key
  BY <1>1 DEF ByFingerprint, Later, RowsLater
<1>3. investigators'[i].status = "disabled" => t <= past'.disabled[i]
  BY <1>1, <1>2 DEF Later, RowsLater
<1> QED
  BY <1>2, <1>3 DEF Holder, ByFingerprint

(* A key belongs to one investigator.                                           *)
LEMMA HolderIsOne ==
  ASSUME TypeInv, NEW key, key # NoKey, NEW t \in Int, Holder(key, t), NEW i \in ByFingerprint(key)
  PROVE  investigators[i].status = "disabled" => t <= past.disabled[i]
<1>1. PICK j \in ByFingerprint(key) : investigators[j].status = "disabled" => t <= past.disabled[j]
  BY DEF Holder
<1>2. i = j
  BY <1>1 DEF ByFingerprint, TypeInv, TableType, UniqueKeys, Ids
<1> QED
  BY <1>1, <1>2

(* What the API verifies with is the keys of those who were active KeyringAge ago. *)
LEMMA FreshKeyring ==
  ASSUME TypeInv, KeyringHolds
  PROVE  /\ GetKeyring \in [keys : SUBSET STRING, at : Int] /\ GetKeyring.at \in Never..clock
         /\ \A key \in GetKeyring.keys :
              key # NoKey /\ Holder(key, GetKeyring.at) /\ Holder(key, clock - KeyringAge)
<1>1. /\ clock \in Nat /\ KeyringAge \in Nat /\ clock - KeyringAge \in Int /\ Never \in Int
      /\ keyring \in [keys : SUBSET STRING, at : Int] /\ keyring.at \in Never..clock
  BY AccessBounds DEF TypeInv, ClockType, Never
<1>2. CASE Outdated
  <2>1. GetKeyring = [keys |-> ActiveKeys, at |-> clock]
    BY <1>2 DEF GetKeyring
  <2>2. ActiveKeys \subseteq STRING
    BY RowFields DEF ActiveKeys
  <2>3. \A key \in ActiveKeys : key # NoKey /\ \A t \in Int : Holder(key, t)
    BY DEF ActiveKeys, Holder, ByFingerprint
  <2> QED
    BY <1>1, <2>1, <2>2, <2>3 DEF Never
<1>3. CASE ~ Outdated
  <2>1. GetKeyring = keyring /\ clock - KeyringAge <= keyring.at
    BY <1>1, <1>3 DEF GetKeyring, Outdated
  <2>2. \A key \in keyring.keys : key # NoKey /\ Holder(key, keyring.at)
    BY DEF KeyringHolds
  <2>3. \A key \in keyring.keys : Holder(key, clock - KeyringAge)
    BY <1>1, <2>1, <2>2, HolderEarlier
  <2> QED
    BY <1>1, <2>1, <2>2, <2>3
<1> QED
  BY <1>2, <1>3

LEMMA KeyringKept ==
  ASSUME TypeInv, KeyringHolds, Later, keyring' = keyring \/ keyring' = GetKeyring
  PROVE  ClockType' /\ KeyringHolds'
<1>1. clock \in Nat /\ clock' \in Nat /\ clock' >= clock
  BY DEF TypeInv, ClockType, Later
<1>2. /\ keyring' \in [keys : SUBSET STRING, at : Int] /\ keyring'.at \in Never..clock
      /\ \A key \in keyring'.keys : key # NoKey /\ Holder(key, keyring'.at)
  <2>1. CASE keyring' = keyring
    BY <2>1 DEF TypeInv, ClockType, KeyringHolds
  <2>2. CASE keyring' = GetKeyring
    BY <2>2, FreshKeyring
  <2> QED
    BY <2>1, <2>2
<1>3. ClockType'
  BY <1>1, <1>2 DEF ClockType, Never
<1>4. \A key \in keyring'.keys : Holder(key, keyring.at)'
  <2> SUFFICES ASSUME NEW key \in keyring'.keys PROVE Holder(key, keyring.at)'
    OBVIOUS
  <2>1. PICK t \in Int : t = keyring'.at /\ t <= clock
    BY <1>1, <1>2 DEF Never
  <2>2. Holder(key, t)'
    BY <1>2, <2>1, HolderKept
  <2> QED
    BY <2>1, <2>2 DEF Holder
<1> QED
  BY <1>2, <1>3, <1>4 DEF KeyringHolds

(* The table after a row is changed, and after one is added.                     *)
LEMMA WrittenIs ==
  ASSUME TypeInv, NEW s \in Slots, NEW row, investigators' = Written(s, row),
         Body(s).id \in Ids => row \in Rows /\ row.key = Row(s).key
  PROVE  /\ TableType' /\ Ids' = Ids
         /\ \A i \in Ids :
              /\ investigators'[i].key = investigators[i].key
              /\ investigators'[i] = IF i = Body(s).id THEN row ELSE investigators[i]
<1> DEFINE b == Body(s).id
<1>1. CASE b \notin Ids
  BY <1>1 DEF Written, TypeInv, TableType, UniqueKeys, Ids
<1>2. CASE b \in Ids
  <2>1. row \in Rows /\ row.key = investigators[b].key
    BY <1>2 DEF Row
  <2>2. investigators' = [investigators EXCEPT ![b] = row]
    BY <1>2 DEF Written
  <2>3. investigators \in Seq(Rows) /\ Ids = 1..Len(investigators) /\ Len(investigators) \in Nat
    BY LenProperties DEF TypeInv, TableType, Ids
  <2>4. investigators' \in Seq(Rows) /\ Len(investigators') = Len(investigators)
    BY <1>2, <2>1, <2>2, <2>3, ExceptSeq
  <2>5. Ids' = Ids
    BY <2>3, <2>4, LenProperties DEF Ids
  <2>6. \A i \in Ids : investigators'[i] = IF i = b THEN row ELSE investigators[i]
    BY <2>2 DEF Ids
  <2>7. \A i \in Ids : investigators'[i].key = investigators[i].key
    BY <2>1, <2>6
  <2>8. UniqueKeys(investigators)'
    BY <2>5, <2>7 DEF TypeInv, TableType, UniqueKeys, Ids
  <2> QED
    BY <2>4, <2>5, <2>6, <2>7, <2>8 DEF TypeInv, TableType
<1> QED
  BY <1>1, <1>2

LEMMA InsertedIs ==
  ASSUME TypeInv, NEW row \in Rows, InsertInvestigator(row), Len(investigators) < MaxInvestigators,
         row.key # NoKey => ByFingerprint(row.key) = {}
  PROVE  /\ TableType' /\ Ids' = Ids \union {Len(investigators) + 1}
         /\ Len(investigators) + 1 \notin Ids /\ investigators'[Len(investigators) + 1] = row
         /\ \A i \in Ids : investigators'[i] = investigators[i]
<1> DEFINE n == Len(investigators) + 1
<1>1. /\ investigators \in Seq(Rows) /\ Ids = 1..Len(investigators) /\ Len(investigators) \in Nat
      /\ investigators' = Append(investigators, row)
  BY LenProperties DEF TypeInv, TableType, Ids, InsertInvestigator
<1>2. /\ investigators' \in Seq(Rows) /\ Len(investigators') = n
      /\ \A i \in 1..Len(investigators) : investigators'[i] = investigators[i]
      /\ investigators'[n] = row
  BY <1>1, AppendProperties
<1>3. Ids' = 1..n
  BY <1>2, LenProperties DEF Ids
<1>4. Ids' = Ids \union {n} /\ n \notin Ids
  BY <1>1, <1>3
<1>5. UniqueKeys(investigators)'
  <2>1. \A i \in Ids : row.key # NoKey => investigators[i].key # row.key
    BY DEF ByFingerprint
  <2>2. \A i, j \in Ids : investigators[i].key = investigators[j].key /\ investigators[i].key # NoKey => i = j
    BY DEF TypeInv, TableType, UniqueKeys, Ids
  <2> QED
    BY <1>1, <1>2, <1>4, <2>1, <2>2 DEF UniqueKeys, Ids
<1> QED
  BY <1>1, <1>2, <1>4, <1>5, AccessBounds DEF TableType

--------------------------------------------------------------------------------
(* A step that answers a request, or goes on with it, and no more than that to   *)
(* what the invariants below say of requests.                                    *)
Plain(s) ==
  \E c \in Calls : /\ Becomes(s, c) /\ SameAdmission(s, c) /\ NotAccepted(c)
                   /\ c.pc # "insert" /\ c.pc # "write"

LEMMA AnsweredIsGood ==
  ASSUME TypeInv, Later, NEW c \in Calls, c.pc = "answered", c.at = Never, c.verified = Never,
         c.code = 202 => c.action \in DOMAIN actions
  PROVE  GoodCall(c)'
<1>1. clock' \in Nat /\ DOMAIN actions \subseteq DOMAIN actions'
  BY DEF Later, ActionsLater
<1> QED
  BY <1>1 DEF GoodCall, Never

LEMMA AnswerPlain ==
  ASSUME TypeInv, Later, NEW s \in Slots, NEW code \in Int \ {202}, Answer(s, code)
  PROVE  CallsType' /\ Plain(s)
<1>1. PICK c \in Calls : /\ Becomes(s, c) /\ c.pc = "answered" /\ c.at = Never /\ c.code = code
                         /\ c.verified = Never
  BY AnswerIs
<1>2. GoodCall(c)'
  BY <1>1, AnsweredIsGood
<1> QED
  BY <1>1, <1>2, CallsStep DEF Plain, SameAdmission, NotAccepted

LEMMA GotoPlain ==
  ASSUME TypeInv, Later, NEW s \in Slots, NEW pc \in {"handle", "perms", "apikey"}, Goto(s, pc),
         calls[s].pc # "answered",
         pc # "handle" => calls[s].request.endpoint = "updateInvestigator"
  PROVE  CallsType' /\ Plain(s)
<1>0. pc \in CallStates
  BY DEF CallStates
<1>1. PICK c \in Calls :
           /\ Becomes(s, c) /\ c.pc = pc /\ c.at = calls[s].at /\ c.who = calls[s].who
           /\ c.request = calls[s].request /\ c.action = calls[s].action
           /\ c.verified = calls[s].verified /\ c.code = calls[s].code
  BY <1>0, GotoIs
<1>2. PICK d \in Calls : d = calls[s] /\ GoodCall(d)
  BY DEF TypeInv, CallsType
<1>3. GoodCall(d)'
  BY <1>2, GoodCallKept
<1>4. GoodCall(c)'
  BY <1>1, <1>2, <1>3 DEF GoodCall
<1> QED
  BY <1>1, <1>4, CallsStep DEF Plain, SameAdmission, NotAccepted

(* Steps that write neither table.                                               *)
LEMMA TablesKept ==
  ASSUME TypeInv, KeyringHolds, UNCHANGED <<investigators, actions, signatures, past>>,
         clock' \in Nat, clock' >= clock, ran' \subseteq DOMAIN actions,
         keyring' = keyring \/ keyring' = GetKeyring
  PROVE  /\ Later /\ SamePerms /\ SameActions
         /\ TableType' /\ PastType' /\ ApiKeysType' /\ ClockType' /\ ActionsType' /\ KeyringHolds'
<1>1. Later /\ SamePerms /\ SameActions
  BY DEF Later, RowsLater, EndsLater, ActionsLater, SamePerms, SameActions, Ids
<1>2. TableType' /\ PastType' /\ ApiKeysType' /\ ActionsType'
  BY DEF TypeInv, TableType, PastType, ApiKeysType, ActionsType, Ids
<1> QED
  BY <1>1, <1>2, KeyringKept

ReadSteps(s) ==
  Permit(s) \/ GetAction(s) \/ GetCommand(s) \/ GetAgent(s) \/ GetDashboard(s) \/ GetInvestigator(s)

LEMMA ClockIs == TypeInv => clock \in Nat /\ clock >= clock
BY DEF TypeInv, ClockType

LEMMA ReadsKeep ==
  ASSUME TypeInv, KeyringHolds, NEW s \in Slots, ReadSteps(s)
  PROVE  TypeInv' /\ KeyringHolds' /\ Later /\ SamePerms /\ SameActions /\ Plain(s)
<1>1. UNCHANGED <<investigators, keyring, actions, signatures, ran, clock, past>>
  BY DEF ReadSteps, Permit, GetAction, GetCommand, GetAgent, GetDashboard, GetInvestigator
<1>2. /\ Later /\ SamePerms /\ SameActions
      /\ TableType' /\ PastType' /\ ApiKeysType' /\ ClockType' /\ ActionsType' /\ KeyringHolds'
  BY <1>1, ClockIs, TablesKept DEF TypeInv, ActionsType
<1>3. CallsType' /\ Plain(s)
  <2>1. CASE Permit(s)
    <3>1. calls[s].pc = "permit" /\ (Goto(s, "handle") \/ Answer(s, 401))
      BY <2>1 DEF Permit, At
    <3> QED
      BY <1>2, <3>1, GotoPlain, AnswerPlain
  <2>2. CASE ~ Permit(s)
    <3>1. \A id, table : Lookup(id, table) \in Int \ {202}
      BY DEF Lookup
    <3>2. \E code \in Int \ {202} : Answer(s, code)
      BY <2>2, <3>1 DEF ReadSteps, GetAction, GetCommand, GetAgent, GetDashboard, GetInvestigator
    <3> QED
      BY <1>2, <3>2, AnswerPlain
  <2> QED
    BY <2>1, <2>2
<1> QED
  BY <1>2, <1>3 DEF TypeInv

(* A request as it is received, and as it is let in at a time.                    *)
LEMMA ReceivedIs ==
  ASSUME TypeInv, Later, NEW q \in Requests, NEW pc \in {"handle", "permit"}, NEW at \in Int, NEW i \in Int,
         at # Never => at \in 0..clock /\ i \in Ids, pc = "permit" => at # Never
  PROVE  \E c \in Calls :
           /\ c = Received(q, pc, at, i) /\ GoodCall(c)' /\ NotAccepted(c)
           /\ c.pc = pc /\ c.request = q /\ c.at = at /\ c.who = i
<1> DEFINE c == Received(q, pc, at, i)
<1>1. c = [pc |-> pc, request |-> q, at |-> at, who |-> i, action |-> 0, left |-> << >>,
           verified |-> Never, code |-> 0]
  BY DEF Received
<1> HIDE DEF c
<1>2. /\ c \in Calls /\ c.pc = pc /\ c.request = q /\ c.at = at /\ c.who = i
      /\ c.verified = Never /\ c.code = 0
  BY <1>1 DEF Calls, CallStates, Never
<1>3. /\ clock \in Nat /\ clock' \in Nat /\ clock' >= clock /\ Ids \subseteq Ids'
  BY DEF Later, RowsLater, TypeInv, ClockType
<1>4. GoodCall(c)'
  BY <1>2, <1>3 DEF GoodCall, Never
<1> QED
  BY <1>2, <1>4 DEF NotAccepted, c

LEMMA RefusedIs ==
  ASSUME TypeInv, Later
  PROVE  \E c \in Calls :
           c = Answered(401, 0) /\ GoodCall(c)' /\ c.pc = "answered" /\ c.at = Never /\ c.code = 401
<1> DEFINE c == Answered(401, 0)
<1>1. c \in Calls /\ c.pc = "answered" /\ c.at = Never /\ c.verified = Never /\ c.code = 401
  BY DEF Answered, Calls, CallStates, NoRequest, Never
<1> HIDE DEF c
<1>2. GoodCall(c)'
  BY <1>1, AnsweredIsGood
<1> QED
  BY <1>1, <1>2 DEF c

(* Who is let in holds the credential, as far as the API can tell.               *)
LEMMA AuthenticateKeeps ==
  ASSUME TypeInv, KeyringHolds, NEW s \in Slots, NEW q \in Requests, Authenticate(s, q)
  PROVE  /\ TypeInv' /\ KeyringHolds' /\ Later /\ SamePerms /\ SameActions
         /\ \E c \in Calls : /\ Becomes(s, c) /\ NotAccepted(c) /\ c.pc # "insert" /\ c.pc # "write"
                             /\ c.at # Never => AdmittedOnce(c)
<1> DEFINE cred == q.cred
           known == CASE cred.kind = "token" -> VerifySignedToken(cred)
                      [] cred.kind = "apikey" -> ByAPIKey(cred.key) # {}
                      [] OTHER -> FALSE
           who == IF cred.kind = "token" THEN ByFingerprint(cred.key) ELSE ByAPIKey(cred.key)
<1>1. /\ UNCHANGED <<investigators, actions, signatures, ran, clock, past>>
      /\ keyring' = keyring \/ keyring' = GetKeyring
      /\ cred.kind = "apikey" => cred.key \in DOMAIN past.ended
  BY DEF Authenticate
<1>2. Becomes(s, IF ~AuthEnabled THEN Received(q, "handle", Never, 0)
                 ELSE IF known THEN Received(q, "permit", clock, CHOOSE i \in who : TRUE)
                 ELSE Answered(401, 0))
  BY DEF Authenticate
<1>3. /\ Later /\ SamePerms /\ SameActions
      /\ TableType' /\ PastType' /\ ApiKeysType' /\ ClockType' /\ ActionsType' /\ KeyringHolds'
  BY <1>1, ClockIs, TablesKept DEF TypeInv, ActionsType
<1>4. clock \in Nat /\ clock - KeyringAge \in Int /\ KeyringAge \in Nat
  BY ClockIs, AccessBounds
<1>5. ASSUME known, NEW i, i = CHOOSE j \in who : TRUE
      PROVE  /\ i \in Ids
             /\ investigators[i].status = "disabled" =>
                  clock - past.disabled[i] <= IF cred.kind = "token" THEN KeyringAge ELSE 0
             /\ cred.kind = "apikey" => cred.key \in DOMAIN past.ended /\ past.ended[cred.key] = Never
  <2>1. CASE cred.kind = "token"
    <3>1. cred.key \in GetKeyring.keys /\ who = ByFingerprint(cred.key)
      BY <1>5, <2>1 DEF VerifySignedToken, Verify
    <3>2. cred.key # NoKey /\ Holder(cred.key, clock - KeyringAge)
      BY <3>1, FreshKeyring
    <3>3. i \in ByFingerprint(cred.key)
      BY <1>5, <3>1, <3>2 DEF Holder
    <3>4. i \in Ids
      BY <3>3 DEF ByFingerprint
    <3>5. investigators[i].status = "disabled" => clock - KeyringAge <= past.disabled[i]
      BY <1>4, <3>2, <3>3, HolderIsOne
    <3>6. past.disabled[i] \in Int
      BY <3>4, RowFields
    <3>7. investigators[i].status = "disabled" => clock - past.disabled[i] <= KeyringAge
      BY <1>4, <3>5, <3>6
    <3> QED
      BY <2>1, <3>4, <3>7
  <2>2. CASE cred.kind = "apikey"
    <3>1. i \in ByAPIKey(cred.key) /\ cred.key \in DOMAIN past.ended
      BY <1>1, <1>5, <2>2
    <3>2. i \in Ids /\ investigators[i].status = "active" /\ investigators[i].api = cred.key
      BY <3>1 DEF ByAPIKey, InvestigatorAPIKeyAuthHelpers
    <3>3. cred.key # 0
      BY <3>1 DEF TypeInv, PastType
    <3>4. past.ended[cred.key] = Never
      BY <3>2, <3>3 DEF TypeInv, ApiKeysType
    <3> QED
      BY <2>2, <3>1, <3>2, <3>4
  <2> QED
    BY <1>5, <2>1, <2>2
<1> HIDE DEF known, who
<1>6. PICK c \in Calls :
         /\ Becomes(s, c) /\ GoodCall(c)' /\ NotAccepted(c) /\ c.pc # "insert" /\ c.pc # "write"
         /\ c.at # Never => AdmittedOnce(c)
  <2>1. CASE ~AuthEnabled
    <3>1. Becomes(s, Received(q, "handle", Never, 0))
      BY <1>2, <2>1
    <3>2. Never \in Int
      BY DEF Never
    <3>3. \E c \in Calls : /\ c = Received(q, "handle", Never, 0) /\ GoodCall(c)' /\ NotAccepted(c)
                          /\ c.pc = "handle" /\ c.at = Never
      BY <1>3, <3>2, ReceivedIs
    <3> QED
      BY <3>1, <3>3
  <2>2. CASE AuthEnabled /\ known
    <3>1. PICK i, at : i = (CHOOSE j \in who : TRUE) /\ at = clock
      OBVIOUS
    <3>2. Becomes(s, Received(q, "permit", at, i))
      BY <1>2, <2>2, <3>1
    <3>3. /\ i \in Ids
          /\ investigators[i].status = "disabled" =>
               clock - past.disabled[i] <= IF cred.kind = "token" THEN KeyringAge ELSE 0
          /\ cred.kind = "apikey" => cred.key \in DOMAIN past.ended /\ past.ended[cred.key] = Never
      BY <1>5, <2>2, <3>1
    <3>4. i \in Int /\ at \in 0..clock /\ at \in Int /\ at # Never
      BY <1>4, <3>1, <3>3, RowFields DEF Never
    <3>5. PICK c \in Calls : /\ c = Received(q, "permit", at, i) /\ GoodCall(c)' /\ NotAccepted(c)
                             /\ c.pc = "permit" /\ c.request = q /\ c.at = at /\ c.who = i
      BY <1>3, <3>3, <3>4, ReceivedIs
    <3>6. AdmittedOnce(c)
      BY <3>1, <3>3, <3>5 DEF AdmittedOnce
    <3> QED
      BY <3>2, <3>5, <3>6
  <2>3. CASE AuthEnabled /\ ~known
    <3>1. Becomes(s, Answered(401, 0))
      BY <1>2, <2>3
    <3> QED
      BY <1>3, <3>1, RefusedIs DEF NotAccepted
  <2> QED
    BY <2>1, <2>2, <2>3
<1>7. CallsType'
  BY <1>3, <1>6, CallsStep
<1> QED
  BY <1>3, <1>6, <1>7 DEF TypeInv

--------------------------------------------------------------------------------
LEMMA MaskIsNat == ASSUME NEW perms PROVE ToMask(perms) \in Nat
BY DEF ToMask, Bits

(* The request at hand and its endpoint.                                         *)
LEMMA ServedIs ==
  ASSUME TypeInv, NEW s \in Slots, calls[s].pc # "answered"
  PROVE  /\ Request(s) \in Requests /\ calls[s] \in Calls /\ GoodCall(calls[s])
         /\ calls[s].pc \in {"perms", "write", "apikey"} => Request(s).endpoint = "updateInvestigator"
         /\ calls[s].pc \in {"insert", "sign"} => Request(s).endpoint = "createAction"
BY DEF TypeInv, CallsType, GoodCall, Request

(* Steps that write the table of investigators, but for their rows.               *)
LEMMA RowsStep ==
  ASSUME TypeInv, KeyringHolds, NEW s \in Slots,
         UNCHANGED <<keyring, actions, signatures, ran, clock>>,
         TableType', PastType', ApiKeysType', RowsLater, EndsLater
  PROVE  ClockType' /\ KeyringHolds' /\ ActionsType' /\ Later /\ SameActions
<1>1. Later /\ SameActions
  BY ClockIs DEF Later, ActionsLater, SameActions
<1>2. ActionsType'
  BY <1>1 DEF TypeInv, ActionsType, Later, RowsLater
<1> QED
  BY <1>1, <1>2, KeyringKept

LEMMA CreateInvestigatorKeeps ==
  ASSUME TypeInv, KeyringHolds, NEW s \in Slots, CreateInvestigator(s)
  PROVE  TypeInv' /\ KeyringHolds' /\ Later /\ SamePerms /\ SameActions /\ Plain(s)
<1> DEFINE b == Body(s)
           taken == b.key # NoKey /\ ByFingerprint(b.key) # {}
<1>1. UNCHANGED <<keyring, actions, signatures, ran, clock, past>> /\ calls[s].pc = "handle"
      /\ Request(s).endpoint = "createInvestigator"
  BY DEF CreateInvestigator, Serves, At
<1>2. CASE UNCHANGED investigators /\ Answer(s, 500)
  <2>1. /\ Later /\ SamePerms /\ SameActions
        /\ TableType' /\ PastType' /\ ApiKeysType' /\ ClockType' /\ ActionsType' /\ KeyringHolds'
    BY <1>1, <1>2, ClockIs, TablesKept DEF TypeInv, ActionsType
  <2> QED
    BY <1>2, <2>1, AnswerPlain DEF TypeInv
<1>3. CASE /\ ~taken /\ Len(investigators) < MaxInvestigators /\ Answer(s, 201)
           /\ InsertInvestigator([status |-> "active", perms |-> ToMask(b.perms), key |-> b.key, api |-> 0])
  <2> DEFINE row == [status |-> "active", perms |-> ToMask(b.perms), key |-> b.key, api |-> 0]
             n == Len(investigators) + 1
  <2>1. b.key \in STRING
    BY <1>1, ServedIs, RequestsAreWellFormed DEF Body
  <2>2. row \in Rows /\ row.key = b.key /\ row.api = 0 /\ row.status = "active"
    BY <2>1, MaskIsNat DEF Rows
  <2> HIDE DEF row
  <2>3. InsertInvestigator(row)
    BY <1>3 DEF row
  <2>4. row.key # NoKey => ByFingerprint(row.key) = {}
    BY <1>3, <2>2
  <2>5. /\ TableType' /\ Ids' = Ids \union {n} /\ investigators'[n] = row
        /\ n \notin Ids /\ \A i \in Ids : investigators'[i] = investigators[i]
    BY <1>3, <2>2, <2>3, <2>4, InsertedIs
  <2>6. PastType' /\ EndsLater
    BY <1>1 DEF TypeInv, PastType, EndsLater
  <2>7. ApiKeysType'
    <3> DEFINE m == n
    <3> HIDE DEF m
    <3>1. Ids' = Ids \union {m} /\ investigators'[m].api = 0
          /\ \A i \in Ids : investigators'[i].api = investigators[i].api
      BY <2>2, <2>5 DEF m
    <3>2. 0 \in 0..Len(past.ended)
      BY LenProperties DEF TypeInv, PastType
    <3> QED
      BY <1>1, <3>1, <3>2 DEF TypeInv, ApiKeysType
  <2>8. RowsLater /\ SamePerms
    BY <1>1, <2>5 DEF RowsLater, SamePerms
  <2>9. ClockType' /\ KeyringHolds' /\ ActionsType' /\ Later /\ SameActions
    BY <1>1, <2>5, <2>6, <2>7, <2>8, RowsStep
  <2> QED
    BY <1>3, <2>5, <2>6, <2>7, <2>8, <2>9, AnswerPlain DEF TypeInv
<1> QED
  BY <1>2, <1>3 DEF CreateInvestigator

(* Changing a row leaves the fields that are not written.                         *)
LEMMA StatusWritten ==
  ASSUME NEW r \in Rows, NEW status \in {"active", "disabled"}, NEW new, new = [r EXCEPT !.status = status]
  PROVE  new \in Rows /\ new.key = r.key /\ new.perms = r.perms /\ new.api = r.api /\ new.status = status
BY DEF Rows

LEMMA PermsWritten ==
  ASSUME NEW r \in Rows, NEW mask \in Nat, NEW new, new = [r EXCEPT !.perms = mask]
  PROVE  new \in Rows /\ new.key = r.key /\ new.perms = mask /\ new.api = r.api /\ new.status = r.status
BY DEF Rows

LEMMA ApiWritten ==
  ASSUME NEW r \in Rows, NEW g \in Nat, NEW new, new = [r EXCEPT !.api = g]
  PROVE  new \in Rows /\ new.key = r.key /\ new.perms = r.perms /\ new.api = g /\ new.status = r.status
BY DEF Rows

LEMMA UpdateStatusKeeps ==
  ASSUME TypeInv, KeyringHolds, NEW s \in Slots, UpdateInvestigatorStatus(s)
  PROVE  TypeInv' /\ KeyringHolds' /\ Later /\ SamePerms /\ SameActions /\ Plain(s)
<1> DEFINE b == Body(s)
<1>1. UNCHANGED <<keyring, actions, signatures, ran, clock>> /\ calls[s].pc = "handle"
      /\ Request(s).endpoint = "updateInvestigator"
  BY DEF UpdateInvestigatorStatus, Serves, At
<1>2. CASE UNCHANGED <<investigators, past>> /\ (Answer(s, 500) \/ Goto(s, "perms"))
  <2>1. /\ Later /\ SamePerms /\ SameActions
        /\ TableType' /\ PastType' /\ ApiKeysType' /\ ClockType' /\ ActionsType' /\ KeyringHolds'
    BY <1>1, <1>2, ClockIs, TablesKept DEF TypeInv, ActionsType
  <2>2. CallsType' /\ Plain(s)
    BY <1>1, <1>2, <2>1, AnswerPlain, GotoPlain DEF Request
  <2> QED
    BY <2>1, <2>2 DEF TypeInv
<1>3. CASE /\ b.status \in {"active", "disabled"} /\ Goto(s, "perms")
           /\ investigators' = Written(s, [Row(s) EXCEPT !.status = b.status])
           /\ past' = IF b.status = "disabled" /\ b.id \in Ids /\ investigators[b.id].status = "active"
                      THEN [past EXCEPT !.disabled = [@ EXCEPT ![b.id] = clock]] ELSE past
  <2> DEFINE row == [Row(s) EXCEPT !.status = b.status]
             gone == b.status = "disabled" /\ b.id \in Ids /\ investigators[b.id].status = "active"
  <2>1. b.id \in Ids => /\ row \in Rows /\ row.key = Row(s).key /\ row.perms = Row(s).perms
                        /\ row.api = Row(s).api /\ row.status = b.status
    <3> SUFFICES ASSUME b.id \in Ids
                 PROVE  /\ row \in Rows /\ row.key = Row(s).key /\ row.perms = Row(s).perms
                        /\ row.api = Row(s).api /\ row.status = b.status
      OBVIOUS
    <3>1. Row(s) \in Rows
      BY RowFields DEF Row
    <3> QED
      BY <1>3, <3>1, StatusWritten
  <2> HIDE DEF row
  <2>2. /\ TableType' /\ Ids' = Ids
        /\ \A i \in Ids :
             /\ investigators'[i].key = investigators[i].key
             /\ investigators'[i] = IF i = b.id THEN row ELSE investigators[i]
    BY <1>3, <2>1, WrittenIs DEF row
  <2>3. \A i \in Ids : /\ investigators'[i].perms = investigators[i].perms
                       /\ investigators'[i].api = investigators[i].api
                       /\ i # b.id => investigators'[i].status = investigators[i].status
                       /\ i = b.id => investigators'[i].status = b.status
    BY <2>1, <2>2 DEF Row
  <2>4. /\ PastType' /\ past'.ended = past.ended /\ past'.overlap = past.overlap
        /\ \A i \in Ids : i # b.id \/ ~gone => past'.disabled[i] = past.disabled[i]
        /\ gone => past'.disabled[b.id] = clock
    <3>1. CASE ~gone
      BY <1>3, <3>1 DEF TypeInv, PastType
    <3>2. CASE gone
      <4> DEFINE d == [past.disabled EXCEPT ![b.id] = clock]
      <4>1. b.id \in 1..MaxInvestigators /\ clock \in Int
        BY <3>2, RowFields, ClockIs
      <4>2. past.disabled \in [1..MaxInvestigators -> Int] /\ past.ended \in Seq(Int) /\ past.overlap \in BOOLEAN
        BY DEF TypeInv, PastType
      <4>3. d \in [1..MaxInvestigators -> Int] /\ d[b.id] = clock
            /\ \A i \in 1..MaxInvestigators : i # b.id => d[i] = past.disabled[i]
        BY <4>1, <4>2
      <4>4. past' = [past EXCEPT !.disabled = d]
        BY <1>3, <3>2
      <4> HIDE DEF d
      <4>5. /\ past' \in [disabled : [1..MaxInvestigators -> Int], ended : Seq(Int), overlap : BOOLEAN]
            /\ past'.disabled = d /\ past'.ended = past.ended /\ past'.overlap = past.overlap
        BY <4>2, <4>3, <4>4 DEF TypeInv, PastType
      <4> QED
        BY <3>2, <4>3, <4>5, RowFields DEF PastType
    <3> QED
      BY <3>1, <3>2
  <2>5. ApiKeysType'
    BY <2>2, <2>3, <2>4 DEF TypeInv, ApiKeysType
  <2>6. RowsLater
    <3> SUFFICES ASSUME NEW i \in Ids, investigators'[i].status = "disabled"
                 PROVE  \/ investigators[i].status = "disabled" /\ past'.disabled[i] = past.disabled[i]
                        \/ past'.disabled[i] = clock
      BY <2>2 DEF RowsLater
    <3>1. investigators[i].status \in {"active", "disabled"}
      BY RowFields
    <3> QED
      BY <2>3, <2>4, <3>1
  <2>7. EndsLater
    BY <2>4 DEF EndsLater
  <2>8. SamePerms
    BY <2>2, <2>3, <2>4 DEF SamePerms
  <2>9. ClockType' /\ KeyringHolds' /\ ActionsType' /\ Later /\ SameActions
    BY <1>1, <2>2, <2>4, <2>5, <2>6, <2>7, RowsStep
  <2>10. CallsType' /\ Plain(s)
    BY <1>1, <1>3, <2>9, GotoPlain DEF Request
  <2> QED
    BY <2>2, <2>4, <2>5, <2>8, <2>9, <2>10 DEF TypeInv
<1>4. b.status = "" \/ b.status \in {"active", "disabled"} \/ (Answer(s, 500) /\ UNCHANGED <<investigators, past>>)
  BY DEF UpdateInvestigatorStatus, ValidStatus
<1>5. CASE b.status = "" /\ ~ (Answer(s, 500) /\ UNCHANGED <<investigators, past>>)
  <2>1. Goto(s, "perms") /\ UNCHANGED <<investigators, past>>
    BY <1>5 DEF UpdateInvestigatorStatus
  <2> QED
    BY <1>2, <2>1
<1>6. CASE b.status \in {"active", "disabled"} /\ ~ (Answer(s, 500) /\ UNCHANGED <<investigators, past>>)
  <2>1. b.status # ""
    BY <1>6
  <2> QED
    BY <1>3, <1>6, <2>1 DEF UpdateInvestigatorStatus
<1> QED
  BY <1>2, <1>4, <1>5, <1>6

(* Writing is only decided on when the new permissions administrate, or another   *)
(* row does.                                                                      *)
LEMMA CountAdminsKeeps ==
  ASSUME TypeInv, KeyringHolds, NEW s \in Slots, CountAdmins(s)
  PROVE  /\ TypeInv' /\ KeyringHolds' /\ Later /\ SameActions /\ UNCHANGED investigators
         /\ past.overlap => past'.overlap
         /\ \E c \in Calls :
              /\ Becomes(s, c) /\ SameAdmission(s, c) /\ NotAccepted(c) /\ c.pc # "insert"
              /\ c.pc = "write" =>
                   /\ Administrates(c.request.body.perms) \/ OtherAdmin(c.request.body.id)
                   /\ past'.overlap \/ \A t \in Slots \ {s} : calls[t].pc # "write"
<1> DEFINE b == Body(s)
           overlap == past.overlap \/ \E t \in Slots \ {s} : At(t, "write") /\ b.mask = "given"
<1>1. /\ UNCHANGED <<investigators, keyring, actions, signatures, ran, clock>> /\ calls[s].pc = "perms"
      /\ past' = [past EXCEPT !.overlap = overlap]
  BY DEF CountAdmins, At
<1>2. /\ Request(s) \in Requests /\ calls[s] \in Calls /\ GoodCall(calls[s])
      /\ Request(s).endpoint = "updateInvestigator" /\ b.mask \in {"", "invalid", "given"}
  BY <1>1, ServedIs, RequestsAreWellFormed DEF Body
<1>3. /\ PastType' /\ past'.overlap = overlap
      /\ past'.disabled = past.disabled /\ past'.ended = past.ended
  <2>1. overlap \in BOOLEAN
    BY DEF TypeInv, PastType
  <2> HIDE DEF overlap
  <2> QED
    BY <1>1, <2>1 DEF TypeInv, PastType
<1>4. RowsLater /\ EndsLater /\ TableType' /\ ApiKeysType'
  BY <1>1, <1>3 DEF RowsLater, EndsLater, TypeInv, TableType, ApiKeysType, Ids
<1>5. ClockType' /\ KeyringHolds' /\ ActionsType' /\ Later /\ SameActions
  BY <1>1, <1>3, <1>4, RowsStep
<1>6. CASE \E code \in {200, 500} : Answer(s, code)
  <2>1. CallsType' /\ Plain(s)
    BY <1>5, <1>6, AnswerPlain
  <2> QED
    BY <1>1, <1>3, <1>4, <1>5, <2>1 DEF TypeInv, Plain
<1>7. CASE Goto(s, "apikey")
  <2>1. CallsType' /\ Plain(s)
    BY <1>1, <1>2, <1>5, <1>7, GotoPlain DEF Request
  <2> QED
    BY <1>1, <1>3, <1>4, <1>5, <2>1 DEF TypeInv, Plain
<1>8. CASE /\ Goto(s, "write") /\ b.mask = "given"
           /\ Administrates(b.perms) \/ OtherAdmin(b.id)
  <2>0. "write" \in CallStates
    BY DEF CallStates
  <2>1. PICK c \in Calls :
           /\ Becomes(s, c) /\ c.pc = "write" /\ c.at = calls[s].at /\ c.who = calls[s].who
           /\ c.request = calls[s].request /\ c.action = calls[s].action
           /\ c.verified = calls[s].verified /\ c.code = calls[s].code
    BY <1>8, <2>0, GotoIs
  <2>3. PICK d \in Calls : d = calls[s] /\ GoodCall(d)
    BY <1>2
  <2>4. GoodCall(d)'
    BY <1>5, <2>3, GoodCallKept
  <2>5. GoodCall(c)'
    BY <1>1, <1>2, <1>8, <2>1, <2>3, <2>4 DEF GoodCall, Request, Body
  <2>6. CallsType'
    BY <1>5, <2>1, <2>5, CallsStep
  <2>7. SameAdmission(s, c) /\ NotAccepted(c) /\ c.pc # "insert"
    BY <2>1 DEF SameAdmission, NotAccepted
  <2>8. Administrates(c.request.body.perms) \/ OtherAdmin(c.request.body.id)
    BY <1>8, <2>1 DEF Body, Request
  <2>9. past'.overlap \/ \A t \in Slots \ {s} : calls[t].pc # "write"
    BY <1>3, <1>8 DEF At
  <2> QED
    BY <1>1, <1>3, <1>4, <1>5, <2>1, <2>6, <2>7, <2>8, <2>9 DEF TypeInv
<1>9. \/ \E code \in {200, 500} : Answer(s, code)
      \/ Goto(s, "apikey")
      \/ /\ Goto(s, "write") /\ b.mask = "given"
         /\ Administrates(b.perms) \/ OtherAdmin(b.id)
  <2>1. IF b.mask = "" THEN Goto(s, "apikey")
        ELSE IF b.mask = "invalid" THEN Answer(s, 500)
        ELSE IF Administrates(b.perms) \/ OtherAdmin(b.id) THEN Goto(s, "write") ELSE Answer(s, 500)
    BY DEF CountAdmins, Administrates
  <2>2. b.mask = "" \/ b.mask = "invalid" \/ b.mask = "given"
    BY <1>2, Zenon
  <2>3. "invalid" # "" /\ "given" # "" /\ "given" # "invalid"
    OBVIOUS
  <2> HIDE DEF b
  <2>4. CASE b.mask = ""
    BY <2>1, <2>4, Zenon
  <2>5. CASE b.mask = "invalid"
    <3>1. Answer(s, 500)
      BY <2>1, <2>3, <2>5, Zenon
    <3>2. 500 \in {200, 500}
      OBVIOUS
    <3> QED
      BY <3>1, <3>2, Zenon
  <2>6. CASE b.mask = "given" /\ (Administrates(b.perms) \/ OtherAdmin(b.id))
    BY <2>1, <2>3, <2>6, Zenon
  <2>7. CASE b.mask = "given" /\ ~ (Administrates(b.perms) \/ OtherAdmin(b.id))
    <3>1. Answer(s, 500)
      BY <2>1, <2>3, <2>7, Zenon
    <3>2. 500 \in {200, 500}
      OBVIOUS
    <3> QED
      BY <3>1, <3>2, Zenon
  <2> QED
    BY <2>2, <2>4, <2>5, <2>6, <2>7, Zenon
<1> HIDE DEF b
<1> QED
  BY <1>6, <1>7, <1>8, <1>9, Zenon

LEMMA UpdatePermsKeeps ==
  ASSUME TypeInv, KeyringHolds, NEW s \in Slots, UpdateInvestigatorPerms(s)
  PROVE  /\ TypeInv' /\ KeyringHolds' /\ Later /\ SameActions /\ Plain(s) /\ calls[s].pc = "write"
         /\ past'.overlap = past.overlap /\ Ids' = Ids
         /\ \A i \in Ids :
              investigators'[i].perms = IF i = Body(s).id THEN ToMask(Body(s).perms)
                                        ELSE investigators[i].perms
<1> DEFINE b == Body(s)
           mask == ToMask(b.perms)
           row == [Row(s) EXCEPT !.perms = mask]
<1>1. /\ UNCHANGED <<keyring, actions, signatures, ran, clock, past>> /\ calls[s].pc = "write"
      /\ Goto(s, "apikey") /\ investigators' = Written(s, row)
  BY DEF UpdateInvestigatorPerms, At
<1>2. Request(s).endpoint = "updateInvestigator"
  BY <1>1, ServedIs
<1>3. mask \in Nat
  BY MaskIsNat
<1> HIDE DEF mask
<1>4. b.id \in Ids => /\ row \in Rows /\ row.key = Row(s).key /\ row.perms = mask
                      /\ row.api = Row(s).api /\ row.status = Row(s).status
  <2> SUFFICES ASSUME b.id \in Ids
               PROVE  /\ row \in Rows /\ row.key = Row(s).key /\ row.perms = mask
                      /\ row.api = Row(s).api /\ row.status = Row(s).status
    OBVIOUS
  <2>1. Row(s) \in Rows
    BY RowFields DEF Row
  <2> QED
    BY <1>3, <2>1, PermsWritten
<1> HIDE DEF row
<1>5. /\ TableType' /\ Ids' = Ids
      /\ \A i \in Ids :
           /\ investigators'[i].key = investigators[i].key
           /\ investigators'[i] = IF i = b.id THEN row ELSE investigators[i]
  BY <1>1, <1>4, WrittenIs
<1>6. \A i \in Ids : /\ investigators'[i].status = investigators[i].status
                     /\ investigators'[i].api = investigators[i].api
                     /\ investigators'[i].perms = IF i = b.id THEN mask ELSE investigators[i].perms
  BY <1>4, <1>5 DEF Row
<1>7. PastType' /\ RowsLater /\ EndsLater /\ ApiKeysType'
  BY <1>1, <1>5, <1>6 DEF RowsLater, EndsLater, TypeInv, PastType, ApiKeysType
<1>8. ClockType' /\ KeyringHolds' /\ ActionsType' /\ Later /\ SameActions
  BY <1>1, <1>5, <1>7, RowsStep
<1>9. CallsType' /\ Plain(s)
  BY <1>1, <1>2, <1>8, GotoPlain DEF Request
<1> QED
  BY <1>1, <1>5, <1>6, <1>7, <1>8, <1>9 DEF TypeInv, mask

(* A row gets a new API key, or none, and the key that it had ends.               *)
LEMMA KeyWritten ==
  ASSUME TypeInv, KeyringHolds, NEW s \in Slots, NEW g \in Nat, NEW e \in Seq(Int), NEW old \in Nat, NEW row,
         UNCHANGED <<keyring, actions, signatures, ran, clock>>,
         Body(s).id \in Ids => /\ row \in Rows /\ row.key = Row(s).key /\ row.perms = Row(s).perms
                              /\ row.api = g /\ row.status = Row(s).status,
         investigators' = Written(s, row),
         PastType', past'.ended = e, past'.disabled = past.disabled, past'.overlap = past.overlap,
         old = IF Body(s).id \in Ids THEN investigators[Body(s).id].api ELSE 0,
         DOMAIN past.ended \subseteq DOMAIN e,
         \A k \in DOMAIN past.ended : e[k] = IF k = old THEN clock ELSE past.ended[k],
         g # 0 => g \notin DOMAIN past.ended /\ g \in DOMAIN e /\ e[g] = Never
  PROVE  /\ TableType' /\ PastType' /\ ApiKeysType' /\ ClockType' /\ ActionsType' /\ KeyringHolds'
         /\ Later /\ SamePerms /\ SameActions
<1> DEFINE b == Body(s)
<1>1. /\ TableType' /\ Ids' = Ids
      /\ \A i \in Ids :
           /\ investigators'[i].key = investigators[i].key
           /\ investigators'[i] = IF i = b.id THEN row ELSE investigators[i]
  BY WrittenIs
<1>2. \A i \in Ids : /\ investigators'[i].status = investigators[i].status
                     /\ investigators'[i].perms = investigators[i].perms
                     /\ investigators'[i].api = IF i = b.id THEN g ELSE investigators[i].api
  BY <1>1 DEF Row
<1>3. RowsLater /\ EndsLater /\ SamePerms
  BY <1>1, <1>2 DEF RowsLater, EndsLater, SamePerms
<1>4. ApiKeysType'
  <2>1. /\ DOMAIN past.ended = 1..Len(past.ended) /\ Len(past.ended) \in Nat
        /\ DOMAIN e = 1..Len(e) /\ Len(e) \in Nat
    BY LenProperties DEF TypeInv, PastType
  <2>2. \A i \in Ids : investigators[i].api = 0 \/ investigators[i].api \in DOMAIN past.ended
    BY <2>1 DEF TypeInv, ApiKeysType
  <2>3. \A i \in Ids : investigators[i].api # 0 => past.ended[investigators[i].api] = Never
    BY DEF TypeInv, ApiKeysType
  <2>4. \A i, j \in Ids : investigators[j].api = investigators[i].api /\ investigators[i].api # 0 => j = i
    BY DEF TypeInv, ApiKeysType
  <2>5. \A i \in Ids : i # b.id /\ investigators[i].api # 0 => investigators[i].api # old
    BY <2>4
  <2>6. \A i \in Ids : /\ investigators'[i].api = 0 \/ investigators'[i].api \in DOMAIN e
                       /\ investigators'[i].api # 0 => e[investigators'[i].api] = Never
    BY <1>2, <2>2, <2>3, <2>5
  <2>7. \A i, j \in Ids : investigators'[j].api = investigators'[i].api /\ investigators'[i].api # 0 => j = i
    <3> SUFFICES ASSUME NEW i \in Ids, NEW j \in Ids, i # j,
                        investigators'[j].api = investigators'[i].api, investigators'[i].api # 0
                 PROVE  FALSE
      OBVIOUS
    <3>1. CASE i # b.id /\ j # b.id
      BY <1>2, <2>4, <3>1
    <3>2. CASE i = b.id
      <4>1. investigators'[i].api = g /\ investigators'[j].api = investigators[j].api
        BY <1>2, <3>2
      <4> QED
        BY <2>2, <4>1
    <3>3. CASE j = b.id
      <4>1. investigators'[j].api = g /\ investigators'[i].api = investigators[i].api
        BY <1>2, <3>3
      <4> QED
        BY <2>2, <4>1
    <3> QED
      BY <3>1, <3>2, <3>3
  <2>8. \A i \in Ids : investigators'[i].api \in 0..Len(e)
    BY <2>1, <2>6
  <2> QED
    BY <1>1, <2>6, <2>7, <2>8 DEF ApiKeysType
<1> QED
  BY <1>1, <1>3, <1>4, RowsStep

LEMMA UpdateAPIKeyKeeps ==
  ASSUME TypeInv, KeyringHolds, NEW s \in Slots, UpdateInvestigatorAPIKey(s)
  PROVE  TypeInv' /\ KeyringHolds' /\ Later /\ SamePerms /\ SameActions /\ Plain(s)
<1> DEFINE b == Body(s)
           new == Len(past.ended) + 1
           old == IF b.id \in Ids THEN investigators[b.id].api ELSE 0
           ended == IF old = 0 THEN past.ended ELSE [past.ended EXCEPT ![old] = clock]
<1>1. UNCHANGED <<keyring, actions, signatures, ran, clock>>
  BY DEF UpdateInvestigatorAPIKey
<1>2. past.ended \in Seq(Int) /\ DOMAIN past.ended = 1..Len(past.ended) /\ Len(past.ended) \in Nat
  BY LenProperties DEF TypeInv, PastType
<1>3. old \in Nat /\ old \in 0..Len(past.ended)
  BY <1>2, RowFields DEF TypeInv, ApiKeysType
<1> HIDE DEF old
<1>4. /\ ended \in Seq(Int) /\ Len(ended) = Len(past.ended) /\ DOMAIN ended = 1..Len(ended)
      /\ \A k \in DOMAIN past.ended : ended[k] = IF k = old THEN clock ELSE past.ended[k]
  <2>1. CASE old = 0
    BY <1>2, <2>1
  <2>2. CASE old # 0
    <3>1. old \in 1..Len(past.ended) /\ clock \in Int
      BY <1>2, <1>3, <2>2, ClockIs
    <3>2. ended = [past.ended EXCEPT ![old] = clock]
      BY <2>2
    <3>3. ended \in Seq(Int) /\ Len(ended) = Len(past.ended)
      BY <1>2, <3>1, <3>2, ExceptSeq
    <3> QED
      BY <1>2, <3>1, <3>2, <3>3, LenProperties
  <2> QED
    BY <2>1, <2>2
<1> HIDE DEF ended
<1> DEFINE Key(g) == [Row(s) EXCEPT !.api = g]
<1>5. \A g \in Nat : b.id \in Ids =>
        /\ Key(g) \in Rows /\ Key(g).key = Row(s).key /\ Key(g).perms = Row(s).perms
        /\ Key(g).api = g /\ Key(g).status = Row(s).status
  <2> SUFFICES ASSUME NEW g \in Nat, b.id \in Ids
               PROVE  /\ Key(g) \in Rows /\ Key(g).key = Row(s).key /\ Key(g).perms = Row(s).perms
                      /\ Key(g).api = g /\ Key(g).status = Row(s).status
    OBVIOUS
  <2>1. Row(s) \in Rows
    BY RowFields DEF Row
  <2> QED
    BY <2>1, ApiWritten
<1>6. ASSUME NEW e \in Seq(Int), past' = [past EXCEPT !.ended = e]
       PROVE  /\ PastType' /\ past'.ended = e
              /\ past'.disabled = past.disabled /\ past'.overlap = past.overlap
  BY <1>6 DEF TypeInv, PastType
<1> HIDE DEF Key
<1>7. CASE UNCHANGED <<investigators, past>> /\ \E code \in {200, 500} : Answer(s, code)
  <2>1. /\ Later /\ SamePerms /\ SameActions
        /\ TableType' /\ PastType' /\ ApiKeysType' /\ ClockType' /\ ActionsType' /\ KeyringHolds'
    BY <1>1, <1>7, ClockIs, TablesKept DEF TypeInv, ActionsType
  <2> QED
    BY <1>7, <2>1, AnswerPlain DEF TypeInv
<1>8. CASE /\ Answer(s, 200) /\ investigators' = Written(s, Key(new))
           /\ past' = [past EXCEPT !.ended = Append(ended, Never)]
  <2> DEFINE e == Append(ended, Never)
  <2>1. e \in Seq(Int) /\ Len(e) = new /\ e[new] = Never /\ \A k \in 1..Len(ended) : e[k] = ended[k]
    BY <1>4, AppendProperties DEF Never
  <2>2. new \in Nat /\ new # 0 /\ new \notin DOMAIN past.ended /\ new \in DOMAIN e /\ DOMAIN past.ended \subseteq DOMAIN e
    BY <1>2, <2>1, LenProperties
  <2>3. \A k \in DOMAIN past.ended : e[k] = IF k = old THEN clock ELSE past.ended[k]
    BY <1>2, <1>4, <2>1
  <2> HIDE DEF e, new
  <2>4. /\ TableType' /\ PastType' /\ ApiKeysType' /\ ClockType' /\ ActionsType' /\ KeyringHolds'
        /\ Later /\ SamePerms /\ SameActions
    <3>1. past' = [past EXCEPT !.ended = e]
      BY <1>8 DEF e
    <3>2. /\ PastType' /\ past'.ended = e
          /\ past'.disabled = past.disabled /\ past'.overlap = past.overlap
      BY <1>6, <2>1, <3>1
    <3>3. PICK row : row = Key(new)
      OBVIOUS
    <3>4. /\ investigators' = Written(s, row)
          /\ b.id \in Ids => /\ row \in Rows /\ row.key = Row(s).key /\ row.perms = Row(s).perms
                             /\ row.api = new /\ row.status = Row(s).status
      BY <1>8, <1>5, <2>2, <3>3
    <3>5. old = IF b.id \in Ids THEN investigators[b.id].api ELSE 0
      BY DEF old
    <3>6. \A k \in DOMAIN past.ended : e[k] = IF k = old THEN clock ELSE past.ended[k]
      BY <2>3
    <3> HIDE DEF b
    <3> QED
      BY <1>1, <1>3, <2>1, <2>2, <3>2, <3>4, <3>5, <3>6, KeyWritten, SMTT(30) DEF b
  <2> QED
    BY <1>8, <2>4, AnswerPlain DEF TypeInv
<1>9. CASE /\ Answer(s, 200) /\ investigators' = Written(s, Key(0))
           /\ past' = [past EXCEPT !.ended = ended]
  <2>1. /\ TableType' /\ PastType' /\ ApiKeysType' /\ ClockType' /\ ActionsType' /\ KeyringHolds'
        /\ Later /\ SamePerms /\ SameActions
    <3>2. /\ PastType' /\ past'.ended = ended
          /\ past'.disabled = past.disabled /\ past'.overlap = past.overlap
      BY <1>4, <1>9, <1>6
    <3>3. PICK row : row = Key(0)
      OBVIOUS
    <3>4. /\ investigators' = Written(s, row)
          /\ b.id \in Ids => /\ row \in Rows /\ row.key = Row(s).key /\ row.perms = Row(s).perms
                             /\ row.api = 0 /\ row.status = Row(s).status
      BY <1>9, <1>5, <3>3
    <3>5. old = IF b.id \in Ids THEN investigators[b.id].api ELSE 0
      BY DEF old
    <3>6. DOMAIN past.ended \subseteq DOMAIN ended
      BY <1>2, <1>4
    <3> QED
      BY <1>1, <1>3, <1>4, <3>2, <3>4, <3>5, <3>6, KeyWritten, SMTT(30)
  <2> QED
    BY <1>9, <2>1, AnswerPlain DEF TypeInv
<1>10. \/ UNCHANGED <<investigators, past>> /\ \E code \in {200, 500} : Answer(s, code)
      \/ /\ Answer(s, 200) /\ investigators' = Written(s, Key(new))
         /\ past' = [past EXCEPT !.ended = Append(ended, Never)]
      \/ /\ Answer(s, 200) /\ investigators' = Written(s, Key(0))
         /\ past' = [past EXCEPT !.ended = ended]
  BY ZenonT(60) DEF UpdateInvestigatorAPIKey, old, ended, Key
<1> QED
  BY <1>7, <1>8, <1>9, <1>10

--------------------------------------------------------------------------------
(* What is verified is signed by those that the keyring knows.                    *)
LEMMA CreateActionKeeps ==
  ASSUME TypeInv, KeyringHolds, NEW s \in Slots, CreateAction(s)
  PROVE  /\ TypeInv' /\ KeyringHolds' /\ Later /\ SamePerms /\ SameActions
         /\ \E c \in Calls :
              /\ Becomes(s, c) /\ SameAdmission(s, c) /\ NotAccepted(c) /\ c.pc # "write"
              /\ c.pc = "insert" =>
                   /\ c.verified = clock
                   /\ \A key \in Range(c.request.body.sigs) : Holder(key, clock - KeyringAge)
<1> DEFINE a == Body(s)
<1>1. /\ UNCHANGED <<investigators, actions, signatures, ran, clock, past>>
      /\ keyring' = GetKeyring /\ calls[s].pc = "handle" /\ Request(s).endpoint = "createAction"
  BY DEF CreateAction, Serves, At
<1>2. /\ Later /\ SamePerms /\ SameActions
      /\ TableType' /\ PastType' /\ ApiKeysType' /\ ClockType' /\ ActionsType' /\ KeyringHolds'
  BY <1>1, ClockIs, TablesKept DEF TypeInv, ActionsType
<1>3. CASE Answer(s, 500)
  <2>1. CallsType' /\ Plain(s)
    BY <1>2, <1>3, AnswerPlain
  <2> QED
    BY <1>2, <2>1 DEF TypeInv, Plain
<1>4. CASE /\ VerifySignatures(a, GetKeyring.keys)
           /\ Becomes(s, [calls[s] EXCEPT !.pc = "insert", !.verified = clock])
  <2>1. PICK d \in Calls : d = calls[s] /\ GoodCall(d) /\ d.request \in Requests
    BY <1>1, ServedIs DEF Request
  <2> DEFINE first == [d EXCEPT !.pc = "insert"]
             created == [first EXCEPT !.verified = clock]
  <2>2. clock \in Int /\ "insert" \in CallStates
    BY ClockIs DEF CallStates
  <2>3. /\ first \in Calls /\ first.pc = "insert" /\ first.at = d.at /\ first.who = d.who
        /\ first.request = d.request /\ first.action = d.action /\ first.code = d.code
    BY <2>2 DEF Calls
  <2>4. Becomes(s, created)
    BY <1>4, <2>1
  <2> HIDE DEF first
  <2>5. /\ created \in Calls /\ created.pc = "insert" /\ created.at = d.at /\ created.who = d.who
        /\ created.request = d.request /\ created.action = d.action /\ created.code = d.code
        /\ created.verified = clock
    BY <2>2, <2>3 DEF Calls
  <2> HIDE DEF created
  <2>6. PICK c : c = created
    OBVIOUS
  <2>7. GoodCall(d)'
    BY <1>2, <2>1, GoodCallKept
  <2>8. GoodCall(c)'
    BY <1>1, <2>1, <2>5, <2>6, <2>7, ClockIs DEF GoodCall, Request
  <2>9. CallsType'
    BY <1>2, <2>4, <2>5, <2>6, <2>8, CallsStep
  <2>10. \A key \in Range(c.request.body.sigs) : Holder(key, clock - KeyringAge)
    <3>1. \A key \in Range(a.sigs) : key \in GetKeyring.keys
      BY <1>4 DEF VerifySignatures, Verify, Range
    <3>2. a.sigs = c.request.body.sigs
      BY <2>1, <2>5, <2>6 DEF Body, Request
    <3> QED
      BY <3>1, <3>2, FreshKeyring
  <2>11. SameAdmission(s, c) /\ NotAccepted(c)
    BY <2>1, <2>5, <2>6 DEF SameAdmission, NotAccepted
  <2> QED
    BY <1>2, <2>4, <2>5, <2>6, <2>9, <2>10, <2>11 DEF TypeInv
<1> QED
  BY <1>3, <1>4 DEF CreateAction

LEMMA InsertActionKeeps ==
  ASSUME TypeInv, KeyringHolds, NEW s \in Slots, InsertAction(s)
  PROVE  /\ TypeInv' /\ KeyringHolds' /\ Later /\ SamePerms
         /\ UNCHANGED <<investigators, signatures, clock, past>> /\ calls[s].pc = "insert"
         /\ DOMAIN actions' = DOMAIN actions \union {Len(actions) + 1}
         /\ actions'[Len(actions) + 1].sigs = Request(s).body.sigs
         /\ actions'[Len(actions) + 1].at = calls[s].verified
         /\ \E c \in Calls :
              /\ Becomes(s, c) /\ SameAdmission(s, c) /\ c.pc = "sign"
              /\ c.action = Len(actions) + 1 /\ c.left = Request(s).body.sigs
<1> DEFINE a == Body(s)
           n == Len(actions) + 1
           row == [sigs |-> a.sigs, ops |-> a.ops, from |-> a.from, until |-> a.until,
                   form |-> a.form, at |-> calls[s].verified]
<1>1. /\ UNCHANGED <<investigators, keyring, signatures, ran, clock, past>> /\ calls[s].pc = "insert"
      /\ actions' = Append(actions, row)
      /\ Becomes(s, [calls[s] EXCEPT !.pc = "sign", !.action = Len(actions) + 1, !.left = a.sigs])
  BY DEF InsertAction, At
<1>2. /\ Request(s) \in Requests /\ Request(s).endpoint = "createAction" /\ a.sigs \in Seq(STRING)
  BY <1>1, ServedIs, RequestsAreWellFormed DEF Body
<1>3. PICK d \in Calls : d = calls[s] /\ GoodCall(d) /\ d.request \in Requests
  BY <1>1, ServedIs DEF Request
<1>4. row = Stored(Request(s), calls[s].verified) /\ row \in ActionRows
      /\ row.sigs = Request(s).body.sigs /\ row.at = calls[s].verified
  <2>1. row = Stored(Request(s), calls[s].verified)
    BY DEF Stored, Body
  <2>2. calls[s].verified \in Int
    BY <1>3, CallFields
  <2> QED
    BY <1>2, <2>1, <2>2 DEF ActionRows, Creations, Body
<1> HIDE DEF row
<1>5. /\ actions \in Seq(ActionRows) /\ DOMAIN actions = 1..Len(actions) /\ Len(actions) \in Nat
  BY LenProperties DEF TypeInv, ActionsType
<1>6. /\ actions' \in Seq(ActionRows) /\ Len(actions') = n /\ actions'[n] = row
      /\ \A i \in 1..Len(actions) : actions'[i] = actions[i]
  BY <1>1, <1>4, <1>5, AppendProperties
<1>7. DOMAIN actions' = 1..n
  BY <1>6, LenProperties
<1>8. DOMAIN actions' = DOMAIN actions \union {n} /\ n \in Nat
  BY <1>5, <1>7
<1>9. Later /\ SamePerms
  BY <1>1, <1>5, <1>6, <1>8, ClockIs DEF Later, RowsLater, EndsLater, ActionsLater, SamePerms, Ids
<1>10. TableType' /\ PastType' /\ ApiKeysType' /\ ClockType' /\ KeyringHolds'
  BY <1>1, <1>9, KeyringKept DEF TypeInv, TableType, PastType, ApiKeysType, Ids
<1>11. ActionsType'
  BY <1>1, <1>6, <1>8 DEF TypeInv, ActionsType, Ids
<1> DEFINE first == [d EXCEPT !.pc = "sign"]
           second == [first EXCEPT !.action = n]
           stored == [second EXCEPT !.left = a.sigs]
<1>12. "sign" \in CallStates
  BY DEF CallStates
<1>13. Becomes(s, stored)
  BY <1>1, <1>3
<1>14. /\ first \in Calls /\ first.pc = "sign" /\ first.at = d.at /\ first.who = d.who
       /\ first.request = d.request /\ first.code = d.code /\ first.verified = d.verified
  BY <1>12 DEF Calls
<1> HIDE DEF first
<1>15. /\ second \in Calls /\ second.pc = "sign" /\ second.at = d.at /\ second.who = d.who /\ second.action = n
       /\ second.request = d.request /\ second.code = d.code /\ second.verified = d.verified
  BY <1>8, <1>14 DEF Calls
<1> HIDE DEF second
<1>16. /\ stored \in Calls /\ stored.pc = "sign" /\ stored.at = d.at /\ stored.who = d.who
       /\ stored.action = n /\ stored.request = d.request /\ stored.code = d.code
       /\ stored.verified = d.verified /\ stored.left = a.sigs
  BY <1>2, <1>15 DEF Calls
<1> HIDE DEF stored
<1>17. PICK c : c = stored
  OBVIOUS
<1>18. GoodCall(c)'
  <2>1. GoodCall(d)'
    BY <1>3, <1>9, GoodCallKept
  <2> QED
    BY <1>2, <1>3, <1>8, <1>16, <1>17, <2>1 DEF GoodCall, Request
<1>19. CallsType'
  BY <1>9, <1>13, <1>16, <1>17, <1>18, CallsStep
<1>20. SameAdmission(s, c)
  BY <1>3, <1>16, <1>17 DEF SameAdmission
<1> QED
  BY <1>1, <1>4, <1>6, <1>8, <1>9, <1>10, <1>11, <1>13, <1>16, <1>17, <1>19, <1>20 DEF TypeInv, Body

(* A signature gets a row, fails the request, or all have got theirs.             *)
SignatureStep(s, c) ==
  \/ UNCHANGED signatures /\ NotAccepted(c)
  \/ /\ UNCHANGED signatures
     /\ c.pc = "answered" /\ c.action = calls[s].action /\ calls[s].left = << >>
  \/ /\ c.pc = "sign" /\ c.action = calls[s].action
     /\ calls[s].left # << >> /\ c.left = Tail(calls[s].left)
     /\ \E i \in ByFingerprint(Head(calls[s].left)) : <<c.action, i>> \in signatures'

LEMMA InsertSignatureKeeps ==
  ASSUME TypeInv, KeyringHolds, NEW s \in Slots, InsertSignature(s)
  PROVE  /\ TypeInv' /\ KeyringHolds' /\ Later /\ SamePerms /\ UNCHANGED <<actions, investigators>>
         /\ calls[s].pc = "sign"
         /\ \E c \in Calls : /\ Becomes(s, c) /\ SameAdmission(s, c) /\ c.pc # "insert" /\ c.pc # "write"
                             /\ SignatureStep(s, c)
<1>1. /\ UNCHANGED <<investigators, actions, ran, clock, past>> /\ calls[s].pc = "sign"
      /\ keyring' = keyring \/ keyring' = GetKeyring
  BY DEF InsertSignature, At
<1>2. PICK d \in Calls : d = calls[s] /\ GoodCall(d)
  BY <1>1, ServedIs
<1>3. d.action \in DOMAIN actions /\ d.left \in Seq(STRING) /\ d.action \in Int
  BY <1>1, <1>2, CallFields DEF GoodCall
<1>4. CASE UNCHANGED signatures /\ \E code \in {500, 202} : Answer(s, code) /\ (code = 202 => d.left = << >>)
  <2>1. /\ Later /\ SamePerms /\ SameActions
        /\ TableType' /\ PastType' /\ ApiKeysType' /\ ClockType' /\ ActionsType' /\ KeyringHolds'
    BY <1>1, <1>4, ClockIs, TablesKept DEF TypeInv, ActionsType
  <2>2. PICK code \in {500, 202} : Answer(s, code) /\ (code = 202 => d.left = << >>)
    BY <1>4
  <2>3. PICK c \in Calls :
           /\ Becomes(s, c) /\ c.pc = "answered" /\ c.at = Never /\ c.code = code /\ c.verified = Never
           /\ code = 202 => c.action = calls[s].action
    BY <2>2, AnswerIs
  <2>4. GoodCall(c)'
    BY <1>2, <1>3, <2>1, <2>3, AnsweredIsGood
  <2>5. CallsType'
    BY <2>1, <2>3, <2>4, CallsStep
  <2>6. SameAdmission(s, c) /\ SignatureStep(s, c)
    BY <1>2, <1>4, <2>2, <2>3 DEF SameAdmission, SignatureStep, NotAccepted
  <2> QED
    BY <1>1, <2>1, <2>3, <2>5, <2>6 DEF TypeInv
<1> DEFINE key == Head(d.left)
           i == CHOOSE j \in ByFingerprint(key) : TRUE
<1>5. CASE /\ d.left # << >> /\ Verify(key, GetKeyring.keys)
           /\ signatures' = signatures \union {<<d.action, i>>}
           /\ Becomes(s, [d EXCEPT !.left = Tail(@)])
  <2>1. i \in ByFingerprint(key) /\ i \in Ids
    <3>1. Holder(key, clock - KeyringAge)
      BY <1>5, FreshKeyring DEF Verify
    <3> QED
      BY <3>1 DEF Holder, ByFingerprint
  <2> HIDE DEF i
  <2>2. Later /\ SamePerms
    BY <1>1, <1>5, ClockIs DEF Later, RowsLater, EndsLater, ActionsLater, SamePerms, Ids
  <2>3. TableType' /\ PastType' /\ ApiKeysType' /\ ClockType' /\ KeyringHolds'
    BY <1>1, <2>2, KeyringKept DEF TypeInv, TableType, PastType, ApiKeysType, Ids
  <2>4. ActionsType'
    BY <1>1, <1>3, <1>5, <2>1 DEF TypeInv, ActionsType, Ids
  <2>5. Tail(d.left) \in Seq(STRING)
    BY <1>3, <1>5, TailRange
  <2>6. PICK c : c = [d EXCEPT !.left = Tail(d.left)]
    OBVIOUS
  <2>7. /\ c \in Calls /\ c.pc = d.pc /\ c.at = d.at /\ c.who = d.who /\ c.action = d.action
        /\ c.request = d.request /\ c.code = d.code /\ c.verified = d.verified /\ c.left = Tail(d.left)
    BY <2>5, <2>6 DEF Calls
  <2>8. GoodCall(d)'
    BY <1>2, <2>2, GoodCallKept
  <2>9. GoodCall(c)'
    BY <2>7, <2>8 DEF GoodCall
  <2>10. Becomes(s, c)
    BY <1>5, <2>6
  <2>11. CallsType'
    BY <2>2, <2>7, <2>9, <2>10, CallsStep
  <2>12. SameAdmission(s, c) /\ SignatureStep(s, c)
    BY <1>1, <1>2, <1>5, <2>1, <2>7 DEF SameAdmission, SignatureStep
  <2> QED
    BY <1>1, <1>2, <2>2, <2>3, <2>4, <2>7, <2>10, <2>11, <2>12 DEF TypeInv
<1>6. \/ UNCHANGED signatures /\ Answer(s, 202) /\ d.left = << >>
      \/ UNCHANGED signatures /\ Answer(s, 500)
      \/ /\ d.left # << >> /\ Verify(key, GetKeyring.keys)
         /\ signatures' = signatures \union {<<d.action, i>>}
         /\ Becomes(s, [d EXCEPT !.left = Tail(@)])
  BY <1>2 DEF InsertSignature, SignatureFailed
<1> QED
  BY <1>4, <1>5, <1>6

--------------------------------------------------------------------------------
LEMMA TickKeeps ==
  ASSUME TypeInv, KeyringHolds, Tick
  PROVE  TypeInv' /\ KeyringHolds' /\ Later /\ SamePerms /\ SameActions /\ UNCHANGED calls
<1>1. /\ UNCHANGED <<investigators, keyring, calls, actions, signatures, ran, past>>
      /\ clock' \in Nat /\ clock' >= clock
  BY ClockIs DEF Tick
<1>2. /\ Later /\ SamePerms /\ SameActions
      /\ TableType' /\ PastType' /\ ApiKeysType' /\ ClockType' /\ ActionsType' /\ KeyringHolds'
  BY <1>1, TablesKept DEF TypeInv, ActionsType
<1> QED
  BY <1>1, <1>2, CallsKept DEF TypeInv

LEMMA CheckKeeps ==
  ASSUME TypeInv, KeyringHolds, NEW aid \in DOMAIN actions, CheckActionAuthorization(aid)
  PROVE  TypeInv' /\ KeyringHolds' /\ Later /\ SamePerms /\ SameActions /\ UNCHANGED calls
<1>1. /\ UNCHANGED <<investigators, keyring, calls, actions, signatures, clock, past>>
      /\ ran' \subseteq DOMAIN actions
  BY DEF CheckActionAuthorization, TypeInv, ActionsType
<1>2. /\ Later /\ SamePerms /\ SameActions
      /\ TableType' /\ PastType' /\ ApiKeysType' /\ ClockType' /\ ActionsType' /\ KeyringHolds'
  BY <1>1, ClockIs, TablesKept
<1> QED
  BY <1>1, <1>2, CallsKept DEF TypeInv

(* Nothing changes but the number of requests: an idle step of the invariants.    *)
LEMMA StutterKeeps ==
  ASSUME TypeInv, KeyringHolds, UNCHANGED avars
  PROVE  TypeInv' /\ KeyringHolds' /\ Later /\ SamePerms /\ SameActions /\ UNCHANGED calls
<1>1. UNCHANGED <<investigators, keyring, calls, actions, signatures, ran, clock, past>>
  BY DEF avars
<1>2. /\ Later /\ SamePerms /\ SameActions
      /\ TableType' /\ PastType' /\ ApiKeysType' /\ ClockType' /\ ActionsType' /\ KeyringHolds'
  BY <1>1, ClockIs, TablesKept DEF TypeInv, ActionsType
<1> QED
  BY <1>1, <1>2, CallsKept DEF TypeInv

IdleStep == Tick \/ (\E aid \in DOMAIN actions : CheckActionAuthorization(aid)) \/ UNCHANGED avars
PlainStep(s) ==
  ReadSteps(s) \/ CreateInvestigator(s) \/ UpdateInvestigatorStatus(s) \/ UpdateInvestigatorAPIKey(s)

LEMMA IdleKeeps ==
  ASSUME TypeInv, KeyringHolds, IdleStep
  PROVE  TypeInv' /\ KeyringHolds' /\ Later /\ SamePerms /\ SameActions /\ UNCHANGED calls
BY TickKeeps, CheckKeeps, StutterKeeps DEF IdleStep

LEMMA PlainKeeps ==
  ASSUME TypeInv, KeyringHolds, NEW s \in Slots, PlainStep(s)
  PROVE  TypeInv' /\ KeyringHolds' /\ Later /\ SamePerms /\ SameActions /\ Plain(s)
BY ReadsKeep, CreateInvestigatorKeeps, UpdateStatusKeeps, UpdateAPIKeyKeeps DEF PlainStep

(* The steps, as the invariants tell them apart.                                  *)
LEMMA StepsAre ==
  ASSUME [AccessNext]_avars
  PROVE  \/ IdleStep
         \/ \E s \in Slots : \/ PlainStep(s)
                             \/ \E q \in Requests : Authenticate(s, q)
                             \/ CountAdmins(s) \/ UpdateInvestigatorPerms(s)
                             \/ CreateAction(s) \/ InsertAction(s) \/ InsertSignature(s)
BY DEF AccessNext, IdleStep, PlainStep, ReadSteps

LEMMA InitTypes == AccessInit => TypeInv /\ KeyringHolds
<1> SUFFICES ASSUME AccessInit PROVE TypeInv /\ KeyringHolds
  OBVIOUS
<1>1. TableType
  BY FirstRowsAreRows DEF AccessInit, TableType
<1>2. PastType /\ past.ended = << >>
  BY DEF AccessInit, PastType, Never
<1>3. Len(past.ended) = 0
  BY <1>2
<1>4. ApiKeysType
  BY <1>2, <1>3, FirstRowsAreRows DEF AccessInit, ApiKeysType, Ids
<1>5. ClockType /\ KeyringHolds
  BY DEF AccessInit, ClockType, KeyringHolds, Never
<1>6. ActionsType
  BY DEF AccessInit, ActionsType
<1>7. CallsType
  <2>1. Free \in Calls /\ Free.pc = "answered" /\ Free.at = Never /\ Free.verified = Never /\ Free.code = 0
    BY FreeIsCall DEF Free, Answered
  <2>2. clock = 0 /\ calls = [s \in Slots |-> Free]
    BY DEF AccessInit
  <2> QED
    BY <2>1, <2>2 DEF CallsType, GoodCall, Never
<1> QED
  BY <1>1, <1>2, <1>4, <1>5, <1>6, <1>7 DEF TypeInv

LEMMA NextTypes == TypeInv /\ KeyringHolds /\ [AccessNext]_avars => TypeInv' /\ KeyringHolds' /\ Later
<1> SUFFICES ASSUME TypeInv, KeyringHolds, [AccessNext]_avars PROVE TypeInv' /\ KeyringHolds' /\ Later
  OBVIOUS
<1> QED
  BY StepsAre, IdleKeeps, PlainKeeps, AuthenticateKeeps, CountAdminsKeeps, UpdatePermsKeeps,
     CreateActionKeeps, InsertActionKeeps, InsertSignatureKeeps

LEMMA Types == AccessSpec => [](TypeInv /\ KeyringHolds)
BY InitTypes, NextTypes, PTL DEF AccessSpec

LEMMA BitsArePermissions == \A mask : FromMask(mask) \subseteq Permissions
BY DEF FromMask, Bits, Permissions, DefaultSet, ManifestSet, LoaderSet, AdminSet

(* The type invariant: rows hold a status, permissions that exist and an API key   *)
(* that was handed out; signatures are of stored actions by rows of the table.     *)
THEOREM TypeCorrect == AccessSpec => []TypeOK
<1>1. TypeInv => TypeOK
  BY RowFields, BitsArePermissions DEF TypeInv, TypeOK, ApiKeysType, ClockType, ActionsType
<1> QED
  BY <1>1, Types, PTL

--------------------------------------------------------------------------------
(* Signatures stay those of known keys, whoever is disabled later.                *)
LEMMA CallVerifiedKept ==
  ASSUME TypeInv, Later, NEW c \in Calls, GoodCall(c), CallVerified(c)
  PROVE  CallVerified(c)'
<1> SUFFICES ASSUME c.pc = "insert", NEW key \in Range(c.request.body.sigs)
             PROVE  Holder(key, c.verified - KeyringAge)'
  BY DEF CallVerified
<1>1. Holder(key, c.verified - KeyringAge)
  BY DEF CallVerified
<1>2. c.verified - KeyringAge \in Int /\ c.verified - KeyringAge <= clock
  BY CallFields, ClockIs, AccessBounds DEF GoodCall
<1> QED
  BY <1>1, <1>2, HolderKept

LEMMA RowVerifiedKept ==
  ASSUME TypeInv, Later, NEW row, row.at \in Int, RowVerified(row)
  PROVE  RowVerified(row)'
<1>1. row.at <= clock' /\ row.at - KeyringAge \in Int /\ row.at - KeyringAge <= clock
  BY ClockIs, AccessBounds DEF RowVerified, Later
<1>2. ASSUME NEW key \in Range(row.sigs) PROVE Holder(key, row.at - KeyringAge)'
  BY <1>1, HolderKept DEF RowVerified
<1> QED
  BY <1>1, <1>2 DEF RowVerified

LEMMA ActionFields ==
  ASSUME TypeInv, NEW aid \in DOMAIN actions
  PROVE  actions[aid].at \in Int /\ actions[aid].sigs \in Seq(STRING)
<1>1. actions[aid] \in ActionRows
  BY ElementOfSeq, LenProperties DEF TypeInv, ActionsType
<1>2. PICK q \in Creations, at \in Int : actions[aid] = Stored(q, at)
  BY <1>1 DEF ActionRows
<1>3. q.body.sigs \in Seq(STRING)
  BY RequestsAreWellFormed DEF Creations
<1>4. actions[aid].at = at /\ actions[aid].sigs = q.body.sigs
  BY <1>2 DEF Stored
<1> QED
  BY <1>2, <1>3, <1>4

LEMMA VerifiedKept ==
  ASSUME TypeInv, VerifiedHolds, Later,
         \/ UNCHANGED actions
         \/ \E n, row : DOMAIN actions' = DOMAIN actions \union {n} /\ actions'[n] = row /\ RowVerified(row)',
         \/ UNCHANGED calls
         \/ \E s \in Slots, c \in Calls : Becomes(s, c) /\ CallVerified(c)'
  PROVE  VerifiedHolds'
<1>1. \A t \in Slots : calls[t] \in Calls /\ GoodCall(calls[t]) /\ CallVerified(calls[t])
  BY DEF TypeInv, CallsType, VerifiedHolds
<1>2. ASSUME NEW t \in Slots, calls'[t] = calls[t] PROVE CallVerified(calls[t])'
  <2>1. PICK d \in Calls : d = calls[t] /\ GoodCall(d) /\ CallVerified(d)
    BY <1>1
  <2>2. CallVerified(d)'
    BY <2>1, CallVerifiedKept
  <2> QED
    BY <1>2, <2>1, <2>2 DEF CallVerified
<1>3. \A t \in Slots : CallVerified(calls[t])'
  <2>1. CASE UNCHANGED calls
    BY <1>2, <2>1
  <2>2. CASE \E s \in Slots, c \in Calls : Becomes(s, c) /\ CallVerified(c)'
    <3>1. PICK s \in Slots, c \in Calls : Becomes(s, c) /\ CallVerified(c)'
      BY <2>2
    <3>2. calls'[s] = c /\ \A t \in Slots \ {s} : calls'[t] = calls[t]
      BY <3>1, BecomesIs DEF TypeInv, CallsType
    <3>3. CallVerified(calls[s])'
      BY <3>1, <3>2 DEF CallVerified
    <3> QED
      BY <1>2, <3>2, <3>3
  <2> QED
    BY <2>1, <2>2
<1>4. ASSUME NEW aid \in DOMAIN actions PROVE actions'[aid] = actions[aid] /\ RowVerified(actions[aid])'
  <2>1. PICK row : row = actions[aid] /\ row.at \in Int /\ RowVerified(row)
    BY ActionFields DEF VerifiedHolds
  <2>2. RowVerified(row)'
    BY <2>1, RowVerifiedKept
  <2>3. actions'[aid] = row
    BY <2>1 DEF Later, ActionsLater
  <2> QED
    BY <2>1, <2>2, <2>3 DEF RowVerified
<1>5. ASSUME NEW aid \in DOMAIN actions' PROVE RowVerified(actions[aid])'
  <2>1. CASE aid \in DOMAIN actions
    BY <1>4, <2>1
  <2>2. CASE aid \notin DOMAIN actions
    <3>1. PICK row : actions'[aid] = row /\ RowVerified(row)'
      BY <1>5, <2>2
    <3> QED
      BY <3>1 DEF RowVerified
  <2> QED
    BY <2>1, <2>2
<1> QED
  BY <1>3, <1>5 DEF VerifiedHolds

LEMMA NextVerified ==
  ASSUME TypeInv, KeyringHolds, VerifiedHolds, [AccessNext]_avars
  PROVE  VerifiedHolds'
<1>1. CASE IdleStep
  BY <1>1, IdleKeeps, VerifiedKept DEF SameActions
<1>2. ASSUME NEW s \in Slots, PlainStep(s)
      PROVE  VerifiedHolds'
  <2>1. Later /\ UNCHANGED actions /\ Plain(s)
    BY <1>2, PlainKeeps DEF SameActions
  <2>2. \E c \in Calls : Becomes(s, c) /\ CallVerified(c)'
    BY <2>1 DEF Plain, CallVerified
  <2> QED
    BY <2>1, <2>2, VerifiedKept
<1>3. ASSUME NEW s \in Slots, NEW q \in Requests, Authenticate(s, q)
      PROVE  VerifiedHolds'
  <2>1. Later /\ UNCHANGED actions /\ \E c \in Calls : Becomes(s, c) /\ c.pc # "insert"
    BY <1>3, AuthenticateKeeps DEF SameActions
  <2>2. \E c \in Calls : Becomes(s, c) /\ CallVerified(c)'
    BY <2>1 DEF CallVerified
  <2> QED
    BY <2>1, <2>2, VerifiedKept
<1>4. ASSUME NEW s \in Slots, CountAdmins(s) \/ UpdateInvestigatorPerms(s)
      PROVE  VerifiedHolds'
  <2>1. Later /\ UNCHANGED actions /\ \E c \in Calls : Becomes(s, c) /\ c.pc # "insert"
    BY <1>4, CountAdminsKeeps, UpdatePermsKeeps DEF SameActions, Plain
  <2>2. \E c \in Calls : Becomes(s, c) /\ CallVerified(c)'
    BY <2>1 DEF CallVerified
  <2> QED
    BY <2>1, <2>2, VerifiedKept
<1>5. ASSUME NEW s \in Slots, CreateAction(s)
      PROVE  VerifiedHolds'
  <2>1. Later /\ UNCHANGED actions
    BY <1>5, CreateActionKeeps DEF SameActions
  <2>2. PICK c \in Calls :
          /\ Becomes(s, c)
          /\ c.pc = "insert" =>
               /\ c.verified = clock
               /\ \A key \in Range(c.request.body.sigs) : Holder(key, clock - KeyringAge)
    BY <1>5, CreateActionKeeps
  <2>3. ASSUME c.pc = "insert", NEW key \in Range(c.request.body.sigs)
        PROVE  Holder(key, c.verified - KeyringAge)'
    <3>1. Holder(key, c.verified - KeyringAge)
      BY <2>2, <2>3
    <3>2. c.verified - KeyringAge \in Int /\ c.verified - KeyringAge <= clock
      BY <2>2, <2>3, ClockIs, AccessBounds
    <3> QED
      BY <2>1, <3>1, <3>2, HolderKept
  <2>4. CallVerified(c)'
    BY <2>3 DEF CallVerified
  <2> QED
    BY <2>1, <2>2, <2>4, VerifiedKept
<1>6. ASSUME NEW s \in Slots, InsertAction(s)
      PROVE  VerifiedHolds'
  <2> DEFINE n == Len(actions) + 1
  <2>1. /\ Later /\ calls[s].pc = "insert"
        /\ DOMAIN actions' = DOMAIN actions \union {n}
        /\ actions'[n].sigs = calls[s].request.body.sigs /\ actions'[n].at = calls[s].verified
        /\ \E c \in Calls : Becomes(s, c) /\ c.pc = "sign"
    BY <1>6, InsertActionKeeps DEF Request
  <2>2. PICK d \in Calls : d = calls[s] /\ GoodCall(d) /\ CallVerified(d)
    BY DEF TypeInv, CallsType, VerifiedHolds
  <2>3. PICK row : row = actions'[n]
    OBVIOUS
  <2>4. row.at \in Int /\ RowVerified(row)
    BY <2>1, <2>2, <2>3, CallFields DEF RowVerified, CallVerified, GoodCall
  <2>5. RowVerified(row)'
    BY <2>1, <2>4, RowVerifiedKept
  <2>6. \E c \in Calls : Becomes(s, c) /\ CallVerified(c)'
    BY <2>1 DEF CallVerified
  <2> QED
    BY <2>1, <2>3, <2>5, <2>6, VerifiedKept
<1>7. ASSUME NEW s \in Slots, InsertSignature(s)
      PROVE  VerifiedHolds'
  <2>1. Later /\ UNCHANGED actions /\ \E c \in Calls : Becomes(s, c) /\ c.pc # "insert"
    BY <1>7, InsertSignatureKeeps
  <2>2. \E c \in Calls : Becomes(s, c) /\ CallVerified(c)'
    BY <2>1 DEF CallVerified
  <2> QED
    BY <2>1, <2>2, VerifiedKept
<1> QED
  BY <1>1, <1>2, <1>3, <1>4, <1>5, <1>6, <1>7, StepsAre

LEMMA InitVerified == AccessInit => VerifiedHolds
BY DEF AccessInit, VerifiedHolds, CallVerified, Free, Answered

LEMMA AlwaysVerified == AccessSpec => []VerifiedHolds
<1>1. TypeInv /\ KeyringHolds /\ VerifiedHolds /\ [AccessNext]_avars => VerifiedHolds'
  BY NextVerified
<1> QED
  BY InitVerified, Types, <1>1, PTL DEF AccessSpec

(* Those who signed an action that an agent runs have rows in the table, and none   *)
(* of them had been disabled for more than KeyringAge when it was created.          *)
THEOREM SignersKnown == AccessSpec => []SignersAreKnown
<1>1. TypeInv /\ VerifiedHolds => SignersAreKnown
  <2> SUFFICES ASSUME TypeInv, VerifiedHolds, NEW aid \in ran, NEW key \in Range(actions[aid].sigs)
               PROVE  \E i \in ByFingerprint(key) :
                        investigators[i].status = "disabled" => actions[aid].at - past.disabled[i] <= KeyringAge
    BY DEF SignersAreKnown
  <2>1. aid \in DOMAIN actions /\ actions[aid].at \in Int
    BY ActionFields DEF TypeInv, ActionsType
  <2>2. PICK i \in ByFingerprint(key) :
          investigators[i].status = "disabled" => actions[aid].at - KeyringAge <= past.disabled[i]
    BY <2>1 DEF VerifiedHolds, RowVerified, Holder
  <2>3. past.disabled[i] \in Int
    BY RowFields DEF ByFingerprint
  <2> QED
    BY <2>1, <2>2, <2>3, AccessBounds
<1> QED
  BY <1>1, Types, AlwaysVerified, PTL

--------------------------------------------------------------------------------
(* Weights. A sum is a function of the subsets of a finite set that satisfies the  *)
(* equation of the library's folds; it exists, and has its elements in any order.   *)

(* A sum over the subsets of S that takes the elements one by one, in the order ch. *)
SumsUp(S, w, ch, g) ==
  \A T \in SUBSET S : g[T] = IF T = {} THEN 0 ELSE w[ch[T]] + g[T \ {ch[T]}]

(* ... and one whose elements can be taken in any order.                          *)
AnyOrder(S, w, g) == g[{}] = 0 /\ \A T \in SUBSET S : \A x \in T : g[T] = w[x] + g[T \ {x}]

LEMMA LeastOf ==
  ASSUME NEW S \in SUBSET Nat, S # {}
  PROVE  \E m \in S : \A n \in S : m <= n
<1>1. IsWellFoundedOn(OpToRel(<, Nat), Nat)
  BY NatLessThanWellFounded
<1>2. PICK m \in S : \A n \in S : ~ (<<n, m>> \in OpToRel(<, Nat))
  BY <1>1, WFMin
<1>3. \A n \in S : m <= n
  <2> SUFFICES ASSUME NEW n \in S PROVE m <= n
    OBVIOUS
  <2>1. ~ (n < m)
    BY <1>2 DEF OpToRel
  <2> QED
    BY <2>1
<1> QED
  BY <1>3

LEMMA SumExists ==
  ASSUME NEW S, IsFiniteSet(S), NEW w \in [S -> Int],
         NEW ch, \A T \in SUBSET S : T # {} => ch[T] \in T
  PROVE  \E g \in [SUBSET S -> Int] : SumsUp(S, w, ch, g)
<1> DEFINE Small(n) == {T \in SUBSET S : Cardinality(T) <= n}
           Up(n, g) == \A T \in Small(n) : g[T] = IF T = {} THEN 0 ELSE w[ch[T]] + g[T \ {ch[T]}]
           Bad == {n \in Nat : ~ \E g \in [Small(n) -> Int] : Up(n, g)}
<1>1. \A T \in SUBSET S : IsFiniteSet(T) /\ Cardinality(T) \in Nat
  BY FS_Subset, FS_CardinalityType
<1>2. \A T \in SUBSET S : T # {} => T \ {ch[T]} \in SUBSET S /\ Cardinality(T \ {ch[T]}) = Cardinality(T) - 1
                                      /\ Cardinality(T) # 0
  BY <1>1, FS_RemoveElement, FS_EmptySet
<1>3. Bad = {}
  <2> SUFFICES ASSUME Bad # {} PROVE FALSE
    OBVIOUS
  <2>1. PICK m \in Bad : \A n \in Bad : m <= n
    <3>1. Bad \in SUBSET Nat
      OBVIOUS
    <3> HIDE DEF Bad
    <3> QED
      BY <3>1, LeastOf
  <2> m \in Nat
    BY <2>1
  <2>2. CASE m = 0
    <3>1. \A T \in Small(0) : T = {}
      <4> SUFFICES ASSUME NEW T \in SUBSET S, Cardinality(T) <= 0, T # {} PROVE FALSE
        OBVIOUS
      <4>1. Cardinality(T) \in Nat /\ Cardinality(T) # 0
        BY <1>1, <1>2
      <4> QED
        BY <4>1
    <3>2. [T \in Small(0) |-> 0] \in [Small(0) -> Int] /\ Up(0, [T \in Small(0) |-> 0])
      BY <3>1
    <3> QED
      BY <2>1, <2>2, <3>2
  <2>3. CASE m # 0
    <3>1. m - 1 \in Nat /\ m - 1 \notin Bad
      <4> HIDE DEF Bad
      <4>1. m - 1 \in Nat /\ ~(m <= m - 1)
        BY <2>3
      <4> QED
        BY <2>1, <4>1
    <3>2. PICK g \in [Small(m - 1) -> Int] : Up(m - 1, g)
      BY <3>1
    <3> DEFINE h == [T \in Small(m) |-> IF T = {} THEN 0 ELSE w[ch[T]] + g[T \ {ch[T]}]]
    <3>3. \A T \in Small(m) : T # {} => ch[T] \in S /\ w[ch[T]] \in Int /\ T \ {ch[T]} \in Small(m - 1)
      <4> SUFFICES ASSUME NEW T \in Small(m), T # {}
                   PROVE  ch[T] \in S /\ w[ch[T]] \in Int /\ T \ {ch[T]} \in Small(m - 1)
        OBVIOUS
      <4>1. ch[T] \in S
        OBVIOUS
      <4>2. Cardinality(T) \in Nat /\ m \in Nat
        BY <1>1, <2>1
      <4> QED
        BY <1>2, <4>1, <4>2
    <3>4. h \in [Small(m) -> Int]
      BY <3>3
    <3>5. \A T \in Small(m - 1) : T \in Small(m) /\ h[T] = g[T]
      <4>1. \A T \in Small(m - 1) : T \in Small(m)
        BY <1>1, <2>1
      <4> QED
        BY <3>2, <4>1
    <3>6. Up(m, h)
      <4> SUFFICES ASSUME NEW T \in Small(m)
                   PROVE  h[T] = IF T = {} THEN 0 ELSE w[ch[T]] + h[T \ {ch[T]}]
        OBVIOUS
      <4> QED
        BY <3>3, <3>5
    <3> QED
      BY <2>1, <3>4, <3>6
  <2> QED
    BY <2>2, <2>3
<1>4. Cardinality(S) \in Nat /\ Small(Cardinality(S)) = SUBSET S
  BY <1>1, FS_Subset
<1> QED
  BY <1>3, <1>4 DEF SumsUp

(* Whatever the order, any element can be taken first.                          *)
LEMMA SumOf ==
  ASSUME NEW S, IsFiniteSet(S), NEW w \in [S -> Int],
         NEW ch, \A T \in SUBSET S : T # {} => ch[T] \in T
  PROVE  \E g \in [SUBSET S -> Int] : SumsUp(S, w, ch, g) /\ AnyOrder(S, w, g)
<1>0. PICK g \in [SUBSET S -> Int] : SumsUp(S, w, ch, g)
  BY SumExists
<1> DEFINE Good(T) == \A x \in T : g[T] = w[x] + g[T \ {x}]
           Bad == {n \in Nat : \E T \in SUBSET S : Cardinality(T) = n /\ ~Good(T)}
<1>1. \A T \in SUBSET S : IsFiniteSet(T) /\ Cardinality(T) \in Nat
  BY FS_Subset, FS_CardinalityType
<1>2. \A T \in SUBSET S : \A x \in T : T \ {x} \in SUBSET S /\ Cardinality(T \ {x}) = Cardinality(T) - 1
  BY <1>1, FS_RemoveElement
<1>3. Bad = {}
  <2> SUFFICES ASSUME Bad # {} PROVE FALSE
    OBVIOUS
  <2>1. PICK m \in Bad : \A n \in Bad : m <= n
    <3>1. Bad \in SUBSET Nat
      OBVIOUS
    <3> HIDE DEF Bad
    <3> QED
      BY <3>1, LeastOf
  <2>2. PICK T \in SUBSET S : Cardinality(T) = m /\ ~Good(T)
    BY <2>1
  <2>3. PICK x \in T : g[T] # w[x] + g[T \ {x}]
    BY <2>2
  <2>4. \A U \in SUBSET S : Cardinality(U) = m - 1 => Good(U)
    <3> SUFFICES ASSUME NEW U \in SUBSET S, Cardinality(U) = m - 1, ~Good(U) PROVE FALSE
      OBVIOUS
    <3>1. m - 1 \in Bad
      BY <1>1
    <3> QED
      BY <2>1, <3>1
  <2>5. PICK y \in T : y = ch[T] /\ g[T] = w[y] + g[T \ {y}]
    BY <1>0, <2>3 DEF SumsUp
  <2>6. x # y
    BY <2>3, <2>5
  <2>7. Good(T \ {y}) /\ Good(T \ {x}) /\ T \ {x} \in SUBSET S /\ T \ {y} \in SUBSET S
    BY <1>2, <2>2, <2>4
  <2>8. (T \ {y}) \ {x} = (T \ {x}) \ {y} /\ (T \ {y}) \ {x} \in SUBSET S
    OBVIOUS
  <2>9. g[T \ {y}] = w[x] + g[(T \ {y}) \ {x}] /\ g[T \ {x}] = w[y] + g[(T \ {x}) \ {y}]
    BY <2>6, <2>7
  <2>10. w[x] \in Int /\ w[y] \in Int /\ g[(T \ {y}) \ {x}] \in Int
    BY <2>8
  <2> HIDE DEF Good, Bad
  <2>11. ASSUME NEW i \in Int, NEW j \in Int, NEW k \in Int PROVE i + (j + k) = j + (i + k)
    OBVIOUS
  <2>12. g[T] = w[y] + (w[x] + g[(T \ {y}) \ {x}])
    BY <2>5, <2>9
  <2>13. w[x] + g[T \ {x}] = w[x] + (w[y] + g[(T \ {y}) \ {x}])
    BY <2>8, <2>9
  <2> QED
    BY <2>3, <2>10, <2>11, <2>12, <2>13
<1>4. g[{}] = 0
  BY <1>0 DEF SumsUp
<1>5. \A T \in SUBSET S : Good(T)
  BY <1>1, <1>3
<1>6. AnyOrder(S, w, g)
  BY <1>4, <1>5 DEF AnyOrder
<1> QED
  BY <1>0, <1>6

(* Two functions that agree wherever they agree on one element less are equal.    *)
AgreeStep(S, ch, g, h) ==
  /\ \A T \in SUBSET S : T # {} => ch[T] \in T
  /\ g[{}] = h[{}]
  /\ \A T \in SUBSET S : T # {} /\ g[T \ {ch[T]}] = h[T \ {ch[T]}] => g[T] = h[T]

LEMMA SameRecursion ==
  ASSUME NEW S, IsFiniteSet(S), NEW ch, NEW g, NEW h, AgreeStep(S, ch, g, h)
  PROVE  g[S] = h[S]
<1> DEFINE Bad == {n \in Nat : \E T \in SUBSET S : Cardinality(T) = n /\ g[T] # h[T]}
<1>1. \A T \in SUBSET S : IsFiniteSet(T) /\ Cardinality(T) \in Nat
  BY FS_Subset, FS_CardinalityType
<1>2. \A T \in SUBSET S : \A x \in T : T \ {x} \in SUBSET S /\ Cardinality(T \ {x}) = Cardinality(T) - 1
  BY <1>1, FS_RemoveElement
<1>3. Bad = {}
  <2> SUFFICES ASSUME Bad # {} PROVE FALSE
    OBVIOUS
  <2>1. PICK m \in Bad : \A n \in Bad : m <= n
    <3>1. Bad \in SUBSET Nat
      OBVIOUS
    <3> HIDE DEF Bad
    <3> QED
      BY <3>1, LeastOf
  <2>2. PICK T \in SUBSET S : Cardinality(T) = m /\ g[T] # h[T]
    BY <2>1
  <2>3. PICK x \in T : x = ch[T] /\ g[T \ {x}] # h[T \ {x}]
    BY <2>2 DEF AgreeStep
  <2>4. Cardinality(T \ {x}) = m - 1 /\ T \ {x} \in SUBSET S
    BY <1>2, <2>2
  <2>5. m - 1 \in Nat /\ m \in Nat
    BY <1>1, <2>2, <2>4
  <2>6. m - 1 \in Bad /\ ~(m <= m - 1)
    BY <2>3, <2>4, <2>5
  <2> HIDE DEF Bad
  <2> QED
    BY <2>1, <2>6
<1>4. S \in SUBSET S /\ Cardinality(S) \in Nat
  BY <1>1
<1> QED
  BY <1>3, <1>4

LEMMA MaxIn ==
  ASSUME NEW n \in Nat, NEW T \in SUBSET (1..n), T # {}
  PROVE  Max(T) \in T
<1> DEFINE Above == {k \in Nat : \A t \in T : t <= k}
<1>1. n \in Above
  OBVIOUS
<1>2. PICK m \in Above : \A k \in Above : m <= k
  <2> HIDE DEF Above
  <2>1. Above \in SUBSET Nat
    BY DEF Above
  <2> QED
    BY <1>1, <2>1, LeastOf
<1>3. m \in T
  <2> SUFFICES ASSUME m \notin T PROVE FALSE
    OBVIOUS
  <2>1. m \in Nat /\ \A t \in T : t \in 1..n /\ t <= m
    BY <1>2
  <2>2. PICK t \in T : TRUE
    OBVIOUS
  <2>3. m - 1 \in Nat /\ \A u \in T : u <= m - 1
    BY <2>1, <2>2
  <2> QED
    BY <1>2, <2>1, <2>3
<1>4. \E x \in T : \A y \in T : x >= y
  BY <1>2, <1>3
<1> QED
  BY <1>4 DEF Max

(* The weight of a set of keys, as the property sums it up, can be summed up in any *)
(* order, ...                                                                     *)
KeysWeight(entry, S) == MapThenSumSet(LAMBDA key : Weight(entry, key), S)

LEMMA KeysWeightIs ==
  ASSUME NEW S, IsFiniteSet(S), NEW entry, \A key : Weight(entry, key) \in Int
  PROVE  \E g : /\ AnyOrder(S, [key \in S |-> Weight(entry, key)], g)
                /\ KeysWeight(entry, S) = g[S]
<1> DEFINE w == [key \in S |-> Weight(entry, key)]
           ch == [T \in SUBSET S |-> CHOOSE x \in T : TRUE]
           G(g) == [T \in SUBSET S |-> IF T = {} THEN 0 ELSE Weight(entry, CHOOSE x \in T : TRUE) + g[T \ {CHOOSE x \in T : TRUE}]]
           iter == CHOOSE g : g = G(g)
<1>0. IsFiniteSet(S)
  OBVIOUS
<1>1. \A T \in SUBSET S : T # {} => ch[T] \in T
  OBVIOUS
<1>2. w \in [S -> Int]
  OBVIOUS
<1>3. PICK g \in [SUBSET S -> Int] : SumsUp(S, w, ch, g) /\ AnyOrder(S, w, g)
  BY <1>0, <1>1, <1>2, SumOf
<1>4. g = G(g)
  BY <1>3, <1>1 DEF SumsUp
<1>5. iter = G(iter) /\ iter = [T \in SUBSET S |-> iter[T]]
  <2>1. iter = G(iter)
    BY <1>4
  <2> HIDE DEF iter
  <2> QED
    BY <2>1
<1>6. KeysWeight(entry, S) = iter[S]
  BY DEF KeysWeight, MapThenSumSet, MapThenFoldSet
<1> HIDE DEF iter
<1>7. ASSUME NEW T \in SUBSET S, T # {}, g[T \ {ch[T]}] = iter[T \ {ch[T]}]
      PROVE  g[T] = iter[T]
  <2>1. g[T] = G(g)[T] /\ iter[T] = G(iter)[T]
    BY <1>4, <1>5
  <2> QED
    BY <1>7, <2>1
<1>8. g[{}] = iter[{}]
  <2>1. g[{}] = G(g)[{}] /\ iter[{}] = G(iter)[{}]
    BY <1>4, <1>5
  <2> QED
    BY <2>1
<1>9. g[S] = iter[S]
  <2> HIDE DEF ch, G
  <2>1. AgreeStep(S, ch, g, iter)
    BY <1>1, <1>7, <1>8 DEF AgreeStep
  <2> QED
    BY <1>0, <2>1, SameRecursion
<1> QED
  BY <1>3, <1>6, <1>9

(* ... and so can that of a list of signatures, as VerifyPermission does.            *)
LEMMA WeightOfIs ==
  ASSUME NEW sigs \in Seq(STRING), NEW entry, \A key : Weight(entry, key) \in Int
  PROVE  \E g : /\ AnyOrder(DOMAIN sigs, [i \in DOMAIN sigs |-> Weight(entry, sigs[i])], g)
                /\ WeightOf(entry, sigs) = g[DOMAIN sigs]
<1> DEFINE S == DOMAIN sigs
           w == [i \in S |-> Weight(entry, sigs[i])]
           ch == [T \in SUBSET S |-> Max(T)]
           G(g) == [T \in SUBSET S |-> IF T = {} THEN 0 ELSE g[T \ {Max(T)}] + Weight(entry, sigs[Max(T)])]
           iter == CHOOSE g : g = G(g)
<1>0. Len(sigs) \in Nat /\ S = 1..Len(sigs) /\ IsFiniteSet(S)
  BY LenProperties, FS_Interval
<1>1. \A T \in SUBSET S : T # {} => Max(T) \in T /\ ch[T] = Max(T)
  BY <1>0, MaxIn
<1>2. w \in [S -> Int]
  OBVIOUS
<1>3. PICK g \in [SUBSET S -> Int] : SumsUp(S, w, ch, g) /\ AnyOrder(S, w, g)
  <2> HIDE DEF w, ch, S
  <2>1. \A T \in SUBSET S : T # {} => ch[T] \in T
    BY <1>1
  <2> QED
    BY <1>0, <2>1, <1>2, SumOf
<1>4. g = G(g)
  <2>1. ASSUME NEW T \in SUBSET S, T # {} PROVE g[T] = g[T \ {Max(T)}] + Weight(entry, sigs[Max(T)])
    <3>1. g[T] = w[Max(T)] + g[T \ {Max(T)}] /\ w[Max(T)] = Weight(entry, sigs[Max(T)])
      BY <1>1, <1>3, <2>1 DEF SumsUp
    <3>2. Weight(entry, sigs[Max(T)]) \in Int /\ g[T \ {Max(T)}] \in Int
      OBVIOUS
    <3> QED
      BY <3>1, <3>2
  <2>2. g[{}] = 0
    BY <1>3 DEF SumsUp
  <2> QED
    BY <2>1, <2>2
<1>5. iter = G(iter) /\ iter = [T \in SUBSET S |-> iter[T]]
  <2>1. iter = G(iter)
    BY <1>4
  <2> HIDE DEF iter
  <2> QED
    BY <2>1
<1>6. WeightOf(entry, sigs) = iter[S]
  BY DEF WeightOf, FoldLeft, MapThenFoldSet
<1> HIDE DEF iter
<1>7. ASSUME NEW T \in SUBSET S, T # {}, g[T \ {ch[T]}] = iter[T \ {ch[T]}]
      PROVE  g[T] = iter[T]
  <2>1. g[T] = G(g)[T] /\ iter[T] = G(iter)[T]
    BY <1>4, <1>5
  <2> QED
    BY <1>7, <2>1
<1>8. g[{}] = iter[{}]
  <2>1. g[{}] = G(g)[{}] /\ iter[{}] = G(iter)[{}]
    BY <1>4, <1>5
  <2> QED
    BY <2>1
<1>9. g[S] = iter[S]
  <2> HIDE DEF ch, G
  <2>1. AgreeStep(S, ch, g, iter)
    BY <1>1, <1>7, <1>8 DEF AgreeStep
  <2> HIDE DEF S
  <2> QED
    BY <1>0, <2>1, SameRecursion
<1> QED
  BY <1>3, <1>6, <1>9

(* A sum over the first n numbers and one over what q numbers.                     *)
LEMMA SumsAgree ==
  ASSUME NEW n \in Nat, NEW q, \A i, j \in 1..n : q[i] = q[j] => i = j,
         NEW R, R = {q[i] : i \in 1..n}, NEW u, NEW w, \A i \in 1..n : u[i] = w[q[i]],
         NEW h, AnyOrder(1..n, u, h), NEW g, AnyOrder(R, w, g)
  PROVE  h[1..n] = g[R]
<1> DEFINE Keys(k) == {q[i] : i \in 1..k}
           Bad == {k \in 0..n : h[1..k] # g[Keys(k)]}
<1>1. Bad = {}
  <2> SUFFICES ASSUME Bad # {} PROVE FALSE
    OBVIOUS
  <2>1. PICK m \in Bad : \A k \in Bad : m <= k
    <3>1. Bad \in SUBSET Nat
      OBVIOUS
    <3> HIDE DEF Bad
    <3> QED
      BY <3>1, LeastOf
  <2>2. m \in 0..n /\ h[1..m] # g[Keys(m)]
    OBVIOUS
  <2>3. m # 0
    <3> SUFFICES ASSUME m = 0 PROVE FALSE
      OBVIOUS
    <3>1. 1..m = {} /\ Keys(m) = {}
      OBVIOUS
    <3> QED
      BY <2>2, <3>1 DEF AnyOrder
  <2>4. m \in 1..n /\ m - 1 \in 0..n /\ ~(m <= m - 1)
    BY <2>2, <2>3
  <2>5. h[1..(m - 1)] = g[Keys(m - 1)]
    BY <2>1, <2>4
  <2>6. (1..m) \ {m} = 1..(m - 1) /\ m \in 1..m /\ 1..m \in SUBSET (1..n)
    BY <2>4
  <2>7. Keys(m) \ {q[m]} = Keys(m - 1) /\ q[m] \in Keys(m) /\ Keys(m) \in SUBSET R
    <3>1. \A i \in 1..(m - 1) : i \in 1..n /\ q[i] # q[m]
      BY <2>4
    <3>2. \A i \in 1..m : i = m \/ i \in 1..(m - 1)
      BY <2>6
    <3>3. \A i \in 1..(m - 1) : i \in 1..m
      BY <2>6
    <3>4. \A i \in 1..m : q[i] \in R
      BY <2>6
    <3> QED
      BY <2>6, <3>1, <3>2, <3>3, <3>4
  <2> DEFINE K == Keys(m)
             P == Keys(m - 1)
             D == 1..m
             C == 1..(m - 1)
  <2>8. h[D] = u[m] + h[C]
    <3>1. D \in SUBSET (1..n) /\ m \in D /\ D \ {m} = C
      BY <2>6
    <3> HIDE DEF C, D, Keys, Bad
    <3> QED
      BY <3>1 DEF AnyOrder
  <2>9. g[K] = w[q[m]] + g[P]
    <3>1. K \in SUBSET R /\ q[m] \in K /\ K \ {q[m]} = P
      BY <2>7
    <3> HIDE DEF K, P, Keys, Bad
    <3> QED
      BY <3>1 DEF AnyOrder
  <2>10. u[m] = w[q[m]] /\ h[C] = g[P] /\ h[D] # g[K]
    BY <2>2, <2>4, <2>5
  <2> HIDE DEF K, P, C, D, Keys, Bad
  <2> QED
    BY <2>8, <2>9, <2>10
<1>2. n \in 0..n
  OBVIOUS
<1> QED
  BY <1>1, <1>2

(* Keys that signed once each: the weight that is summed up over the signatures   *)
(* is that of the set of keys.                                                    *)
LEMMA WeightIsOfKeys ==
  ASSUME NEW sigs \in Seq(STRING), IsInjective(sigs), NEW entry, \A key : Weight(entry, key) \in Int
  PROVE  WeightOf(entry, sigs) = KeysWeight(entry, Range(sigs))
<1>1. /\ Len(sigs) \in Nat /\ DOMAIN sigs = 1..Len(sigs) /\ IsFiniteSet(1..Len(sigs))
      /\ Range(sigs) = {sigs[i] : i \in 1..Len(sigs)}
  BY LenProperties, FS_Interval, RangeEquality
<1>2. PICK n \in Nat : n = Len(sigs)
  BY <1>1
<1>3. PICK R : R = Range(sigs)
  OBVIOUS
<1>4. IsFiniteSet(R)
  <2>1. [i \in 1..n |-> sigs[i]] \in Surjection(1..n, R)
    BY <1>1, <1>2, <1>3 DEF Surjection
  <2> QED
    BY <1>1, <1>2, <2>1, FS_Surjection
<1>5. PICK h : AnyOrder(1..n, [i \in 1..n |-> Weight(entry, sigs[i])], h) /\ WeightOf(entry, sigs) = h[1..n]
  BY <1>1, <1>2, WeightOfIs
<1>6. PICK g : /\ AnyOrder(R, [key \in R |-> Weight(entry, key)], g)
               /\ KeysWeight(entry, R) = g[R]
  BY <1>4, KeysWeightIs
<1>7. h[1..n] = g[R]
  <2>1. PICK u : u = [i \in 1..n |-> Weight(entry, sigs[i])]
    OBVIOUS
  <2>2. PICK w : w = [key \in R |-> Weight(entry, key)]
    OBVIOUS
  <2>3. R = {sigs[i] : i \in 1..n} /\ \A i, j \in 1..n : sigs[i] = sigs[j] => i = j
    BY <1>1, <1>2, <1>3 DEF IsInjective
  <2>4. \A i \in 1..n : u[i] = w[sigs[i]]
    BY <2>1, <2>2, <2>3
  <2>5. AnyOrder(1..n, u, h) /\ AnyOrder(R, w, g)
    BY <1>5, <1>6, <2>1, <2>2
  <2> QED
    BY <2>3, <2>4, <2>5, SumsAgree
<1> QED
  BY <1>3, <1>5, <1>6, <1>7

(* An operation that is permitted has the weight that the ACL asks for.            *)
LEMMA PermittedHasWeight ==
  ASSUME NEW module, NEW sigs \in Seq(STRING), VerifyPermission(module, sigs)
  PROVE  KeysWeight(AclFor(module), Range(sigs)) >= AclFor(module).min
<1>1. PICK m \in DOMAIN Acl : AclFor(module) = Acl[m]
  BY DEF VerifyPermission, AclFor
<1>2. \A key : Weight(Acl[m], key) \in Int
  BY WeightsAreIntegers DEF Weight
<1>3. WeightOf(AclFor(module), sigs) = KeysWeight(AclFor(module), Range(sigs))
  BY <1>1, <1>2, WeightIsOfKeys DEF VerifyPermission
<1> QED
  BY <1>3 DEF VerifyPermission

LEMMA RanOrNot ==
  ASSUME [AccessNext]_avars
  PROVE  ran' = ran \/ \E aid \in DOMAIN actions : CheckActionAuthorization(aid)
<1>1. ASSUME NEW s \in Slots, NEW q \in Requests, Authenticate(s, q) PROVE ran' = ran
  BY <1>1 DEF Authenticate
<1>2. ASSUME NEW s \in Slots,
             Permit(s) \/ GetAction(s) \/ GetCommand(s) \/ GetAgent(s) \/ GetDashboard(s) \/ GetInvestigator(s)
      PROVE  ran' = ran
  BY <1>2 DEF Permit, GetAction, GetCommand, GetAgent, GetDashboard, GetInvestigator
<1>3. ASSUME NEW s \in Slots,
             \/ CreateInvestigator(s) \/ UpdateInvestigatorStatus(s) \/ CountAdmins(s)
             \/ UpdateInvestigatorPerms(s) \/ UpdateInvestigatorAPIKey(s)
      PROVE  ran' = ran
  BY <1>3 DEF CreateInvestigator, UpdateInvestigatorStatus, CountAdmins, UpdateInvestigatorPerms,
              UpdateInvestigatorAPIKey
<1>4. ASSUME NEW s \in Slots, CreateAction(s) \/ InsertAction(s) \/ InsertSignature(s) PROVE ran' = ran
  BY <1>4 DEF CreateAction, InsertAction, InsertSignature
<1>5. Tick \/ UNCHANGED avars => ran' = ran
  BY DEF Tick, avars
<1> QED
  BY <1>1, <1>2, <1>3, <1>4, <1>5 DEF AccessNext

LEMMA NextRun ==
  ASSUME TypeInv, KeyringHolds, RunVerified, [AccessNext]_avars
  PROVE  RunVerified'
<1>1. ran \subseteq DOMAIN actions /\ \A aid \in DOMAIN actions : actions'[aid] = actions[aid]
  BY NextTypes DEF TypeInv, ActionsType, Later, ActionsLater
<1>2. CASE ran' = ran
  BY <1>1, <1>2 DEF RunVerified, VerifyPermission
<1>3. ASSUME NEW aid \in DOMAIN actions, CheckActionAuthorization(aid) PROVE RunVerified'
  <2>1. ran' = ran \union {aid} /\ VerifyACL(actions[aid])
    BY <1>3 DEF CheckActionAuthorization
  <2> QED
    BY <1>1, <2>1 DEF RunVerified, VerifyPermission, VerifyACL
<1> QED
  BY <1>2, <1>3, RanOrNot

LEMMA AlwaysRun == AccessSpec => []RunVerified
<1>1. AccessInit => RunVerified
  BY DEF AccessInit, RunVerified
<1>2. TypeInv /\ KeyringHolds /\ RunVerified /\ [AccessNext]_avars => RunVerified'
  BY NextRun
<1> QED
  BY <1>1, <1>2, Types, PTL DEF AccessSpec

(* An action that an agent runs is authorised: its signers are known, and the keys  *)
(* that signed it have together, each counted once, the weight that the ACL asks     *)
(* for, for each of its operations (VerifyACL).                                     *)
THEOREM RunAuthorised == AccessSpec => []RunIsAuthorised
<1>1. TypeInv /\ RunVerified /\ SignersAreKnown => RunIsAuthorised
  <2> SUFFICES ASSUME TypeInv, RunVerified, ~OnlyVerifyPubKey, NEW aid \in ran,
                      NEW k \in DOMAIN actions[aid].ops
               PROVE  KeysWeight(AclFor(actions[aid].ops[k]), Range(actions[aid].sigs))
                        >= AclFor(actions[aid].ops[k]).min
    BY DEF RunIsAuthorised, KeysWeight
  <2>1. VerifyPermission(actions[aid].ops[k], actions[aid].sigs)
    BY DEF RunVerified
  <2>2. actions[aid].sigs \in Seq(STRING)
    BY ActionFields DEF TypeInv, ActionsType
  <2> QED
    BY <2>1, <2>2, PermittedHasWeight
<1> QED
  BY <1>1, Types, AlwaysRun, SignersKnown, PTL

--------------------------------------------------------------------------------
(* Who was let in with a credential was so in time, whatever ends later.           *)
LEMMA AdmittedOnceKept ==
  ASSUME TypeInv, Later, NEW c \in Calls, GoodCall(c), c.at # Never, AdmittedOnce(c)
  PROVE  AdmittedOnce(c)'
<1> DEFINE cred == c.request.cred
           slack == IF cred.kind = "token" THEN KeyringAge ELSE 0
<1>1. c.who \in Ids /\ c.at \in Int /\ c.at <= clock /\ clock \in Nat /\ slack \in Nat
  BY ClockIs, AccessBounds DEF GoodCall
<1>2. investigators'[c.who].status = "disabled" => c.at - past'.disabled[c.who] <= slack
  <2> HIDE DEF slack
  <2>1. investigators[c.who].status = "disabled" => c.at - past.disabled[c.who] <= slack
    BY DEF AdmittedOnce, slack
  <2>2. investigators'[c.who].status = "disabled" =>
          \/ investigators[c.who].status = "disabled" /\ past'.disabled[c.who] = past.disabled[c.who]
          \/ past'.disabled[c.who] = clock
    BY <1>1 DEF Later, RowsLater
  <2> QED
    BY <1>1, <2>1, <2>2
<1>3. cred.kind = "apikey" =>
        cred.key \in DOMAIN past'.ended /\ (past'.ended[cred.key] # Never => c.at <= past'.ended[cred.key])
  BY <1>1 DEF AdmittedOnce, Later, EndsLater
<1> QED
  BY <1>2, <1>3 DEF AdmittedOnce

LEMMA AdmittedKept ==
  ASSUME TypeInv, AdmittedHolds, Later,
         \/ UNCHANGED calls
         \/ \E s \in Slots, c \in Calls :
              Becomes(s, c) /\ (SameAdmission(s, c) \/ (c.at # Never => AdmittedOnce(c)'))
  PROVE  AdmittedHolds'
<1>1. \A t \in Slots : calls[t] \in Calls /\ GoodCall(calls[t]) /\ (calls[t].at # Never => AdmittedOnce(calls[t]))
  BY DEF TypeInv, CallsType, AdmittedHolds
<1>2. ASSUME NEW t \in Slots, calls'[t] = calls[t], calls'[t].at # Never PROVE AdmittedOnce(calls[t])'
  <2>1. PICK d \in Calls : d = calls[t] /\ GoodCall(d) /\ AdmittedOnce(d) /\ d.at # Never
    BY <1>1, <1>2
  <2>2. AdmittedOnce(d)'
    BY <2>1, AdmittedOnceKept
  <2> QED
    BY <1>2, <2>1, <2>2 DEF AdmittedOnce
<1>3. CASE UNCHANGED calls
  BY <1>2, <1>3 DEF AdmittedHolds
<1>4. ASSUME NEW s \in Slots, NEW c \in Calls, Becomes(s, c),
             SameAdmission(s, c) \/ (c.at # Never => AdmittedOnce(c)')
      PROVE  AdmittedHolds'
  <2>1. calls'[s] = c /\ \A t \in Slots \ {s} : calls'[t] = calls[t]
    BY <1>4, BecomesIs DEF TypeInv, CallsType
  <2>2. ASSUME c.at # Never PROVE AdmittedOnce(c)'
    <3>1. CASE SameAdmission(s, c)
      <4>1. PICK d \in Calls : d = calls[s] /\ GoodCall(d) /\ (d.at # Never => AdmittedOnce(d))
        BY <1>1
      <4>2. d.at # Never /\ d.at = c.at /\ d.who = c.who /\ d.request = c.request
        BY <2>2, <3>1, <4>1 DEF SameAdmission
      <4>3. AdmittedOnce(d)'
        BY <4>1, <4>2, AdmittedOnceKept
      <4> QED
        BY <4>2, <4>3 DEF AdmittedOnce
    <3> QED
      BY <1>4, <2>2, <3>1
  <2>3. calls'[s].at # Never => AdmittedOnce(calls[s])'
    BY <2>1, <2>2 DEF AdmittedOnce
  <2> QED
    BY <1>2, <2>1, <2>3 DEF AdmittedHolds
<1> QED
  BY <1>3, <1>4

LEMMA NextAdmitted ==
  ASSUME TypeInv, KeyringHolds, AdmittedHolds, [AccessNext]_avars
  PROVE  AdmittedHolds'
<1>1. CASE IdleStep
  BY <1>1, IdleKeeps, AdmittedKept
<1>2. ASSUME NEW s \in Slots, PlainStep(s) \/ CountAdmins(s) \/ UpdateInvestigatorPerms(s)
                              \/ CreateAction(s) \/ InsertAction(s) \/ InsertSignature(s)
      PROVE  AdmittedHolds'
  <2>1. Later /\ \E c \in Calls : Becomes(s, c) /\ SameAdmission(s, c)
    BY <1>2, PlainKeeps, CountAdminsKeeps, UpdatePermsKeeps, CreateActionKeeps, InsertActionKeeps,
       InsertSignatureKeeps DEF Plain
  <2> QED
    BY <2>1, AdmittedKept
<1>3. ASSUME NEW s \in Slots, NEW q \in Requests, Authenticate(s, q)
      PROVE  AdmittedHolds'
  <2>1. Later
    BY <1>3, AuthenticateKeeps
  <2>2. PICK c \in Calls : Becomes(s, c) /\ (c.at # Never => AdmittedOnce(c))
    BY <1>3, AuthenticateKeeps
  <2>3. UNCHANGED <<investigators, past>>
    BY <1>3 DEF Authenticate
  <2>4. c.at # Never => AdmittedOnce(c)'
    BY <2>2, <2>3 DEF AdmittedOnce
  <2> QED
    BY <2>1, <2>2, <2>4, AdmittedKept
<1> QED
  BY <1>1, <1>2, <1>3, StepsAre

LEMMA InitAdmitted == AccessInit => AdmittedHolds
BY DEF AccessInit, AdmittedHolds, Free, Answered

LEMMA AlwaysAdmitted == AccessSpec => []AdmittedHolds
<1>1. TypeInv /\ KeyringHolds /\ AdmittedHolds /\ [AccessNext]_avars => AdmittedHolds'
  BY NextAdmitted
<1> QED
  BY InitAdmitted, Types, <1>1, PTL DEF AccessSpec

(* Nobody is let in with a token more than KeyringAge after the investigator was    *)
(* disabled, nor with an API key after it was replaced, removed or its owner        *)
(* disabled.                                                                        *)
THEOREM CredentialsStop == AccessSpec => []CredentialsEnd
<1>1. AdmittedHolds => CredentialsEnd
  BY DEF AdmittedHolds, AdmittedOnce, CredentialsEnd, Admitted, Request
<1> QED
  BY <1>1, AlwaysAdmitted, PTL

--------------------------------------------------------------------------------
(* The signatures of a created action are in the table, or still to be inserted.    *)
LEMMA SignedKept ==
  ASSUME Later, NEW aid, NEW key, Signed(aid, key)
  PROVE  Signed(aid, key)'
<1>1. PICK i \in ByFingerprint(key) : <<aid, i>> \in signatures
  BY DEF Signed
<1>2. i \in Ids' /\ investigators'[i].key = key /\ <<aid, i>> \in signatures'
  BY <1>1 DEF ByFingerprint, Later, RowsLater, ActionsLater
<1> QED
  BY <1>2 DEF Signed, ByFingerprint

LEMMA AcceptingKept ==
  ASSUME TypeInv, Later, NEW c \in Calls, GoodCall(c), Accepting(c)
  PROVE  Accepting(c)'
<1> SUFFICES ASSUME c.pc = "sign" \/ (c.pc = "answered" /\ c.code = 202),
                    NEW key \in Range(actions'[c.action].sigs)
             PROVE  Signed(c.action, key)' \/ (c.pc = "sign" /\ key \in Range(c.left))
  BY DEF Accepting
<1>1. c.action \in DOMAIN actions /\ actions'[c.action] = actions[c.action]
  BY DEF GoodCall, Later, ActionsLater
<1>2. Signed(c.action, key) \/ (c.pc = "sign" /\ key \in Range(c.left))
  BY <1>1 DEF Accepting
<1> QED
  BY <1>2, SignedKept

LEMMA AcceptedKept ==
  ASSUME TypeInv, AcceptedHolds, Later,
         \/ UNCHANGED calls
         \/ \E s \in Slots, c \in Calls : Becomes(s, c) /\ Accepting(c)'
  PROVE  AcceptedHolds'
<1>1. ASSUME NEW t \in Slots, calls'[t] = calls[t] PROVE Accepting(calls[t])'
  <2>1. PICK d \in Calls : d = calls[t] /\ GoodCall(d) /\ Accepting(d)
    BY DEF TypeInv, CallsType, AcceptedHolds
  <2>2. Accepting(d)'
    BY <2>1, AcceptingKept
  <2> QED
    BY <1>1, <2>1, <2>2 DEF Accepting
<1>2. CASE UNCHANGED calls
  BY <1>1, <1>2 DEF AcceptedHolds
<1>3. ASSUME NEW s \in Slots, NEW c \in Calls, Becomes(s, c), Accepting(c)'
      PROVE  AcceptedHolds'
  <2>1. calls'[s] = c /\ \A t \in Slots \ {s} : calls'[t] = calls[t]
    BY <1>3, BecomesIs DEF TypeInv, CallsType
  <2>2. Accepting(calls[s])'
    BY <1>3, <2>1 DEF Accepting
  <2> QED
    BY <1>1, <2>1, <2>2 DEF AcceptedHolds
<1> QED
  BY <1>2, <1>3

LEMMA SignatureAccepting ==
  ASSUME TypeInv, KeyringHolds, AcceptedHolds, NEW s \in Slots, InsertSignature(s)
  PROVE  \E c \in Calls : Becomes(s, c) /\ Accepting(c)'
<1>1. Later /\ UNCHANGED <<actions, investigators>> /\ calls[s].pc = "sign"
  BY InsertSignatureKeeps
<1>2. PICK c \in Calls : Becomes(s, c) /\ SignatureStep(s, c)
  BY InsertSignatureKeeps
<1>3. PICK d \in Calls : d = calls[s] /\ GoodCall(d) /\ Accepting(d)
  BY DEF TypeInv, CallsType, AcceptedHolds
<1>4. \A key \in Range(actions'[d.action].sigs) : Signed(d.action, key)' \/ key \in Range(d.left)
  <2>1. Accepting(d)'
    BY <1>1, <1>3, AcceptingKept
  <2> QED
    BY <1>1, <1>3, <2>1 DEF Accepting
<1>5. CASE NotAccepted(c)
  BY <1>2, <1>5 DEF Accepting, NotAccepted
<1>6. CASE c.pc = "answered" /\ c.action = d.action /\ d.left = << >>
  <2>1. Range(d.left) = {}
    BY <1>6 DEF Range
  <2>2. Accepting(c)'
    BY <1>4, <1>6, <2>1 DEF Accepting
  <2> QED
    BY <1>2, <2>2
<1>7. CASE /\ c.pc = "sign" /\ c.action = d.action /\ d.left # << >> /\ c.left = Tail(d.left)
           /\ \E i \in ByFingerprint(Head(d.left)) : <<c.action, i>> \in signatures'
  <2>1. Range(d.left) = {Head(d.left)} \union Range(c.left)
    BY <1>7, TailRange, CallFields
  <2>2. ASSUME NEW key, key = Head(d.left) PROVE Signed(c.action, key)'
    <3>1. PICK i \in ByFingerprint(key) : <<c.action, i>> \in signatures'
      BY <1>7, <2>2
    <3> QED
      BY <1>1, <3>1 DEF Signed, ByFingerprint, Ids
  <2>3. ASSUME NEW key \in Range(actions'[c.action].sigs)
        PROVE  Signed(c.action, key)' \/ key \in Range(c.left)
    <3>1. Signed(c.action, key)' \/ key = Head(d.left) \/ key \in Range(c.left)
      BY <1>4, <1>7, <2>1, <2>3 DEF Signed
    <3> QED
      BY <2>2, <3>1
  <2>4. Accepting(c)'
    BY <1>7, <2>3 DEF Accepting
  <2> QED
    BY <1>2, <2>4
<1> QED
  BY <1>2, <1>3, <1>5, <1>6, <1>7 DEF SignatureStep

LEMMA NextAccepted ==
  ASSUME TypeInv, KeyringHolds, AcceptedHolds, [AccessNext]_avars
  PROVE  AcceptedHolds'
<1>1. CASE IdleStep
  BY <1>1, IdleKeeps, AcceptedKept
<1>2. ASSUME NEW s \in Slots, \/ PlainStep(s) \/ (\E q \in Requests : Authenticate(s, q))
                              \/ CountAdmins(s) \/ UpdateInvestigatorPerms(s) \/ CreateAction(s)
      PROVE  AcceptedHolds'
  <2>1. Later /\ \E c \in Calls : Becomes(s, c) /\ NotAccepted(c)
    BY <1>2, PlainKeeps, AuthenticateKeeps, CountAdminsKeeps, UpdatePermsKeeps, CreateActionKeeps DEF Plain
  <2>2. \E c \in Calls : Becomes(s, c) /\ Accepting(c)'
    BY <2>1 DEF Accepting, NotAccepted
  <2> QED
    BY <2>1, <2>2, AcceptedKept
<1>3. ASSUME NEW s \in Slots, InsertAction(s)
      PROVE  AcceptedHolds'
  <2>1. /\ Later /\ actions'[Len(actions) + 1].sigs = Request(s).body.sigs
        /\ \E c \in Calls : /\ Becomes(s, c) /\ c.pc = "sign" /\ c.action = Len(actions) + 1
                            /\ c.left = Request(s).body.sigs
    BY <1>3, InsertActionKeeps
  <2>2. \E c \in Calls : Becomes(s, c) /\ Accepting(c)'
    BY <2>1 DEF Accepting
  <2> QED
    BY <2>1, <2>2, AcceptedKept
<1>4. ASSUME NEW s \in Slots, InsertSignature(s)
      PROVE  AcceptedHolds'
  BY <1>4, InsertSignatureKeeps, SignatureAccepting, AcceptedKept
<1> QED
  BY <1>1, <1>2, <1>3, <1>4, StepsAre

LEMMA InitAccepted == AccessInit => AcceptedHolds
BY DEF AccessInit, AcceptedHolds, Accepting, Free, Answered

LEMMA AlwaysAccepted == AccessSpec => []AcceptedHolds
<1>1. TypeInv /\ KeyringHolds /\ AcceptedHolds /\ [AccessNext]_avars => AcceptedHolds'
  BY NextAccepted
<1> QED
  BY InitAccepted, Types, <1>1, PTL DEF AccessSpec

(* An action whose creation is accepted has a row for each of its signatures, by     *)
(* an investigator with the key of the signature.                                    *)
THEOREM AcceptedComplete == AccessSpec => []AcceptedIsComplete
<1>1. AcceptedHolds => AcceptedIsComplete
  BY DEF AcceptedHolds, Accepting, AcceptedIsComplete, Signed, At, Range
<1> QED
  BY <1>1, AlwaysAccepted, PTL

--------------------------------------------------------------------------------
(* Permissions that let their holder update investigators are administrative.     *)
LEMMA MaskAdministrates ==
  ASSUME NEW perms, Administrates(perms)
  PROVE  IsAdmin(ToMask(perms))
<1> DEFINE bit(p) == IF p \in perms THEN Bits[p] ELSE 0
           default == bit("search") + bit("action") + bit("action_create") + bit("command")
                      + bit("agent") + bit("dashboard")
           loader == bit("loader") + bit("loader_status") + bit("loader_expect") + bit("loader_key")
                     + bit("loader_new")
           manifest == bit("manifest") + bit("manifest_sign") + bit("manifest_new")
                       + bit("manifest_status") + bit("manifest_loaders")
           admin == bit("investigator") + bit("investigator_create") + bit("investigator_update")
           low == default + loader + manifest
           high == IF "investigator_create" \in perms THEN 1 ELSE 0
<1>0. ToMask(perms) = default + loader + manifest + admin
  BY DEF ToMask
<1>1. low \in Nat /\ low <= 65535
  <2>1. default \in Nat /\ default <= 63
    BY DEF Bits
  <2>2. loader \in Nat /\ loader <= 1984
    BY DEF Bits
  <2>3. manifest \in Nat /\ manifest <= 63488
    BY DEF Bits
  <2> HIDE DEF default, loader, manifest
  <2> QED
    BY <2>1, <2>2, <2>3
<1>2. ToMask(perms) = low + (327680 + 131072 * high)
  <2>1. admin = 327680 + 131072 * high
    BY DEF Bits, Administrates
  <2> HIDE DEF default, loader, manifest, admin
  <2> QED
    BY <1>0, <2>1
<1> HIDE DEF low
<1>3. high \in {0, 1}
  OBVIOUS
<1>4. (ToMask(perms) \div 65536) % 2 = 1
  <2>1. CASE high = 0
    <3>1. ToMask(perms) = 327680 + low
      BY <1>1, <1>2, <2>1
    <3>2. ToMask(perms) \div 65536 = 5
      BY <1>1, <3>1
    <3> QED
      BY <3>2
  <2>2. CASE high = 1
    <3>1. ToMask(perms) = 458752 + low
      BY <1>1, <1>2, <2>2
    <3>2. ToMask(perms) \div 65536 = 7
      BY <1>1, <3>1
    <3> QED
      BY <3>2
  <2> QED
    BY <1>3, <2>1, <2>2
<1>5. "investigator" \in DOMAIN Bits /\ Bits["investigator"] = 65536
  BY DEF Bits
<1>6. "investigator" \in FromMask(ToMask(perms))
  BY <1>4, <1>5 DEF FromMask
<1> QED
  BY <1>6 DEF IsAdmin, AdminSet

(* While no two requests overlap, who writes permissions is alone, and leaves an    *)
(* administrator.                                                                   *)
AdminExists == \E i \in Ids : IsAdmin(investigators[i].perms)
WriterIsAlone == \A s, t \in Slots : calls[s].pc = "write" /\ calls[t].pc = "write" => s = t
LeavesAdmin(c) ==
  c.pc = "write" => Administrates(c.request.body.perms) \/ OtherAdmin(c.request.body.id)

LEMMA AdminHoldsIs ==
  AdminHolds <=> (~past.overlap => AdminExists /\ WriterIsAlone /\ \A s \in Slots : LeavesAdmin(calls[s]))
BY DEF AdminHolds, AdminExists, WriterIsAlone, LeavesAdmin

LEMMA AdminsKept ==
  ASSUME \A i \in Ids : i \in Ids' /\ investigators'[i].perms = investigators[i].perms
  PROVE  /\ AdminExists => AdminExists'
         /\ \A id : OtherAdmin(id) => OtherAdmin(id)'
         /\ \A c : LeavesAdmin(c) => LeavesAdmin(c)'
<1>1. \A i \in Ids : IsAdmin(investigators[i].perms) => i \in Ids' /\ IsAdmin(investigators'[i].perms)
  OBVIOUS
<1>2. AdminExists => AdminExists'
  BY <1>1 DEF AdminExists
<1>3. \A id : OtherAdmin(id) => OtherAdmin(id)'
  BY <1>1 DEF OtherAdmin
<1>4. \A c : LeavesAdmin(c) => LeavesAdmin(c)'
  BY <1>3 DEF LeavesAdmin
<1> QED
  BY <1>2, <1>3, <1>4

(* Steps that do not write permissions.                                             *)
LEMMA AdminKept ==
  ASSUME TypeInv, AdminHolds, past.overlap => past'.overlap,
         \A i \in Ids : i \in Ids' /\ investigators'[i].perms = investigators[i].perms,
         \/ UNCHANGED calls
         \/ \E s \in Slots, c \in Calls :
              /\ Becomes(s, c) /\ LeavesAdmin(c)
              /\ c.pc = "write" => past'.overlap \/ \A t \in Slots \ {s} : calls[t].pc # "write"
  PROVE  AdminHolds'
<1> SUFFICES ASSUME ~past'.overlap
             PROVE  AdminExists' /\ WriterIsAlone' /\ \A t \in Slots : LeavesAdmin(calls[t])'
  BY AdminHoldsIs DEF AdminHolds, AdminExists, WriterIsAlone, LeavesAdmin
<1>1. AdminExists /\ WriterIsAlone /\ \A t \in Slots : LeavesAdmin(calls[t])
  BY AdminHoldsIs
<1>2. AdminExists' /\ \A c : LeavesAdmin(c) => LeavesAdmin(c)'
  BY <1>1, AdminsKept
<1>3. ASSUME NEW t \in Slots, NEW c, c = calls'[t], LeavesAdmin(c) PROVE LeavesAdmin(calls[t])'
  <2>1. LeavesAdmin(c)'
    BY <1>2, <1>3
  <2> QED
    BY <1>3, <2>1 DEF LeavesAdmin
<1>4. CASE UNCHANGED calls
  <2>1. ASSUME NEW t \in Slots PROVE LeavesAdmin(calls[t])'
    <3>1. PICK c : c = calls[t]
      OBVIOUS
    <3>2. c = calls'[t] /\ LeavesAdmin(c)
      BY <1>1, <1>4, <3>1
    <3> QED
      BY <1>3, <3>2
  <2> QED
    BY <1>1, <1>2, <1>4, <2>1 DEF WriterIsAlone
<1>5. ASSUME NEW s \in Slots, NEW c \in Calls, Becomes(s, c), LeavesAdmin(c),
             c.pc = "write" => \A t \in Slots \ {s} : calls[t].pc # "write"
      PROVE  WriterIsAlone' /\ \A t \in Slots : LeavesAdmin(calls[t])'
  <2>1. calls'[s] = c /\ \A t \in Slots \ {s} : calls'[t] = calls[t]
    BY <1>5, BecomesIs DEF TypeInv, CallsType
  <2>2. WriterIsAlone'
    BY <1>1, <1>5, <2>1 DEF WriterIsAlone
  <2>3. ASSUME NEW t \in Slots PROVE LeavesAdmin(calls[t])'
    <3>1. PICK d : d = calls'[t]
      OBVIOUS
    <3>2. LeavesAdmin(d)
      BY <1>1, <1>5, <2>1, <3>1
    <3> QED
      BY <1>3, <3>1, <3>2
  <2> QED
    BY <2>2, <2>3
<1> QED
  BY <1>2, <1>4, <1>5

(* The writer makes an administrator, or leaves the one that it has found.            *)
LEMMA WritingLeavesAdmin ==
  ASSUME TypeInv, KeyringHolds, AdminHolds, NEW s \in Slots, UpdateInvestigatorPerms(s)
  PROVE  AdminHolds'
<1>1. /\ Plain(s) /\ calls[s].pc = "write" /\ past'.overlap = past.overlap /\ Ids' = Ids
      /\ \A i \in Ids :
           investigators'[i].perms = IF i = Body(s).id THEN ToMask(Body(s).perms)
                                     ELSE investigators[i].perms
  BY UpdatePermsKeeps
<1> SUFFICES ASSUME ~past.overlap
             PROVE  AdminExists' /\ WriterIsAlone' /\ \A t \in Slots : LeavesAdmin(calls[t])'
  BY <1>1, AdminHoldsIs DEF AdminHolds, AdminExists, WriterIsAlone, LeavesAdmin
<1>2. AdminExists /\ WriterIsAlone /\ LeavesAdmin(calls[s])
  BY AdminHoldsIs
<1>3. \A t \in Slots : calls'[t].pc # "write"
  <2>1. PICK c \in Calls : Becomes(s, c) /\ c.pc # "write"
    BY <1>1 DEF Plain
  <2>2. calls'[s] = c /\ \A t \in Slots \ {s} : calls'[t] = calls[t]
    BY <2>1, BecomesIs DEF TypeInv, CallsType
  <2> QED
    BY <1>1, <1>2, <2>1, <2>2 DEF WriterIsAlone
<1>4. AdminExists'
  <2>1. CASE OtherAdmin(Body(s).id)
    <3>1. PICK j \in Ids \ {Body(s).id} : IsAdmin(investigators[j].perms)
      BY <2>1 DEF OtherAdmin
    <3>2. j \in Ids' /\ investigators'[j].perms = investigators[j].perms
      BY <1>1, <3>1
    <3> QED
      BY <3>1, <3>2 DEF AdminExists
  <2>2. CASE Administrates(Body(s).perms)
    <3>1. IsAdmin(ToMask(Body(s).perms))
      BY <2>2, MaskAdministrates
    <3>2. PICK j \in Ids : IsAdmin(investigators[j].perms)
      BY <1>2 DEF AdminExists
    <3>3. j \in Ids' /\ IsAdmin(investigators'[j].perms)
      BY <1>1, <3>1, <3>2
    <3> QED
      BY <3>3 DEF AdminExists
  <2> QED
    BY <1>1, <1>2, <2>1, <2>2 DEF LeavesAdmin, Body, Request
<1> QED
  BY <1>3, <1>4 DEF WriterIsAlone, LeavesAdmin

LEMMA NextAdmin ==
  ASSUME TypeInv, KeyringHolds, AdminHolds, [AccessNext]_avars
  PROVE  AdminHolds'
<1>1. CASE IdleStep
  BY <1>1, IdleKeeps, AdminKept DEF SamePerms
<1>2. ASSUME NEW s \in Slots, \/ PlainStep(s) \/ (\E q \in Requests : Authenticate(s, q))
                              \/ CreateAction(s) \/ InsertAction(s) \/ InsertSignature(s)
      PROVE  AdminHolds'
  <2>1. SamePerms /\ \E c \in Calls : Becomes(s, c) /\ c.pc # "write"
    BY <1>2, PlainKeeps, AuthenticateKeeps, CreateActionKeeps, InsertActionKeeps, InsertSignatureKeeps
       DEF Plain
  <2> QED
    BY <2>1, AdminKept DEF SamePerms, LeavesAdmin
<1>3. ASSUME NEW s \in Slots, CountAdmins(s)
      PROVE  AdminHolds'
  <2>1. /\ UNCHANGED investigators /\ (past.overlap => past'.overlap)
        /\ \E c \in Calls :
             /\ Becomes(s, c) /\ LeavesAdmin(c)
             /\ c.pc = "write" => past'.overlap \/ \A t \in Slots \ {s} : calls[t].pc # "write"
    BY <1>3, CountAdminsKeeps DEF LeavesAdmin
  <2>2. \A i \in Ids : i \in Ids' /\ investigators'[i].perms = investigators[i].perms
    BY <2>1 DEF Ids
  <2> QED
    BY <2>1, <2>2, AdminKept
<1>4. ASSUME NEW s \in Slots, UpdateInvestigatorPerms(s)
      PROVE  AdminHolds'
  BY <1>4, WritingLeavesAdmin
<1> QED
  BY <1>1, <1>2, <1>3, <1>4, StepsAre

(* If there is an administrator at the start, and no two requests change permissions   *)
(* at the same time, there is always one.                                             *)
THEOREM AdminStays ==
  (\E i \in DOMAIN FirstRows : IsAdmin(FirstRows[i].perms)) => (AccessSpec => []AdminRemains)
<1> SUFFICES ASSUME \E i \in DOMAIN FirstRows : IsAdmin(FirstRows[i].perms)
             PROVE  AccessSpec => []AdminRemains
  OBVIOUS
<1>1. AccessInit => AdminHolds
  BY DEF AccessInit, AdminHolds, Free, Answered, Ids
<1>2. TypeInv /\ KeyringHolds /\ AdminHolds /\ [AccessNext]_avars => AdminHolds'
  BY NextAdmin
<1>3. AccessSpec => []AdminHolds
  BY <1>1, <1>2, Types, PTL DEF AccessSpec
<1>4. TypeOK /\ AdminHolds => AdminRemains
  BY DEF AdminHolds, AdminRemains
<1> QED
  BY <1>3, <1>4, TypeCorrect, PTL
================================================================================
