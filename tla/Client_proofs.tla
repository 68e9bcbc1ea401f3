----------------------------- MODULE Client_proofs -----------------------------
(******************************************************************************)
(* Theorems about Client, for any programs, targets, macros, files, tables,      *)
(* periods and failures.                                                        *)
(******************************************************************************)
EXTENDS Client, SequenceTheorems, FiniteSetTheorems, TLAPS

--------------------------------------------------------------------------------
(* What the variables hold that actions are made and launched with.             *)
Flags == {"times", "signatures", "target", "compress"}
Histories == [shown : SUBSET Texts, blind : BOOLEAN, edited : BOOLEAN, loaded : BOOLEAN, failed : BOOLEAN]

TypeInv ==
  /\ program \in Programs /\ a \in Actions /\ has \subseteq Flags /\ seen \in Histories
  /\ {"actions", "signatures", "commands"} \subseteq DOMAIN db
  /\ now \in Nat /\ faults \in Nat

(* An action that is signed, by the user and as it is, and will not change when it  *)
(* is compressed.                                                               *)
Compressed(x) == \A i \in DOMAIN x.ops : x.ops[i].want => x.ops[i].compressed
OfMine(x) == \A i \in DOMAIN x.sigs : x.sigs[i].key = MyKey
Sealed(x) ==
  /\ x.sigs # << >> /\ OfMine(x) /\ Compressed(x)
  /\ \A i \in DOMAIN x.sigs : x.sigs[i].over = ActionString(x)

Shown(x, s) == x.target \in s.shown \/ s.blind

(* The launcher has an action x, what it has done with it, and its history.        *)
LauncherGood(x, h, s) ==
  /\ "target" \in h => Shown(x, s)
  /\ ~s.loaded =>
       /\ OfMine(x)
       /\ "times" \in h => x.from <= x.until /\ Zero <= x.until
       /\ "signatures" \notin h => x.sigs = << >>
       /\ "signatures" \in h => "times" \in h /\ (~s.edited => Sealed(x))

(* How far an action has come, in mig and in the console.                         *)
StartGood == pc = "start" => has = {} /\ ~seen.loaded
SignGood == pc = "sign" /\ ~seen.loaded => a.sigs = << >> /\ a.name # "" /\ a.from = Zero
MigGood ==
  pc \in {"evaluate", "countdown", "post"} /\ ~seen.loaded => Sealed(a) /\ a.name # "" /\ a.from <= a.until
TargetGood == pc \in {"countdown", "post"} => a.target \in seen.shown /\ a.target # ""
ConsoleGood ==
  /\ pc \in {"launcher", "launch"} => LauncherGood(a, has, seen)
  /\ pc = "launch" => a.name # "" /\ a.target # "" /\ Shown(a, seen)

Prepared == StartGood /\ SignGood /\ MigGood /\ TargetGood /\ ConsoleGood

--------------------------------------------------------------------------------
(* Actions.                                                                     *)
LEMMA ActionFields ==
  ASSUME NEW x \in Actions
  PROVE  /\ x.name \in Texts /\ x.target \in Texts /\ x.ops \in Seq(Operations) /\ x.nil \in BOOLEAN
         /\ x.from \in Int /\ x.until \in Int /\ x.sigs \in Seq([key : Texts, over : SignedParts])
         /\ ActionString(x) \in SignedParts
BY DEF Actions, ActionString, SignedParts

(* Compressing changes the operations only, and those only once.                  *)
LEMMA CompressIs ==
  ASSUME NEW x \in Actions
  PROVE  /\ CompressAction(x) \in Actions /\ Compressed(CompressAction(x))
         /\ CompressAction(x).name = x.name /\ CompressAction(x).target = x.target
         /\ CompressAction(x).nil = x.nil /\ CompressAction(x).sigs = x.sigs
         /\ CompressAction(x).from = x.from /\ CompressAction(x).until = x.until
         /\ Compressed(x) => CompressAction(x) = x
<1> DEFINE ops == [i \in DOMAIN x.ops |->
              IF x.ops[i].want /\ ~x.ops[i].compressed THEN CompressOperationParam(x.ops[i]) ELSE x.ops[i]]
<1>1. CompressAction(x) = [x EXCEPT !.ops = ops]
  BY DEF CompressAction
<1>2. x.ops \in Seq(Operations) /\ Len(x.ops) \in Nat /\ DOMAIN x.ops = 1..Len(x.ops)
  BY ActionFields, LenProperties
<1>3. \A i \in DOMAIN x.ops : x.ops[i] \in Operations
  BY <1>2, ElementOfSeq
<1>4. \A o \in Operations :
        CompressOperationParam(o) \in Operations /\ CompressOperationParam(o).compressed
  BY DEF Operations, CompressOperationParam
<1>5. \A i \in DOMAIN x.ops : ops[i] \in Operations /\ (ops[i].want => ops[i].compressed)
  BY <1>3, <1>4 DEF Operations
<1>6. ops \in Seq(Operations) /\ DOMAIN ops = DOMAIN x.ops
  <2>1. ops = [i \in DOMAIN x.ops |-> ops[i]] /\ DOMAIN ops = DOMAIN x.ops
    OBVIOUS
  <2> HIDE DEF ops
  <2>2. ops \in [DOMAIN x.ops -> Operations]
    BY <1>5, <2>1
  <2> QED
    BY <1>2, <2>1, <2>2, SeqDef
<1>7. Compressed(x) => ops = x.ops
  <2> SUFFICES ASSUME Compressed(x) PROVE ops = x.ops
    OBVIOUS
  <2>1. x.ops = [i \in DOMAIN x.ops |-> x.ops[i]]
    BY <1>2
  <2>2. \A i \in DOMAIN x.ops : ops[i] = x.ops[i]
    BY DEF Compressed
  <2> QED
    BY <2>1, <2>2
<1> HIDE DEF ops
<1>8. [x EXCEPT !.ops = ops] \in Actions /\ [x EXCEPT !.ops = ops].ops = ops
  BY <1>6 DEF Actions
<1>9. x.ops = ops => [x EXCEPT !.ops = ops] = x
  BY DEF Actions
<1>10. Compressed([x EXCEPT !.ops = ops])
  BY <1>5, <1>6, <1>8 DEF Compressed
<1>11. LET y == [x EXCEPT !.ops = ops] IN
         y.name = x.name /\ y.target = x.target /\ y.nil = x.nil /\ y.sigs = x.sigs /\ y.from = x.from /\ y.until = x.until
  BY DEF Actions
<1> QED
  BY <1>1, <1>7, <1>8, <1>9, <1>10, <1>11

(* Signing adds a signature of the user over the action as it is.                 *)
LEMMA SignIs ==
  ASSUME NEW x \in Actions
  PROVE  /\ SignAction(x) \in Actions /\ ActionString(SignAction(x)) = ActionString(x)
         /\ SignAction(x).name = x.name /\ SignAction(x).target = x.target
         /\ SignAction(x).ops = x.ops /\ SignAction(x).nil = x.nil
         /\ SignAction(x).from = x.from /\ SignAction(x).until = x.until
         /\ DOMAIN SignAction(x).sigs = 1..(Len(x.sigs) + 1) /\ Len(x.sigs) \in Nat
         /\ DOMAIN x.sigs = 1..Len(x.sigs)
         /\ \A i \in DOMAIN x.sigs : SignAction(x).sigs[i] = x.sigs[i]
         /\ SignAction(x).sigs[Len(x.sigs) + 1].key = MyKey
         /\ SignAction(x).sigs[Len(x.sigs) + 1].over = ActionString(x)
         /\ SignAction(x).sigs # << >>
<1> DEFINE sig == [key |-> MyKey, over |-> ActionString(x)]
           sigs == Append(x.sigs, sig)
<1>1. SignAction(x) = [x EXCEPT !.sigs = sigs]
  BY DEF SignAction
<1>2. sig \in [key : Texts, over : SignedParts] /\ x.sigs \in Seq([key : Texts, over : SignedParts])
  BY ActionFields, InputsAreWellFormed
<1>3. /\ sigs \in Seq([key : Texts, over : SignedParts]) /\ Len(sigs) = Len(x.sigs) + 1
      /\ \A i \in 1..Len(x.sigs) : sigs[i] = x.sigs[i]
      /\ sigs[Len(x.sigs) + 1] = sig
  <2> HIDE DEF sig
  <2> QED
    BY <1>2, AppendProperties
<1>4. Len(x.sigs) \in Nat /\ DOMAIN x.sigs = 1..Len(x.sigs) /\ DOMAIN sigs = 1..Len(sigs)
  BY <1>2, <1>3, LenProperties
<1>5. sigs # << >>
  BY <1>3, <1>4
<1>6. sig.key = MyKey /\ sig.over = ActionString(x)
  OBVIOUS
<1> HIDE DEF sigs, sig
<1>7. [x EXCEPT !.sigs = sigs] \in Actions /\ [x EXCEPT !.sigs = sigs].sigs = sigs
  BY <1>3 DEF Actions
<1> QED
  BY <1>1, <1>3, <1>4, <1>5, <1>6, <1>7 DEF Actions, ActionString

(* An action that had no signatures, or was sealed, is sealed by signing it.       *)
LEMMA SealedBySigning ==
  ASSUME NEW x \in Actions
  PROVE  LET y == SignAction(CompressAction(x)) IN
         /\ y \in Actions /\ y.name = x.name /\ y.target = x.target /\ y.nil = x.nil
         /\ y.from = x.from /\ y.until = x.until
         /\ \E i \in DOMAIN y.sigs : y.sigs[i].key = MyKey
         /\ OfMine(x) => OfMine(y)
         /\ x.sigs = << >> \/ Sealed(x) => Sealed(y)
<1> DEFINE z == CompressAction(x)
           y == SignAction(z)
           n == Len(z.sigs) + 1
<1>1. z \in Actions /\ z.name = x.name /\ z.target = x.target /\ z.nil = x.nil /\ z.sigs = x.sigs
      /\ z.from = x.from /\ z.until = x.until /\ Compressed(z) /\ (Compressed(x) => z = x)
  BY CompressIs
<1> HIDE DEF z
<1>2. /\ y \in Actions /\ ActionString(y) = ActionString(z)
      /\ y.name = z.name /\ y.target = z.target /\ y.ops = z.ops /\ y.nil = z.nil
      /\ y.from = z.from /\ y.until = z.until
      /\ DOMAIN y.sigs = 1..n /\ Len(z.sigs) \in Nat /\ DOMAIN z.sigs = 1..Len(z.sigs)
      /\ \A i \in DOMAIN z.sigs : y.sigs[i] = z.sigs[i]
      /\ y.sigs[n].key = MyKey /\ y.sigs[n].over = ActionString(z) /\ y.sigs # << >>
  BY <1>1, SignIs
<1> HIDE DEF y
<1>3. n \in DOMAIN y.sigs /\ \A i \in DOMAIN y.sigs : i \in DOMAIN z.sigs \/ i = n
  BY <1>2
<1>4. OfMine(x) => OfMine(y)
  BY <1>1, <1>2, <1>3 DEF OfMine
<1>5. ASSUME x.sigs = << >> \/ Sealed(x) PROVE Sealed(y)
  <2>1. OfMine(x) /\ \A i \in DOMAIN x.sigs : x.sigs[i].over = ActionString(z)
    BY <1>1, <1>5 DEF Sealed, OfMine
  <2>2. \A i \in DOMAIN y.sigs : y.sigs[i].over = ActionString(y)
    BY <1>1, <1>2, <1>3, <2>1
  <2>3. Compressed(y)
    BY <1>1, <1>2 DEF Compressed
  <2> QED
    BY <1>2, <1>4, <2>1, <2>2, <2>3 DEF Sealed
<1> QED
  BY <1>1, <1>2, <1>3, <1>4, <1>5 DEF y, z

(* Times are in order when they are set.                                          *)
LEMMA TimesAre ==
  ASSUME TypeInv, NEW x \in Actions
  PROVE  /\ WithTimes(x) \in Actions /\ WithTimes(x).from <= WithTimes(x).until /\ Zero <= WithTimes(x).until
         /\ WithTimes(x).name = x.name /\ WithTimes(x).target = x.target /\ WithTimes(x).ops = x.ops
         /\ WithTimes(x).nil = x.nil /\ WithTimes(x).sigs = x.sigs
<1>1. now \in Int /\ now + Period \in Int /\ now <= now + Period /\ Zero <= now + Period
  BY ClientBounds DEF TypeInv, Zero
<1>2. PICK t \in Int : t = now + Period
  BY <1>1
<1> QED
  BY <1>1, <1>2 DEF Actions, WithTimes

(* The empty action has nothing.                                                  *)
LEMMA NewActionIs ==
  /\ NewAction \in Actions /\ NewAction.sigs = << >> /\ NewAction.ops = << >> /\ NewAction.from = Zero
  /\ NewAction.until = Zero
<1> DEFINE ops == << >>
           sigs == << >>
           no == ""
           t == TRUE
<1>1. ops \in Seq(Operations) /\ sigs \in Seq([key : Texts, over : SignedParts])
  OBVIOUS
<1>2. no \in Texts
  BY InputsAreWellFormed
<1>3. NewAction = [name |-> no, target |-> no, ops |-> ops, nil |-> t, from |-> Zero, until |-> Zero, sigs |-> sigs]
  BY DEF NewAction
<1>4. Zero \in Int /\ t \in BOOLEAN
  BY DEF Zero
<1> HIDE DEF no, ops, sigs, t
<1>5. /\ NewAction \in Actions /\ NewAction.sigs = sigs /\ NewAction.ops = ops /\ NewAction.from = Zero
      /\ NewAction.until = Zero
  BY <1>1, <1>2, <1>3, <1>4 DEF Actions
<1> QED
  BY <1>5 DEF ops, sigs

--------------------------------------------------------------------------------
(* Requests.                                                                    *)

(* Failures are counted: when none has been, the request was answered.            *)
LEMMA DoIs ==
  ASSUME NEW method, NEW r, faults \in Nat, Do(method, r)
  PROVE  faults' \in Nat /\ (faults' = faults => r = "answered")
<1>1. PICK first \in Replies, second \in Replies :
        LET cost == (IF first = "answered" THEN 0 ELSE 1) + (IF second = "answered" THEN 0 ELSE 1) IN
        /\ r = Reply(method, first, second) /\ faults' = faults - cost /\ faults' >= 0
  BY DEF Do
<1>2. faults' = faults => first = "answered"
  BY <1>1
<1> QED
  BY <1>1, <1>2 DEF Reply

--------------------------------------------------------------------------------
(* How a search is evaluated.                                                     *)

LEMMA SortedIs ==
  ASSUME NEW ids, NEW o
  PROVE  Sorted(ids, o) = [k \in 1..Cardinality(ids) |-> CHOOSE i \in ids : Cardinality(Before(i, ids, o)) = k - 1]
<1> DEFINE sort(set) == [k \in 1..Cardinality(set) |-> CHOOSE i \in set : Cardinality(Before(i, set, o)) = k - 1]
           S == {sort(v) : v \in {ids}}
<1>1. Sorted(ids, o) = CHOOSE y \in S : TRUE
  BY DEF Sorted, Apply
<1>2. sort(ids) = [k \in 1..Cardinality(ids) |-> CHOOSE i \in ids : Cardinality(Before(i, ids, o)) = k - 1]
  OBVIOUS
<1> HIDE DEF sort
<1> QED
  BY <1>1, <1>2

LEMMA SliceIs ==
  ASSUME NEW rows, NEW p
  PROVE  Slice(rows, p) = SubSeq(rows, p.offset + 1, Min({p.offset + p.limit, Len(rows)}))
<1> DEFINE slice(s) == SubSeq(s, p.offset + 1, Min({p.offset + p.limit, Len(s)}))
           S == {slice(v) : v \in {rows}}
<1>1. Slice(rows, p) = CHOOSE y \in S : TRUE
  BY DEF Slice, Apply
<1>2. slice(rows) = SubSeq(rows, p.offset + 1, Min({p.offset + p.limit, Len(rows)}))
  OBVIOUS
<1> HIDE DEF slice
<1> QED
  BY <1>1, <1>2

Conditions(where, filters) == DOMAIN where \intersect DOMAIN filters
TablesOf(fixed, where, filters) == fixed \union UNION {where[k].joins : k \in Conditions(where, filters)}
IsStatement(tables, where, filters) ==
  /\ Conditions(where, filters) # {} /\ Joinable(tables)
  /\ \A k \in Conditions(where, filters) : where[k].table \in tables
Rows(base, tables, where, filters) ==
  {r[base] : r \in {j \in Joined(tables) : \A k \in Conditions(where, filters) : Accepts(j, where[k], filters[k])}}

LEMMA SelectIs ==
  ASSUME NEW base, NEW fixed, NEW where, NEW filters
  PROVE  LET tables == TablesOf(fixed, where, filters)
             s == Select(base, fixed, where, filters)
         IN s.ok = IsStatement(tables, where, filters)
            /\ s.rows = IF IsStatement(tables, where, filters) THEN Rows(base, tables, where, filters) ELSE {}
<1> DEFINE conditions == DOMAIN where \intersect DOMAIN filters
           valid(tables) == /\ conditions # {} /\ Joinable(tables)
                            /\ \A k \in conditions : where[k].table \in tables
           selected(tables) == {r[base] : r \in {j \in Joined(tables) :
                                  \A k \in conditions : Accepts(j, where[k], filters[k])}}
           statement(tables) == [ok |-> valid(tables), rows |-> IF valid(tables) THEN selected(tables) ELSE {}]
           all == fixed \union UNION {where[k].joins : k \in conditions}
           S == {statement(v) : v \in {all}}
<1>1. Select(base, fixed, where, filters) = CHOOSE y \in S : TRUE
  BY DEF Select, Apply
<1>2. all = TablesOf(fixed, where, filters) /\ valid(all) = IsStatement(all, where, filters)
      /\ selected(all) = Rows(base, all, where, filters)
  BY DEF TablesOf, Conditions, IsStatement, Rows
<1>3. statement(all).ok = valid(all) /\ statement(all).rows = IF valid(all) THEN selected(all) ELSE {}
  <2> HIDE DEF valid, selected
  <2> QED
    OBVIOUS
<1> HIDE DEF statement, all, valid, selected
<1>4. Select(base, fixed, where, filters) = statement(all)
  BY <1>1
<1> QED
  BY <1>2, <1>3, <1>4

(* The three answers of the endpoint.                                             *)
LEMMA SearchIs ==
  ASSUME NEW q
  PROVE  LET parsed == ParseSearchParameters(q)
             s == Dispatch(parsed.p)
         IN /\ Search(q).code = IF ~parsed.ok \/ ~s.ok THEN 500 ELSE IF s.rows = << >> THEN 404 ELSE 200
            /\ Search(q).items = IF Search(q).code = 200 THEN Items(s.rows, parsed.p.limit) ELSE << >>
            /\ Search(q).next = IF Search(q).code = 200 THEN NextPage(parsed.p) ELSE << >>
<1>1. ASSUME NEW parsed, NEW s
      PROVE  LET r == Respond(parsed, s) IN
             /\ r.code = IF ~parsed.ok \/ ~s.ok THEN 500 ELSE IF s.rows = << >> THEN 404 ELSE 200
             /\ r.items = IF r.code = 200 THEN Items(s.rows, parsed.p.limit) ELSE << >>
             /\ r.next = IF r.code = 200 THEN NextPage(parsed.p) ELSE << >>
  <2> DEFINE reply(x) == IF ~parsed.ok \/ ~x.ok THEN [code |-> 500, items |-> << >>, next |-> << >>]
                          ELSE IF x.rows = << >> THEN [code |-> 404, items |-> << >>, next |-> << >>]
                          ELSE [code |-> 200, items |-> Items(x.rows, parsed.p.limit), next |-> NextPage(parsed.p)]
             S == {reply(v) : v \in {s}}
  <2>1. Respond(parsed, s) = CHOOSE y \in S : TRUE
    BY DEF Respond, Apply
  <2>2. /\ reply(s).code = IF ~parsed.ok \/ ~s.ok THEN 500 ELSE IF s.rows = << >> THEN 404 ELSE 200
        /\ reply(s).items = IF reply(s).code = 200 THEN Items(s.rows, parsed.p.limit) ELSE << >>
        /\ reply(s).next = IF reply(s).code = 200 THEN NextPage(parsed.p) ELSE << >>
    OBVIOUS
  <2> HIDE DEF reply
  <2>3. Respond(parsed, s) = reply(s)
    BY <2>1
  <2> QED
    BY <2>2, <2>3
<1> DEFINE reply(parsed) == Respond(parsed, Dispatch(parsed.p))
           S == {reply(v) : v \in {ParseSearchParameters(q)}}
<1>2. Search(q) = CHOOSE y \in S : TRUE
  BY DEF Search, Apply
<1>3. reply(ParseSearchParameters(q)) = Respond(ParseSearchParameters(q), Dispatch(ParseSearchParameters(q).p))
  OBVIOUS
<1> HIDE DEF reply
<1>4. Search(q) = Respond(ParseSearchParameters(q), Dispatch(ParseSearchParameters(q).p))
  BY <1>2, <1>3
<1> QED
  BY <1>1, <1>4

(* A client reads what was answered, unless it is an error.                       *)
LEMMA ResourceIs ==
  ASSUME NEW r, NEW answered, answered.code \in {200, 404, 500}
  PROVE  LET page == GetAPIResource(r, answered) IN
         IF r = "answered" /\ answered.code # 500 THEN page = answered
         ELSE page = [code |-> 500, items |-> << >>, next |-> << >>]
<1> DEFINE error == [code |-> 500, items |-> << >>, next |-> << >>]
           read(page) == IF page.code >= 500 THEN error ELSE page
           S == {read(v) : v \in {answered}}
<1>1. GetAPIResource(r, answered) = IF r # "answered" THEN error ELSE CHOOSE y \in S : TRUE
  BY DEF GetAPIResource, Apply
<1>2. read(answered) = IF answered.code # 500 THEN answered ELSE error
  <2> HIDE DEF error
  <2> QED
    OBVIOUS
<1> HIDE DEF error, read
<1>3. (CHOOSE y \in S : TRUE) = read(answered)
  OBVIOUS
<1> QED
  BY <1>1, <1>2, <1>3 DEF error

(* A statement without any condition selects nothing.                             *)
LEMMA SelectsNothing ==
  ASSUME NEW base, NEW fixed, NEW where, NEW filters, DOMAIN filters = {}
  PROVE  ~Select(base, fixed, where, filters).ok
<1>1. ~IsStatement(TablesOf(fixed, where, filters), where, filters)
  BY DEF IsStatement, Conditions
<1> QED
  BY <1>1, SelectIs

(* The answer to a search whose statement fails is an error for the client.       *)
LEMMA FailedSearch ==
  ASSUME NEW q, ~Dispatch(ParseSearchParameters(q).p).ok PROVE Search(q).code = 500
BY SearchIs

LEMMA FailedResource ==
  ASSUME NEW r, NEW answered, answered.code = 500 PROVE GetAPIResource(r, answered).code = 500
<1>1. LET page == GetAPIResource(r, answered) IN
      IF r = "answered" /\ answered.code # 500 THEN page = answered
      ELSE page = [code |-> 500, items |-> << >>, next |-> << >>]
  BY ResourceIs
<1>2. GetAPIResource(r, answered) = [code |-> 500, items |-> << >>, next |-> << >>]
  BY <1>1
<1> QED
  BY <1>2

--------------------------------------------------------------------------------
(* The search for the agents of a target.                                         *)

(* What the search for the agents of a target asks.                               *)
LEMMA TargetSearch ==
  ASSUME NEW t
  PROVE  LET p == ParseSearchParameters([k \in {"type", "limit", "target"} |->
                    CASE k = "type" -> "agent" [] k = "limit" -> 1000000 [] OTHER -> t]).p IN
         p.type = "agent" /\ p.target = t /\ DOMAIN p.filters = {}
<1> DEFINE q == [k \in {"type", "limit", "target"} |->
                  CASE k = "type" -> "agent" [] k = "limit" -> 1000000 [] OTHER -> t]
           p == ParseSearchParameters(q).p
<1>1. DOMAIN q = {"type", "limit", "target"} /\ q["type"] = "agent" /\ q["target"] = t
  OBVIOUS
<1> HIDE DEF q
<1>2. DOMAIN q \intersect FilterKeys = {}
  BY <1>1 DEF FilterKeys
<1>3. p.type = q["type"] /\ p.target = q["target"] /\ DOMAIN p.filters = DOMAIN q \intersect FilterKeys
  BY <1>1 DEF ParseSearchParameters
<1> QED
  BY <1>1, <1>2, <1>3 DEF q

(* Without a target it is a search of agents by filters.                          *)
Untargeted(t) == t = ""

LEMMA WithoutTarget ==
  ASSUME NEW p, p.type = "agent", Untargeted(p.target), ~SearchAgents(p).ok PROVE ~Dispatch(p).ok
BY DEF Dispatch, Untargeted

(* No agents are found for the empty target: such a search has no condition.      *)
LEMMA EvaluateEmpty ==
  ASSUME NEW r, NEW t, Untargeted(t) PROVE EvaluateAgentTarget(t, r).code # 200
<1> DEFINE q == [k \in {"type", "limit", "target"} |->
                  CASE k = "type" -> "agent" [] k = "limit" -> 1000000 [] OTHER -> t]
           p == ParseSearchParameters(q).p
<1>1. p.type = "agent" /\ p.target = t /\ DOMAIN p.filters = {}
  BY TargetSearch
<1>2. EvaluateAgentTarget(t, r) = GetAPIResource(r, Search(q))
  BY DEF EvaluateAgentTarget
<1> HIDE DEF q
<1>3. ~Select("agents", {"agents"}, AgentWhere, p.filters).ok
  BY <1>1, SelectsNothing
<1>4. ~SearchAgents(p).ok
  BY <1>3 DEF SearchAgents, Failed
<1>5. ~Dispatch(p).ok
  BY <1>1, <1>4, WithoutTarget
<1>6. Search(q).code = 500
  BY <1>5, FailedSearch
<1>7. GetAPIResource(r, Search(q)).code = 500
  BY <1>6, FailedResource
<1>8. 500 # 200
  OBVIOUS
<1> QED
  BY <1>2, <1>7, <1>8

--------------------------------------------------------------------------------
(* Steps in which nothing is prepared or launched.                                *)
Preparing == {"start", "sign", "evaluate", "countdown", "post", "launcher", "launch"}

SameHistory ==
  seen' \in Histories /\ seen'.shown = seen.shown /\ seen'.blind = seen.blind /\ seen'.edited = seen.edited
  /\ seen'.loaded = seen.loaded

Quiet ==
  /\ DOMAIN db'.actions = DOMAIN db.actions /\ DOMAIN db' = DOMAIN db
  /\ pc \in {"post", "launch"} => pc' # "exit"

Inert ==
  /\ Quiet /\ UNCHANGED <<program, a, has>> /\ SameHistory /\ now' \in Nat /\ faults' \in Nat
  /\ pc' = pc \/ pc' \notin Preparing

LEMMA InertKeeps ==
  ASSUME TypeInv, Prepared, Inert PROVE TypeInv' /\ Prepared'
<1>1. TypeInv'
  BY DEF TypeInv, Inert, Quiet, SameHistory
<1>2. Prepared'
  <2>1. CASE pc' = pc
    BY <2>1 DEF Prepared, StartGood, SignGood, MigGood, TargetGood, ConsoleGood, LauncherGood, Shown, Inert,
          SameHistory, Sealed, OfMine, Compressed, ActionString
  <2>2. CASE pc' \notin Preparing
    BY <2>2 DEF Prepared, StartGood, SignGood, MigGood, TargetGood, ConsoleGood, Preparing
  <2> QED
    BY <2>1, <2>2 DEF Inert
<1> QED
  BY <1>1, <1>2

LEMMA UnchangedHistory ==
  ASSUME TypeInv, UNCHANGED <<db, seen, now>> PROVE SameHistory /\ now' \in Nat /\ DOMAIN db'.actions = DOMAIN db.actions /\ DOMAIN db' = DOMAIN db
BY DEF TypeInv, SameHistory

LEMMA ServerIsInert ==
  ASSUME TypeInv, ServerStep PROVE Inert
<1>1. {"actions", "signatures", "commands"} \subseteq DOMAIN db /\ seen \in Histories /\ now \in Nat /\ faults \in Nat
  BY DEF TypeInv
<1>2. CASE ActionMoves
  BY <1>1, <1>2 DEF ActionMoves, Inert, Quiet, SameHistory
<1>3. ASSUME NEW g \in DOMAIN db.agents, CommandSent(g) PROVE Inert
  BY <1>1, <1>3 DEF CommandSent, Inert, Quiet, SameHistory
<1>4. ASSUME NEW c \in DOMAIN db.commands, NEW o \in Outcomes, CommandFinished(c, o) PROVE Inert
  BY <1>1, <1>4 DEF CommandFinished, Inert, Quiet, SameHistory
<1> QED
  BY <1>2, <1>3, <1>4 DEF ServerStep

LEMMA FollowIsInert ==
  ASSUME TypeInv, FollowStep \/ StopFollow \/ Interrupt \/ WaitInterrupt PROVE Inert
<1>1. seen \in Histories /\ now \in Nat /\ faults \in Nat
  BY DEF TypeInv
<1>2. CASE FollowTurn
  <2>1. PICK r \in Replies : Do("GET", r)
    BY <1>2 DEF FollowTurn
  <2>2. faults' \in Nat
    BY <1>1, <2>1, DoIs
  <2> QED
    BY <1>1, <1>2, <2>2 DEF FollowTurn, FollowReturns, FollowFails, Goto, Inert, Quiet, SameHistory, Preparing
<1>3. CASE FollowFinish
  <2>1. PICK r \in Replies : Do("GET", r)
    BY <1>3 DEF FollowFinish
  <2>2. faults' \in Nat
    BY <1>1, <2>1, DoIs
  <2> QED
    BY <1>1, <1>3, <2>2 DEF FollowFinish, FollowReturns, FollowFails, Goto, Inert, Quiet, SameHistory, Preparing
<1>4. CASE StopFollow
  BY <1>1, <1>4 DEF StopFollow, Inert, Quiet, SameHistory
<1>5. CASE Interrupt
  BY <1>1, <1>5 DEF Interrupt, Goto, Inert, Quiet, SameHistory, Preparing
<1>6. CASE WaitInterrupt
  BY <1>1, <1>6 DEF WaitInterrupt, Inert, Quiet, SameHistory
<1> QED
  BY <1>2, <1>3, <1>4, <1>5, <1>6 DEF FollowStep

LEMMA FetchIsInert ==
  ASSUME TypeInv, NEW there, NEW after, NEW refused, FetchPage(there, after, refused),
         there \notin Preparing, after \notin Preparing, refused \notin Preparing
  PROVE  Inert
<1>1. seen \in Histories /\ now \in Nat /\ faults \in Nat
  BY DEF TypeInv
<1>2. PICK r \in Replies : Do("GET", r)
  BY DEF FetchPage
<1>3. faults' \in Nat
  BY <1>1, <1>2, DoIs
<1>4. pc = there /\ UNCHANGED <<db, program, a, has, now, seen>> /\ pc' \in {pc, there, after, refused}
  BY DEF FetchPage, Goto
<1> QED
  BY <1>1, <1>3, <1>4 DEF Inert, Quiet, SameHistory, Preparing

LEMMA ReadingIsInert ==
  ASSUME TypeInv, MigPrint \/ MigPage \/ (ReaderStep /\ ~ReaderCopy) PROVE Inert
<1>1. seen \in Histories /\ now \in Nat /\ faults \in Nat
  BY DEF TypeInv
<1>2. CASE MigPrint
  BY <1>1, <1>2 DEF MigPrint, Goto, Inert, Quiet, SameHistory, Preparing
<1>3. CASE MigPage
  BY <1>3, FetchIsInert DEF MigPage, Preparing
<1>4. CASE ReaderPage
  BY <1>4, FetchIsInert DEF ReaderPage, Preparing
<1>5. CASE ReaderStart
  <2>1. PICK r \in Replies : Do("GET", r)
    BY <1>5 DEF ReaderStart
  <2>2. faults' \in Nat
    BY <1>1, <2>1, DoIs
  <2> QED
    BY <1>1, <1>5, <2>2 DEF ReaderStart, Goto, Inert, Quiet, SameHistory, Preparing
<1>6. CASE Exit
  BY <1>1, <1>6 DEF Exit, Goto, Inert, Quiet, SameHistory, Preparing
<1>7. ASSUME NEW show, ReaderList(show) \/ ReaderResults(show) PROVE Inert
  BY <1>1, <1>7 DEF ReaderList, ReaderResults, Reader, Goto, Inert, Quiet, SameHistory, Preparing
<1> QED
  BY <1>2, <1>3, <1>4, <1>5, <1>6, <1>7 DEF ReaderStep

LEMMA OtherIsInert ==
  ASSUME TypeInv, SearchStep \/ Tick \/ UNCHANGED cvars PROVE Inert
<1>1. seen \in Histories /\ now \in Nat /\ faults \in Nat
  BY DEF TypeInv
<1>2. CASE ConsoleSearch
  <2>1. PICK r \in Replies : Do("GET", r) /\ seen' = [seen EXCEPT !.failed = r # "answered"]
    BY <1>2 DEF ConsoleSearch
  <2>2. faults' \in Nat
    BY <1>1, <2>1, DoIs
  <2>3. SameHistory
    BY <1>1, <2>1 DEF SameHistory, Histories
  <2> QED
    BY <1>1, <1>2, <2>2, <2>3 DEF ConsoleSearch, Goto, Inert, Quiet, Preparing
<1>3. CASE SearchRefused
  BY <1>1, <1>3 DEF SearchRefused, Goto, Inert, Quiet, SameHistory, Preparing
<1>4. CASE ApiSearch
  BY <1>1, <1>4 DEF ApiSearch, Goto, Inert, Quiet, SameHistory, Preparing
<1>5. CASE Tick
  BY <1>1, <1>5 DEF Tick, Inert, Quiet, SameHistory
<1>6. CASE UNCHANGED cvars
  BY <1>1, <1>6 DEF cvars, Inert, Quiet, SameHistory
<1> QED
  BY <1>2, <1>3, <1>4, <1>5, <1>6 DEF SearchStep

--------------------------------------------------------------------------------
(* mig.                                                                         *)

LEMMA MigActionIs ==
  ASSUME program \in Programs, program.mode = "mig"
  PROVE  /\ MigAction \in Actions /\ MigAction.name # "" /\ MigAction.sigs = << >> /\ MigAction.from = Zero
         /\ program.file # "" => Files[program.file] \in Actions
<1>1. program.target \in Texts /\ program.compress \in BOOLEAN /\ program.file \in DOMAIN Files \union {""}
  BY InputsAreWellFormed
<1>2. TargetFlag \in Texts
  BY <1>1, InputsAreWellFormed DEF TargetFlag, ResolveTargetMacro
<1>3. Operation("ping", program.compress) \in Operations
  BY <1>1, InputsAreWellFormed DEF Operation, Operations
<1>4. <<Operation("ping", program.compress)>> \in Seq(Operations)
  BY <1>3
<1>7. NewAction \in Actions /\ NewAction.sigs = << >> /\ NewAction.from = Zero
  BY NewActionIs
<1>8. MigAction \in Actions /\ MigAction.name = "mig" /\ MigAction.sigs = << >> /\ MigAction.from = Zero
  <2> DEFINE ops == <<Operation("ping", program.compress)>>
             none == << >>
             name == "mig"
  <2>1. ops \in Seq(Operations) /\ name \in Texts
    BY <1>4, InputsAreWellFormed
  <2>2. MigAction = [NewAction EXCEPT !.name = name, !.target = TargetFlag, !.ops = ops, !.nil = FALSE]
    BY DEF MigAction
  <2> HIDE DEF ops, name
  <2>3. MigAction \in Actions /\ MigAction.name = name /\ MigAction.sigs = NewAction.sigs /\ MigAction.from = NewAction.from
    BY <1>2, <1>7, <2>1, <2>2 DEF Actions
  <2> QED
    BY <1>7, <2>3 DEF name
<1>9. program.file # "" => Files[program.file] \in Actions
  BY <1>1, InputsAreWellFormed
<1> QED
  BY <1>8, <1>9

LEMMA MigBuildKeeps ==
  ASSUME TypeInv, Prepared, MigBuild PROVE TypeInv' /\ Prepared' /\ Quiet
<1>1. pc = "start" /\ program.mode = "mig" /\ program \in Programs /\ has = {}
  BY DEF MigBuild, TypeInv, Prepared, StartGood
<1>2. MigAction \in Actions /\ MigAction.name # "" /\ MigAction.sigs = << >> /\ MigAction.from = Zero
      /\ (program.file # "" => Files[program.file] \in Actions)
  BY <1>1, MigActionIs
<1>3. UNCHANGED <<db, program, has, now, faults>> /\ seen' = [seen EXCEPT !.loaded = program.file # ""]
  BY DEF MigBuild
<1>4. pc' \in {"exit", "sign"}
  BY DEF MigBuild, Goto
<1>5. a' \in Actions
  BY <1>2 DEF MigBuild, TypeInv
<1>6. pc' = "sign" => a' = IF program.file # "" THEN Files[program.file] ELSE MigAction
  BY DEF MigBuild, Goto
<1>7. TypeInv'
  BY <1>3, <1>5 DEF TypeInv, Histories
<1>8. pc' = "sign" /\ ~seen'.loaded => a' = MigAction
  BY <1>3, <1>6 DEF TypeInv, Histories
<1>9. Prepared'
  BY <1>2, <1>4, <1>8 DEF Prepared, StartGood, SignGood, MigGood, TargetGood, ConsoleGood
<1> QED
  BY <1>1, <1>3, <1>7, <1>9 DEF Quiet

LEMMA MigSignKeeps ==
  ASSUME TypeInv, Prepared, MigSign PROVE TypeInv' /\ Prepared' /\ Quiet
<1> DEFINE x == IF a.from = Zero THEN WithTimes(a) ELSE a
           y == SignAction(CompressAction(x))
<1>1. pc = "sign" /\ a \in Actions /\ UNCHANGED <<db, program, has, now, faults, seen>>
  BY DEF MigSign, TypeInv
<1>2. /\ WithTimes(a) \in Actions /\ WithTimes(a).from <= WithTimes(a).until
      /\ WithTimes(a).name = a.name /\ WithTimes(a).sigs = a.sigs
  BY <1>1, TimesAre
<1>3. x \in Actions /\ x.name = a.name /\ x.sigs = a.sigs /\ (a.from = Zero => x.from <= x.until)
  BY <1>1, <1>2
<1> HIDE DEF x
<1>4. /\ y \in Actions /\ y.name = x.name /\ y.from = x.from /\ y.until = x.until
      /\ x.sigs = << >> => Sealed(y)
  BY <1>3, SealedBySigning
<1> HIDE DEF y
<1>5. \/ a' = y /\ pc' \in {"exit", "evaluate"}
      \/ a' = a /\ pc' = "exit"
  BY DEF MigSign, Goto, x, y
<1>6. TypeInv'
  BY <1>1, <1>4, <1>5 DEF TypeInv
<1>7. pc' = "evaluate" /\ ~seen.loaded => Sealed(a') /\ a'.name # "" /\ a'.from <= a'.until
  BY <1>1, <1>3, <1>4, <1>5 DEF Prepared, SignGood
<1>8. (Sealed(a))' <=> Sealed(a')
  BY DEF Sealed, OfMine, Compressed, ActionString
<1>9. Prepared'
  BY <1>1, <1>5, <1>7, <1>8 DEF Prepared, StartGood, SignGood, MigGood, TargetGood, ConsoleGood
<1> QED
  BY <1>1, <1>6, <1>9 DEF Quiet

LEMMA MigEvaluateKeeps ==
  ASSUME TypeInv, Prepared, MigEvaluate PROVE TypeInv' /\ Prepared' /\ Quiet
<1>1. PICK r \in Replies :
        /\ pc = "evaluate" /\ Do("GET", r)
        /\ pc' = IF EvaluateAgentTarget(a.target, r).code = 200 THEN "countdown" ELSE "exit"
        /\ seen' = [seen EXCEPT !.shown = IF EvaluateAgentTarget(a.target, r).code = 200 THEN @ \union {a.target} ELSE @]
        /\ UNCHANGED <<db, program, a, has, now>>
  BY DEF MigEvaluate, Goto
<1>2. faults' \in Nat
  BY <1>1, DoIs DEF TypeInv
<1>3. pc' = "countdown" => ~Untargeted(a.target)
  BY <1>1, EvaluateEmpty
<1> DEFINE found == EvaluateAgentTarget(a.target, r).code = 200
<1>4. /\ a.target \in Texts /\ a \in Actions
      /\ seen' = [seen EXCEPT !.shown = IF found THEN @ \union {a.target} ELSE @]
      /\ pc' = IF found THEN "countdown" ELSE "exit"
  BY <1>1, ActionFields DEF TypeInv
<1> HIDE DEF found
<1>5. TypeInv' /\ seen'.loaded = seen.loaded /\ (found => a.target \in seen'.shown)
  BY <1>1, <1>2, <1>4 DEF TypeInv, Histories
<1>6. Prepared'
  BY <1>1, <1>3, <1>4, <1>5 DEF Prepared, StartGood, SignGood, MigGood, TargetGood, ConsoleGood, Untargeted,
        Sealed, OfMine, Compressed, ActionString
<1> QED
  BY <1>1, <1>5, <1>6 DEF Quiet

LEMMA MigCountdownKeeps ==
  ASSUME TypeInv, Prepared, MigCountdown PROVE TypeInv' /\ Prepared' /\ Quiet
<1>1. pc = "countdown" /\ pc' = "post" /\ UNCHANGED <<db, program, a, has, now, faults, seen>>
  BY DEF MigCountdown, Goto
<1>2. TypeInv'
  BY <1>1 DEF TypeInv
<1>3. Prepared'
  BY <1>1 DEF Prepared, StartGood, SignGood, MigGood, TargetGood, ConsoleGood, Sealed, OfMine, Compressed, ActionString
<1> QED
  BY <1>1, <1>2, <1>3 DEF Quiet

--------------------------------------------------------------------------------
(* Posting.                                                                     *)

(* The table of actions grows only by an action that is accepted; a request that   *)
(* was answered is refused only if the action is not accepted.                     *)
LEMMA PostIs ==
  ASSUME TypeInv, NEW x, NEW accepted, NEW refused, accepted # refused, PostAction(x, accepted, refused)
  PROVE  /\ faults' \in Nat /\ SameHistory /\ pc' \in {accepted, refused} /\ DOMAIN db' = DOMAIN db
         /\ DOMAIN db'.actions # DOMAIN db.actions => CreateActionAccepts(x)
         /\ pc' = refused /\ faults' = faults => ~CreateActionAccepts(x)
<1>1. PICK r \in Replies \union {"empty"} :
        /\ Do("POST", r)
        /\ \/ r = "answered" /\ CreateActionAccepts(x) /\ InsertAction(x) /\ Goto(accepted) /\ UNCHANGED seen
           \/ r = "failed" /\ CreateActionAccepts(x) /\ InsertAction(x) /\ seen' = [seen EXCEPT !.failed = TRUE] /\ Goto(refused)
           \/ /\ r # "answered" \/ ~CreateActionAccepts(x)
              /\ seen' = [seen EXCEPT !.failed = r # "answered"] /\ Goto(refused) /\ UNCHANGED db
  BY DEF PostAction
<1>2. faults' \in Nat /\ (faults' = faults => r = "answered")
  BY <1>1, DoIs DEF TypeInv
<1>3. InsertAction(x) => DOMAIN db' = DOMAIN db
  BY DEF InsertAction
<1>4. SameHistory
  BY <1>1 DEF SameHistory, TypeInv, Histories
<1> QED
  BY <1>1, <1>2, <1>3, <1>4 DEF Goto

(* What is accepted carries signatures over itself, with keys that are known.      *)
LEMMA AcceptedIsSigned ==
  ASSUME NEW x \in Actions, CreateActionAccepts(x)
  PROVE  /\ \A i \in DOMAIN x.sigs : x.sigs[i].over = ActionString(x)
         /\ OfMine(x) => \E i \in DOMAIN x.sigs : x.sigs[i].key = MyKey
         /\ \E i \in DOMAIN x.sigs : TRUE
<1>1. x.sigs # << >> /\ ValidSignatures(x)
  BY DEF CreateActionAccepts
<1>2. x.sigs \in Seq([key : Texts, over : SignedParts])
  BY ActionFields
<1>3. 1 \in DOMAIN x.sigs
  BY <1>1, <1>2, EmptySeq, LenProperties
<1> QED
  BY <1>1, <1>3 DEF ValidSignatures, OfMine

(* An action that is ready is accepted by an API that knows the user's key.        *)
LEMMA InTime ==
  ASSUME TypeInv, NEW x \in Actions, x.from <= x.until
  PROVE  ~(x.from > x.until) /\ (now <= x.until \/ now > x.until) /\ (now <= x.until => ~(now > x.until))
<1>1. x.from \in Int /\ x.until \in Int /\ now \in Int
  BY DEF Actions, TypeInv
<1> QED
  BY <1>1

LEMMA ReadyIsAccepted ==
  ASSUME MyKey \in KnownKeys, TypeInv, NEW x \in Actions, Sealed(x), x.from <= x.until
  PROVE  x.name # "" /\ x.target # "" /\ ~x.nil /\ now <= x.until => CreateActionAccepts(x)
<1>1. ValidSignatures(x)
  BY DEF Sealed, OfMine, ValidSignatures
<1>2. x.sigs # << >>
  BY DEF Sealed
<1> QED
  BY <1>1, <1>2, InTime DEF CreateActionAccepts

(* The two halves of what LaunchWasShown and LaunchIsSigned say of a step.          *)
Inserted == DOMAIN db'.actions # DOMAIN db.actions
WasShown == Inserted => a'.target \in seen.shown \/ seen.blind
WasSigned ==
  Inserted => /\ \A i \in DOMAIN a'.sigs : a'.sigs[i].over = ActionString(a')
              /\ \E i \in DOMAIN a'.sigs : a'.sigs[i].key = MyKey \/ seen.loaded
NotRefused ==
  CanSign /\ pc \in {"post", "launch"} /\ pc' = "exit" /\ faults' = faults =>
    seen.edited \/ seen.loaded \/ a'.nil \/ now > a'.until

LEMMA QuietLaunches ==
  ASSUME Quiet PROVE WasShown /\ WasSigned /\ NotRefused
BY DEF Quiet, Inserted, WasShown, WasSigned, NotRefused

LEMMA MigPostLaunches ==
  ASSUME TypeInv, Prepared, MigPost
  PROVE  TypeInv' /\ Prepared' /\ WasShown /\ WasSigned /\ (MyKey \in KnownKeys => NotRefused)
<1>1. pc = "post" /\ PostAction(a, "follow", "exit") /\ UNCHANGED <<program, a, has, now>> /\ a \in Actions
  BY DEF MigPost, TypeInv
<1>2. /\ faults' \in Nat /\ SameHistory /\ pc' \in {"follow", "exit"} /\ DOMAIN db' = DOMAIN db
      /\ Inserted => CreateActionAccepts(a)
      /\ pc' = "exit" /\ faults' = faults => ~CreateActionAccepts(a)
  BY <1>1, PostIs DEF Inserted
<1>3. TypeInv'
  BY <1>1, <1>2 DEF TypeInv, SameHistory
<1>4. Prepared'
  BY <1>2 DEF Prepared, StartGood, SignGood, MigGood, TargetGood, ConsoleGood
<1>5. a.target \in seen.shown /\ a.target # ""
  BY <1>1 DEF Prepared, TargetGood
<1>6. ~seen.loaded => Sealed(a) /\ a.name # "" /\ a.from <= a.until
  BY <1>1 DEF Prepared, MigGood
<1>7. WasShown
  BY <1>1, <1>5 DEF WasShown
<1>8. WasSigned
  <2>1. Inserted => /\ \A i \in DOMAIN a.sigs : a.sigs[i].over = ActionString(a)
                    /\ OfMine(a) => \E i \in DOMAIN a.sigs : a.sigs[i].key = MyKey
                    /\ \E i \in DOMAIN a.sigs : TRUE
    BY <1>1, <1>2, AcceptedIsSigned
  <2> QED
    BY <1>1, <1>6, <2>1 DEF WasSigned, Sealed
<1>9. ASSUME MyKey \in KnownKeys PROVE NotRefused
  <2>1. ~seen.loaded /\ ~a.nil /\ now <= a.until => CreateActionAccepts(a)
    BY <1>1, <1>5, <1>6, <1>9, ReadyIsAccepted
  <2>2. ~seen.loaded => now > a.until \/ now <= a.until
    BY <1>1, <1>6, InTime
  <2> QED
    BY <1>1, <1>2, <2>1, <2>2 DEF NotRefused
<1> QED
  BY <1>3, <1>4, <1>7, <1>8, <1>9

--------------------------------------------------------------------------------
(* The launcher.                                                                *)

(* It stays in order as long as what it has says what was done to the action.      *)
LEMMA LauncherKeeps ==
  ASSUME TypeInv, pc = "launcher", UNCHANGED <<db, program, now>>, a' \in Actions, has' \subseteq Flags,
         seen' \in Histories, faults' \in Nat, LauncherGood(a', has', seen'),
         \/ pc' \in {"launcher", "exit"}
         \/ pc' = "launch" /\ a'.name # "" /\ a'.target # "" /\ Shown(a', seen')
  PROVE  TypeInv' /\ Prepared' /\ Quiet
<1>1. TypeInv'
  BY DEF TypeInv
<1>2. LauncherGood(a, has, seen)' /\ (Shown(a, seen)' <=> Shown(a', seen'))
  BY DEF LauncherGood, Shown, OfMine, Sealed, Compressed, ActionString
<1>3. Prepared'
  BY <1>2 DEF Prepared, StartGood, SignGood, MigGood, TargetGood, ConsoleGood
<1> QED
  BY <1>1, <1>3 DEF Quiet

(* A step that changes neither target, times nor signatures, and counts as an edit.*)
LEMMA EditKeeps ==
  ASSUME TypeInv, Prepared, Launcher, Edits, UNCHANGED <<pc, faults>>, a' \in Actions, has' \subseteq Flags,
         has' \ {"compress"} = has \ {"compress"},
         a'.target = a.target, a'.sigs = a.sigs, a'.from = a.from, a'.until = a.until
  PROVE  TypeInv' /\ Prepared' /\ Quiet
<1>1. pc = "launcher" /\ UNCHANGED <<db, program, now>> /\ LauncherGood(a, has, seen)
  BY DEF Launcher, Prepared, ConsoleGood
<1>2. seen' = [seen EXCEPT !.edited = @ \/ "signatures" \in has] /\ seen \in Histories /\ faults' \in Nat
  BY DEF Edits, TypeInv
<1>3. /\ seen' \in Histories /\ seen'.shown = seen.shown /\ seen'.blind = seen.blind /\ seen'.loaded = seen.loaded
      /\ "signatures" \in has => seen'.edited
  BY <1>2 DEF Histories
<1>4. \A f \in {"target", "times", "signatures"} : f \in has' <=> f \in has
  OBVIOUS
<1>5. LauncherGood(a', has', seen')
  BY <1>1, <1>3, <1>4 DEF LauncherGood, Shown, OfMine
<1> QED
  BY <1>1, <1>2, <1>3, <1>5, LauncherKeeps

LEMMA OperationsKeep ==
  ASSUME TypeInv, Prepared PROVE
  /\ AddOperation => TypeInv' /\ Prepared' /\ Quiet
  /\ \A i \in DOMAIN a.ops : DelOperation(i) => TypeInv' /\ Prepared' /\ Quiet
  /\ CompressTrue => TypeInv' /\ Prepared' /\ Quiet
  /\ SetName => TypeInv' /\ Prepared' /\ Quiet
<1>1. a \in Actions /\ has \subseteq Flags /\ a.ops \in Seq(Operations)
  BY ActionFields DEF TypeInv
<1>2. ASSUME NEW ops \in Seq(Operations), NEW nil \in BOOLEAN
      PROVE  LET b == [a EXCEPT !.ops = ops, !.nil = nil] IN
             b \in Actions /\ b.target = a.target /\ b.sigs = a.sigs /\ b.from = a.from /\ b.until = a.until
  BY <1>1 DEF Actions
<1>3. ASSUME NEW ops \in Seq(Operations)
      PROVE  LET b == [a EXCEPT !.ops = ops] IN
             b \in Actions /\ b.target = a.target /\ b.sigs = a.sigs /\ b.from = a.from /\ b.until = a.until
  BY <1>1 DEF Actions
<1>4. ASSUME AddOperation PROVE TypeInv' /\ Prepared' /\ Quiet
  <2> DEFINE op == Operation("ping", "compress" \in has)
             ops == Append(a.ops, op)
             nil == FALSE
  <2>1. op \in Operations
    <3> DEFINE w == "compress" \in has
    <3>1. w \in BOOLEAN
      OBVIOUS
    <3> HIDE DEF w
    <3>2. Operation("ping", w) \in Operations
      BY <3>1, InputsAreWellFormed DEF Operation, Operations
    <3> QED
      BY <3>2 DEF w
  <2> HIDE DEF op
  <2>2. ops \in Seq(Operations) /\ nil \in BOOLEAN
    BY <1>1, <2>1
  <2> HIDE DEF ops, nil
  <2>3. a' = [a EXCEPT !.ops = ops, !.nil = nil] /\ Launcher /\ Edits /\ UNCHANGED <<pc, has, faults>>
    BY <1>4 DEF AddOperation, op, ops, nil
  <2>4. a' \in Actions /\ a'.target = a.target /\ a'.sigs = a.sigs /\ a'.from = a.from /\ a'.until = a.until
    BY <1>2, <2>2, <2>3
  <2> QED
    BY <1>1, <2>3, <2>4, EditKeeps
<1>5. ASSUME NEW i \in DOMAIN a.ops, DelOperation(i) PROVE TypeInv' /\ Prepared' /\ Quiet
  <2> DEFINE ops == RemoveAt(a.ops, i)
  <2>1. ops \in Seq(Operations)
    <3>1. i \in 1..Len(a.ops) /\ Len(a.ops) \in Nat
      BY <1>1, LenProperties
    <3>2. SubSeq(a.ops, 1, i - 1) \in Seq(Operations) /\ SubSeq(a.ops, i + 1, Len(a.ops)) \in Seq(Operations)
      BY <1>1, <3>1, SubSeqProperties
    <3> QED
      BY <3>2, ConcatProperties DEF RemoveAt
  <2> HIDE DEF ops
  <2>2. a' = [a EXCEPT !.ops = ops] /\ Launcher /\ Edits /\ UNCHANGED <<pc, has, faults>>
    BY <1>5 DEF DelOperation, ops
  <2>3. a' \in Actions /\ a'.target = a.target /\ a'.sigs = a.sigs /\ a'.from = a.from /\ a'.until = a.until
    BY <1>3, <2>1, <2>2
  <2> QED
    BY <1>1, <2>2, <2>3, EditKeeps
<1>6. ASSUME CompressTrue PROVE TypeInv' /\ Prepared' /\ Quiet
  <2> DEFINE ops == [i \in DOMAIN a.ops |-> [a.ops[i] EXCEPT !.want = TRUE]]
  <2>1. ops \in Seq(Operations)
    <3>1. Len(a.ops) \in Nat /\ DOMAIN a.ops = 1..Len(a.ops) /\ \A i \in DOMAIN a.ops : a.ops[i] \in Operations
      BY <1>1, LenProperties, ElementOfSeq
    <3>2. \A o \in Operations : [o EXCEPT !.want = TRUE] \in Operations
      BY DEF Operations
    <3>3. ops \in [1..Len(a.ops) -> Operations]
      BY <3>1, <3>2
    <3> QED
      BY <3>1, <3>3, SeqDef
  <2> HIDE DEF ops
  <2>2. a' = [a EXCEPT !.ops = ops] /\ Launcher /\ Edits /\ UNCHANGED <<pc, faults>> /\ has' = has \union {"compress"}
    BY <1>6 DEF CompressTrue, ops
  <2>3. a' \in Actions /\ a'.target = a.target /\ a'.sigs = a.sigs /\ a'.from = a.from /\ a'.until = a.until
    BY <1>3, <2>1, <2>2
  <2>4. has' \subseteq Flags /\ has' \ {"compress"} = has \ {"compress"}
    BY <1>1, <2>2 DEF Flags
  <2> QED
    BY <2>2, <2>3, <2>4, EditKeeps
<1>7. ASSUME SetName PROVE TypeInv' /\ Prepared' /\ Quiet
  <2> DEFINE name == "named"
  <2>1. name \in Texts
    BY InputsAreWellFormed
  <2> HIDE DEF name
  <2>2. a' = [a EXCEPT !.name = name] /\ Launcher /\ Edits /\ UNCHANGED <<pc, has, faults>>
    BY <1>7 DEF SetName, name
  <2>3. a' \in Actions /\ a'.target = a.target /\ a'.sigs = a.sigs /\ a'.from = a.from /\ a'.until = a.until
    BY <1>1, <2>1, <2>2 DEF Actions
  <2> QED
    BY <1>1, <2>2, <2>3, EditKeeps
<1> QED
  BY <1>4, <1>5, <1>6, <1>7

LEMMA CompressFalseKeeps ==
  ASSUME TypeInv, Prepared, CompressFalse PROVE TypeInv' /\ Prepared' /\ Quiet
<1> DEFINE ops == [i \in DOMAIN a.ops |-> [DecompressOperationParam(a.ops[i]) EXCEPT !.want = FALSE]]
           none == << >>
<1>1. a \in Actions /\ has \subseteq Flags /\ a.ops \in Seq(Operations) /\ seen \in Histories /\ faults \in Nat
  BY ActionFields DEF TypeInv
<1>2. ops \in Seq(Operations)
  <2>1. Len(a.ops) \in Nat /\ DOMAIN a.ops = 1..Len(a.ops) /\ \A i \in DOMAIN a.ops : a.ops[i] \in Operations
    BY <1>1, LenProperties, ElementOfSeq
  <2>2. \A o \in Operations : [DecompressOperationParam(o) EXCEPT !.want = FALSE] \in Operations
    BY DEF Operations, DecompressOperationParam
  <2>3. ops \in [1..Len(a.ops) -> Operations]
    BY <2>1, <2>2
  <2> QED
    BY <2>1, <2>3, SeqDef
<1>3. none \in Seq([key : Texts, over : SignedParts]) /\ DOMAIN none = {}
  OBVIOUS
<1> HIDE DEF ops
<1>4. a' = [a EXCEPT !.ops = ops, !.sigs = none] /\ has' = has \ {"compress", "signatures"} /\ UNCHANGED <<pc, faults, seen>>
  BY DEF CompressFalse, ops
<1> HIDE DEF none
<1>5. a' \in Actions /\ a'.target = a.target /\ a'.sigs = none /\ a'.from = a.from /\ a'.until = a.until
  BY <1>1, <1>2, <1>3, <1>4 DEF Actions
<1>6. pc = "launcher" /\ UNCHANGED <<db, program, now>> /\ LauncherGood(a, has, seen)
  BY DEF CompressFalse, Launcher, Prepared, ConsoleGood
<1>7. OfMine(a')
  BY <1>3, <1>5 DEF OfMine
<1>8. has' \subseteq Flags /\ "signatures" \notin has' /\ (\A f \in {"target", "times"} : f \in has' <=> f \in has)
  BY <1>1, <1>4
<1>9. LauncherGood(a', has', seen')
  BY <1>4, <1>5, <1>6, <1>7, <1>8 DEF LauncherGood, Shown, none
<1> QED
  BY <1>1, <1>4, <1>5, <1>6, <1>8, <1>9, LauncherKeeps

LEMMA SetTargetKeeps ==
  ASSUME TypeInv, Prepared, NEW t \in Targets, SetTarget(t) PROVE TypeInv' /\ Prepared' /\ Quiet
<1> DEFINE target == ResolveTargetMacro(t)
<1>1. PICK r \in Replies :
        LET shown == EvaluateAgentTarget(target, r).code = 200 IN
        /\ Launcher /\ Do("GET", r)
        /\ a' = [a EXCEPT !.target = target]
        /\ has' = IF shown THEN has \union {"target"} ELSE has
        /\ seen' = [seen EXCEPT !.shown = IF shown THEN @ \union {target} ELSE @,
                                !.blind = @ \/ (~shown /\ "target" \in has),
                                !.edited = @ \/ "signatures" \in has]
        /\ UNCHANGED pc
  BY DEF SetTarget
<1>2. PICK shown \in BOOLEAN : shown <=> EvaluateAgentTarget(target, r).code = 200
  OBVIOUS
<1>3. target \in Texts
  BY InputsAreWellFormed DEF ResolveTargetMacro
<1> HIDE DEF target
<1>4. a \in Actions /\ has \subseteq Flags /\ seen \in Histories /\ faults' \in Nat
  BY <1>1, DoIs DEF TypeInv
<1>5. a' \in Actions /\ a'.target = target /\ a'.sigs = a.sigs /\ a'.from = a.from /\ a'.until = a.until
  BY <1>1, <1>3, <1>4 DEF Actions
<1>6. seen' = [seen EXCEPT !.shown = IF shown THEN @ \union {target} ELSE @,
                           !.blind = @ \/ (~shown /\ "target" \in has),
                           !.edited = @ \/ "signatures" \in has]
      /\ has' = IF shown THEN has \union {"target"} ELSE has
  BY <1>1, <1>2
<1>7. /\ seen' \in Histories /\ seen'.loaded = seen.loaded
      /\ shown => target \in seen'.shown
      /\ ~shown /\ "target" \in has => seen'.blind
      /\ "signatures" \in has => seen'.edited
  BY <1>3, <1>4, <1>6 DEF Histories
<1>8. has' \subseteq Flags /\ (\A f \in {"signatures", "times"} : f \in has' <=> f \in has)
      /\ ("target" \in has' => shown \/ "target" \in has)
  BY <1>4, <1>6 DEF Flags
<1>9. pc = "launcher" /\ UNCHANGED <<db, program, now, pc>> /\ LauncherGood(a, has, seen)
  BY <1>1 DEF Launcher, Prepared, ConsoleGood
<1>10. LauncherGood(a', has', seen')
  BY <1>5, <1>7, <1>8, <1>9 DEF LauncherGood, Shown, OfMine
<1> QED
  BY <1>4, <1>5, <1>7, <1>8, <1>9, <1>10, LauncherKeeps

LEMMA SetTimesKeeps ==
  ASSUME TypeInv, Prepared, NEW form, SetTimes(form) PROVE TypeInv' /\ Prepared' /\ Quiet
<1>1. a \in Actions /\ has \subseteq Flags /\ seen \in Histories /\ faults' \in Nat
  BY DEF TypeInv, SetTimes
<1>2. pc = "launcher" /\ UNCHANGED <<db, program, now, pc>> /\ LauncherGood(a, has, seen)
  BY DEF SetTimes, Launcher, Prepared, ConsoleGood
<1>3. seen' = [seen EXCEPT !.edited = @ \/ "signatures" \in has]
  BY DEF SetTimes, Edits
<1>4. /\ seen' \in Histories /\ seen'.shown = seen.shown /\ seen'.blind = seen.blind /\ seen'.loaded = seen.loaded
      /\ "signatures" \in has => seen'.edited
  BY <1>1, <1>3 DEF Histories
<1>5. CASE form = "now"
  <2>1. a' = WithTimes(a) /\ has' = has \union {"times"}
    BY <1>5 DEF SetTimes
  <2>2. /\ a' \in Actions /\ a'.from <= a'.until /\ Zero <= a'.until
        /\ a'.target = a.target /\ a'.sigs = a.sigs
    BY <1>1, <2>1, TimesAre
  <2>3. has' \subseteq Flags /\ (\A f \in {"signatures", "target"} : f \in has' <=> f \in has) /\ "times" \in has'
    BY <1>1, <2>1 DEF Flags
  <2>4. LauncherGood(a', has', seen')
    BY <1>2, <1>4, <2>2, <2>3 DEF LauncherGood, Shown, OfMine
  <2> QED
    BY <1>1, <1>2, <1>4, <2>2, <2>3, <2>4, LauncherKeeps
<1>6. CASE form # "now"
  <2>1. a' = [a EXCEPT !.from = Zero] /\ has' = has
    BY <1>6 DEF SetTimes
  <2>2. a' \in Actions /\ a'.from = Zero /\ a'.until = a.until /\ a'.target = a.target /\ a'.sigs = a.sigs
    BY <1>1, <2>1 DEF Actions, Zero
  <2>3. LauncherGood(a', has', seen')
    BY <1>2, <1>4, <2>1, <2>2 DEF LauncherGood, Shown, OfMine
  <2> QED
    BY <1>1, <1>2, <1>4, <2>1, <2>2, <2>3, LauncherKeeps
<1> QED
  BY <1>5, <1>6

LEMMA LoadKeeps ==
  ASSUME TypeInv, Prepared, NEW f \in DOMAIN Files, Load(f) PROVE TypeInv' /\ Prepared' /\ Quiet
<1>1. has \subseteq Flags /\ seen \in Histories /\ faults' \in Nat
  BY DEF TypeInv, Load
<1>2. pc = "launcher" /\ UNCHANGED <<db, program, now, pc, has>> /\ LauncherGood(a, has, seen)
  BY DEF Load, Launcher, Prepared, ConsoleGood
<1>3. a' = Files[f] /\ seen' = [seen EXCEPT !.loaded = TRUE, !.blind = @ \/ "target" \in has]
  BY DEF Load
<1>4. seen' \in Histories /\ seen'.loaded /\ ("target" \in has => seen'.blind)
  BY <1>1, <1>3 DEF Histories
<1>5. a' \in Actions
  BY <1>3, InputsAreWellFormed
<1>6. LauncherGood(a', has', seen')
  BY <1>2, <1>4 DEF LauncherGood, Shown
<1> QED
  BY <1>1, <1>2, <1>4, <1>5, <1>6, LauncherKeeps

LEMMA SignKeeps ==
  ASSUME TypeInv, Prepared, Sign PROVE TypeInv' /\ Prepared' /\ Quiet
<1> DEFINE y == SignAction(CompressAction(a))
<1>1. a \in Actions /\ has \subseteq Flags /\ seen \in Histories /\ faults' \in Nat /\ UNCHANGED seen
  BY DEF TypeInv, Sign
<1>2. pc = "launcher" /\ UNCHANGED <<db, program, now>> /\ LauncherGood(a, has, seen) /\ "times" \in has
  BY DEF Sign, Launcher, Prepared, ConsoleGood
<1>3. /\ y \in Actions /\ y.target = a.target /\ y.from = a.from /\ y.until = a.until
      /\ OfMine(a) => OfMine(y)
      /\ a.sigs = << >> \/ Sealed(a) => Sealed(y)
  BY <1>1, SealedBySigning
<1> HIDE DEF y
<1>4. CASE CanSign
  <2>1. a' = y /\ has' = has \union {"signatures"} /\ UNCHANGED pc
    BY <1>4 DEF Sign, y
  <2>2. has' \subseteq Flags /\ (\A f \in {"times", "target"} : f \in has' <=> f \in has) /\ "signatures" \in has'
    BY <1>1, <2>1 DEF Flags
  <2>3. LauncherGood(y, has', seen)
    BY <1>2, <1>3, <2>2 DEF LauncherGood, Shown
  <2> QED
    BY <1>1, <1>2, <1>3, <2>1, <2>2, <2>3, LauncherKeeps
<1>5. CASE ~CanSign
  <2>1. pc' = "exit" /\ UNCHANGED <<a, has>>
    BY <1>5 DEF Sign, Goto
  <2> QED
    BY <1>1, <1>2, <2>1, LauncherKeeps
<1> QED
  BY <1>4, <1>5

LEMMA LaunchFirstHalf ==
  ASSUME TypeInv, Prepared, LaunchEvaluate \/ LaunchAtOnce PROVE TypeInv' /\ Prepared' /\ Quiet
<1>1. a \in Actions /\ has \subseteq Flags /\ seen \in Histories /\ a.target \in Texts
  BY ActionFields DEF TypeInv
<1>2. CASE LaunchEvaluate
  <2>1. PICK r \in Replies :
          LET shown == EvaluateAgentTarget(a.target, r).code = 200 IN
          /\ pc = "launcher" /\ a.name # "" /\ a.target # "" /\ Do("GET", r)
          /\ seen' = [seen EXCEPT !.shown = IF shown THEN @ \union {a.target} ELSE @]
          /\ \/ shown /\ (pc' = "launch" \/ UNCHANGED pc)
             \/ ~shown /\ pc' = "exit"
          /\ UNCHANGED <<db, program, a, has, now>>
    BY <1>2 DEF LaunchEvaluate, Goto
  <2>2. PICK shown \in BOOLEAN : shown <=> EvaluateAgentTarget(a.target, r).code = 200
    OBVIOUS
  <2>3. faults' \in Nat
    BY <2>1, DoIs DEF TypeInv
  <2>4. /\ seen' = [seen EXCEPT !.shown = IF shown THEN @ \union {a.target} ELSE @]
        /\ pc' = "launch" => shown
    BY <2>1, <2>2
  <2>5. /\ seen' \in Histories /\ seen.shown \subseteq seen'.shown /\ (shown => a.target \in seen'.shown)
        /\ seen'.blind = seen.blind /\ seen'.loaded = seen.loaded /\ seen'.edited = seen.edited
    BY <1>1, <2>4 DEF Histories
  <2>6. LauncherGood(a, has, seen)
    BY <2>1 DEF Prepared, ConsoleGood
  <2>7. LauncherGood(a, has, seen') /\ (shown => Shown(a, seen'))
    BY <2>5, <2>6 DEF LauncherGood, Shown
  <2>8. LauncherGood(a', has', seen') /\ (shown => Shown(a', seen')) /\ a' = a /\ a'.name # "" /\ a'.target # ""
    BY <2>1, <2>7
  <2>9. pc = "launcher" /\ UNCHANGED <<db, program, now, has>> /\ (pc' \in {"launcher", "exit"} \/ pc' = "launch")
    BY <2>1
  <2> QED
    BY <1>1, <2>3, <2>4, <2>5, <2>8, <2>9, LauncherKeeps
<1>3. CASE LaunchAtOnce
  <2>1. /\ pc = "launcher" /\ a.name # "" /\ a.target # "" /\ "target" \in has /\ pc' = "launch"
        /\ UNCHANGED <<db, program, a, has, now, faults, seen>>
    BY <1>3 DEF LaunchAtOnce, Goto
  <2>2. LauncherGood(a, has, seen) /\ Shown(a, seen)
    BY <2>1 DEF Prepared, ConsoleGood, LauncherGood
  <2> QED
    BY <1>1, <2>1, <2>2, LauncherKeeps DEF TypeInv
<1> QED
  BY <1>2, <1>3

(* What the launcher posts, when nothing was loaded: an action of the user.        *)
LEMMA LaunchedIs ==
  ASSUME TypeInv, Prepared, pc = "launch"
  PROVE  LET x == Launched(Timed(a)) IN
         /\ x \in Actions /\ x.name = a.name /\ x.target = a.target
         /\ ~seen.loaded => OfMine(x)
         /\ ~seen.loaded /\ ~seen.edited => Sealed(x) /\ x.from <= x.until
<1> DEFINE t == Timed(a)
           x == Launched(t)
<1>1. a \in Actions /\ LauncherGood(a, has, seen)
  BY DEF TypeInv, Prepared, ConsoleGood
<1>2. /\ WithTimes(a) \in Actions /\ WithTimes(a).from <= WithTimes(a).until
      /\ WithTimes(a).name = a.name /\ WithTimes(a).target = a.target /\ WithTimes(a).sigs = a.sigs
  BY <1>1, TimesAre
<1>3. /\ t \in Actions /\ t.name = a.name /\ t.target = a.target /\ t.sigs = a.sigs
      /\ "times" \in has => t = a
      /\ ~seen.loaded => t.from <= t.until
  BY <1>1, <1>2 DEF Timed, LauncherGood
<1> HIDE DEF t
<1>4. CASE "signatures" \in has
  <2>1. x = t
    BY <1>4 DEF Launched
  <2>2. ~seen.loaded => t = a /\ OfMine(a) /\ (~seen.edited => Sealed(a))
    BY <1>1, <1>3, <1>4 DEF LauncherGood
  <2> QED
    BY <1>3, <2>1, <2>2 DEF t
<1>5. CASE "signatures" \notin has
  <2>1. x = SignAction(CompressAction(t))
    BY <1>5 DEF Launched
  <2>2. ~seen.loaded => t.sigs = << >> /\ OfMine(a)
    BY <1>1, <1>3, <1>5 DEF LauncherGood
  <2>3. ~seen.loaded => OfMine(t)
    BY <1>3, <2>2 DEF OfMine
  <2>4. /\ x \in Actions /\ x.name = t.name /\ x.target = t.target /\ x.from = t.from /\ x.until = t.until
        /\ OfMine(t) => OfMine(x)
        /\ t.sigs = << >> => Sealed(x)
    BY <1>3, <2>1, SealedBySigning
  <2> HIDE DEF x
  <2> QED
    BY <1>3, <2>2, <2>3, <2>4 DEF t, x
<1> QED
  BY <1>4, <1>5

LEMMA LaunchLaunches ==
  ASSUME TypeInv, Prepared, Launch
  PROVE  TypeInv' /\ Prepared' /\ WasShown /\ WasSigned /\ (MyKey \in KnownKeys => NotRefused)
<1> DEFINE x == Launched(Timed(a))
           accepted == IF program.nofollow THEN "read" ELSE "follow"
<1>1. /\ pc = "launch" /\ a' = x /\ has' = {} /\ UNCHANGED <<program, now>>
      /\ \/ PostAction(x, accepted, "exit")
         \/ ~CanSign /\ pc' = "exit" /\ UNCHANGED <<db, faults, seen>>
  BY DEF Launch, Goto
<1>2. /\ x \in Actions /\ x.name = a.name /\ x.target = a.target
      /\ ~seen.loaded => OfMine(x)
      /\ ~seen.loaded /\ ~seen.edited => Sealed(x) /\ x.from <= x.until
  BY <1>1, LaunchedIs
<1> HIDE DEF x
<1>3. a.name # "" /\ a.target # "" /\ Shown(a, seen)
  BY <1>1 DEF Prepared, ConsoleGood
<1>4. accepted \in {"read", "follow"}
  OBVIOUS
<1> HIDE DEF accepted
<1>5. /\ faults' \in Nat /\ SameHistory /\ pc' \in {accepted, "exit"} /\ DOMAIN db' = DOMAIN db
      /\ Inserted => CreateActionAccepts(x)
      /\ CanSign /\ pc' = "exit" /\ faults' = faults => ~CreateActionAccepts(x)
  <2>1. CASE PostAction(x, accepted, "exit")
    <3>1. accepted # "exit"
      BY <1>4
    <3> QED
      BY <2>1, <3>1, PostIs DEF Inserted
  <2>2. CASE ~CanSign /\ pc' = "exit" /\ UNCHANGED <<db, faults, seen>>
    BY <2>2 DEF TypeInv, SameHistory, Inserted
  <2> QED
    BY <1>1, <2>1, <2>2
<1>6. TypeInv'
  BY <1>1, <1>2, <1>5 DEF TypeInv, SameHistory
<1>7. Prepared'
  BY <1>4, <1>5 DEF Prepared, StartGood, SignGood, MigGood, TargetGood, ConsoleGood
<1>8. WasShown
  BY <1>1, <1>2, <1>3 DEF WasShown, Shown
<1>9. WasSigned
  <2>1. Inserted => /\ \A i \in DOMAIN x.sigs : x.sigs[i].over = ActionString(x)
                    /\ OfMine(x) => \E i \in DOMAIN x.sigs : x.sigs[i].key = MyKey
                    /\ \E i \in DOMAIN x.sigs : TRUE
    BY <1>2, <1>5, AcceptedIsSigned
  <2> QED
    BY <1>1, <1>2, <2>1 DEF WasSigned
<1>10. ASSUME MyKey \in KnownKeys PROVE NotRefused
  <2>1. ~seen.loaded /\ ~seen.edited /\ ~x.nil /\ now <= x.until => CreateActionAccepts(x)
    BY <1>2, <1>3, <1>10, ReadyIsAccepted
  <2>2. ~seen.loaded /\ ~seen.edited => now > x.until \/ now <= x.until
    BY <1>2, InTime
  <2> QED
    BY <1>1, <1>5, <2>1, <2>2 DEF NotRefused
<1> QED
  BY <1>6, <1>7, <1>8, <1>9, <1>10

--------------------------------------------------------------------------------
(* The start of the console, and copies.                                         *)

LEMMA ConsoleStartKeeps ==
  ASSUME TypeInv, Prepared, ConsoleStart PROVE TypeInv' /\ Prepared' /\ Quiet
<1>1. /\ pc = "start" /\ program.mode = "console" /\ program \in Programs
      /\ has = {} /\ ~seen.loaded
      /\ pc' \in {"exit", "launcher", "read"} /\ (pc' = "launcher" => program.id = 0)
      /\ a' = program.action /\ UNCHANGED <<db, program, has, now, faults, seen>>
  BY DEF ConsoleStart, TypeInv, Prepared, StartGood, Goto
<1>2. a' \in Actions /\ (pc' = "launcher" => a' = NewAction)
  BY <1>1, InputsAreWellFormed
<1>3. TypeInv'
  BY <1>1, <1>2 DEF TypeInv
<1>4. pc' = "launcher" => a'.sigs = << >>
  BY <1>2, NewActionIs
<1>5. pc' = "launcher" => LauncherGood(a, has, seen)'
  BY <1>1, <1>4 DEF LauncherGood, OfMine
<1>6. Prepared'
  BY <1>1, <1>5 DEF Prepared, StartGood, SignGood, MigGood, TargetGood, ConsoleGood
<1> QED
  BY <1>1, <1>3, <1>6 DEF Quiet

LEMMA ReaderCopyKeeps ==
  ASSUME TypeInv, Prepared, ReaderCopy PROVE TypeInv' /\ Prepared' /\ Quiet
<1> DEFINE none == << >>
<1>1. none \in Seq([key : Texts, over : SignedParts]) /\ DOMAIN none = {} /\ Zero \in Int
  BY DEF Zero
<1>2. /\ pc = "reader" /\ pc' = "launcher" /\ has' = {} /\ a' = [a EXCEPT !.from = Zero, !.until = Zero, !.sigs = none]
      /\ seen' = [seen EXCEPT !.blind = FALSE, !.edited = FALSE, !.loaded = FALSE]
      /\ UNCHANGED <<db, program, now, faults>>
  BY DEF ReaderCopy, Goto
<1> HIDE DEF none
<1>3. a' \in Actions /\ a'.sigs = none
  BY <1>1, <1>2 DEF TypeInv, Actions
<1>4. seen' \in Histories
  BY <1>2 DEF TypeInv, Histories
<1>5. TypeInv'
  BY <1>2, <1>3, <1>4 DEF TypeInv
<1>6. LauncherGood(a, has, seen)'
  BY <1>1, <1>2, <1>3 DEF LauncherGood, OfMine, none
<1>7. Prepared'
  BY <1>2, <1>6 DEF Prepared, StartGood, SignGood, MigGood, TargetGood, ConsoleGood
<1> QED
  BY <1>2, <1>5, <1>7 DEF Quiet

--------------------------------------------------------------------------------
(* Every step, and every behaviour.                                               *)

LEMMA Step ==
  ASSUME TypeInv, Prepared, [ClientNext]_cvars
  PROVE  TypeInv' /\ Prepared' /\ WasShown /\ WasSigned /\ (MyKey \in KnownKeys => NotRefused)
<1>1. \/ TypeInv' /\ Prepared' /\ Quiet
      \/ MigPost \/ Launch
  <2>1. ASSUME Inert PROVE TypeInv' /\ Prepared' /\ Quiet
    BY <2>1, InertKeeps DEF Inert
  <2>2. CASE MigStep
    BY <2>1, <2>2, MigBuildKeeps, MigSignKeeps, MigEvaluateKeeps, MigCountdownKeeps, ReadingIsInert DEF MigStep
  <2>3. CASE FollowStep \/ StopFollow \/ Interrupt \/ WaitInterrupt
    BY <2>1, <2>3, FollowIsInert
  <2>4. CASE LauncherStep
    BY <2>4, ConsoleStartKeeps, OperationsKeep, CompressFalseKeeps, SetTargetKeeps, SetTimesKeeps, LoadKeeps, SignKeeps,
       LaunchFirstHalf DEF LauncherStep
  <2>5. CASE ReaderStep
    BY <2>1, <2>5, ReaderCopyKeeps, ReadingIsInert
  <2>6. CASE ServerStep
    BY <2>1, <2>6, ServerIsInert
  <2>7. CASE SearchStep \/ Tick \/ UNCHANGED cvars
    BY <2>1, <2>7, OtherIsInert
  <2> QED
    BY <2>2, <2>3, <2>4, <2>5, <2>6, <2>7 DEF ClientNext
<1>2. CASE TypeInv' /\ Prepared' /\ Quiet
  BY <1>2, QuietLaunches
<1>3. CASE MigPost
  BY <1>3, MigPostLaunches
<1>4. CASE Launch
  BY <1>4, LaunchLaunches
<1> QED
  BY <1>1, <1>2, <1>3, <1>4

LEMMA Start ==
  ASSUME ClientInit PROVE TypeInv /\ Prepared
<1>1. a \in Actions
  BY NewActionIs DEF ClientInit
<1>2. MaxFaults \in Nat
  BY ClientBounds
<1>3. {"actions", "signatures", "commands"} \subseteq DOMAIN db
  BY InputsAreWellFormed DEF ClientInit
<1>4. seen \in Histories /\ ~seen.loaded /\ pc = "start" /\ has = {} /\ now = 0 /\ faults = MaxFaults /\ program \in Programs
  BY DEF ClientInit, Histories
<1>5. TypeInv
  BY <1>1, <1>2, <1>3, <1>4 DEF TypeInv
<1>6. Prepared
  BY <1>4 DEF Prepared, StartGood, SignGood, MigGood, TargetGood, ConsoleGood
<1> QED
  BY <1>5, <1>6

LEMMA AlwaysPrepared == ClientSpec => [](TypeInv /\ Prepared)
<1>1. ClientInit => TypeInv /\ Prepared
  BY Start
<1>2. TypeInv /\ Prepared /\ [ClientNext]_cvars => (TypeInv /\ Prepared)'
  BY Step
<1> QED
  BY <1>1, <1>2, PTL DEF ClientSpec

--------------------------------------------------------------------------------
(* An action is only launched on a target whose agents the user has been shown:    *)
(* mig evaluates the target before it counts down, and what the launcher           *)
(* remembers of the target follows it through every edit.                         *)
THEOREM LaunchShown == ClientSpec => LaunchWasShown
<1> DEFINE A == DOMAIN db.actions' # DOMAIN db.actions => a'.target \in seen.shown \/ seen.blind
<1>1. TypeInv /\ Prepared /\ [ClientNext]_cvars => [A]_cvars
  BY Step DEF WasShown, Inserted
<1>2. ClientSpec => [][A]_cvars
  <2> HIDE DEF A
  <2> QED
    BY <1>1, AlwaysPrepared, PTL DEF ClientSpec
<1> QED
  BY <1>2 DEF LaunchWasShown

(* What is launched is what was signed, by the user or by those who signed the     *)
(* file; and when the API knows the user's key, a request that was answered is     *)
(* refused only if the action was edited after it was signed, loaded, without       *)
(* operations or expired.                                                         *)
THEOREM LaunchSigned ==
  ASSUME MyKey \in KnownKeys
  PROVE  ClientSpec => LaunchIsSigned
<1> DEFINE A == /\ DOMAIN db.actions' # DOMAIN db.actions =>
                     /\ \A i \in DOMAIN a'.sigs : a'.sigs[i].over = ActionString(a')
                     /\ \E i \in DOMAIN a'.sigs : a'.sigs[i].key = MyKey \/ seen.loaded
                /\ CanSign /\ pc \in {"post", "launch"} /\ pc' = "exit" /\ faults' = faults =>
                     seen.edited \/ seen.loaded \/ a'.nil \/ now > a'.until
<1>1. TypeInv /\ Prepared /\ [ClientNext]_cvars => [A]_cvars
  BY Step DEF WasSigned, NotRefused, Inserted
<1>2. ClientSpec => [][A]_cvars
  <2> HIDE DEF A
  <2> QED
    BY <1>1, AlwaysPrepared, PTL DEF ClientSpec
<1> QED
  BY <1>2 DEF LaunchIsSigned

--------------------------------------------------------------------------------
(* Rows in order. The place of a row is the number of rows before it.              *)

Distinct(S, o) ==
  /\ IsFiniteSet(S) /\ \A i \in S : Key(i, o) \in Int
  /\ \A i, j \in S : i # j => Key(i, o) # Key(j, o)

LEMMA PlaceIs ==
  ASSUME NEW S, NEW o, Distinct(S, o)
  PROVE  /\ Cardinality(S) \in Nat
         /\ \A i \in S : Cardinality(Before(i, S, o)) \in 0..(Cardinality(S) - 1)
         /\ \A i, j \in S : Cardinality(Before(i, S, o)) = Cardinality(Before(j, S, o)) => i = j
<1> DEFINE n == Cardinality(S)
           B(i) == Before(i, S, o)
<1>1. IsFiniteSet(S) /\ n \in Nat
  BY FS_CardinalityType DEF Distinct
<1>2. ASSUME NEW i \in S PROVE IsFiniteSet(B(i)) /\ Cardinality(B(i)) \in 0..(n - 1) /\ B(i) \subseteq S
  <2>1. B(i) \subseteq S /\ i \notin B(i)
    BY DEF Before, Distinct
  <2>2. IsFiniteSet(B(i)) /\ Cardinality(B(i)) <= n /\ (n = Cardinality(B(i)) => S = B(i))
    BY <1>1, <2>1, FS_Subset
  <2>3. Cardinality(B(i)) \in Nat
    BY <2>2, FS_CardinalityType
  <2> QED
    BY <1>1, <2>1, <2>2, <2>3
<1>3. ASSUME NEW i \in S, NEW j \in S, Key(i, o) < Key(j, o) PROVE Cardinality(B(i)) # Cardinality(B(j))
  <2>1. B(i) \subseteq B(j) /\ i \in B(j) /\ i \notin B(i)
    BY <1>3 DEF Before, Distinct
  <2>2. Cardinality(B(j)) = Cardinality(B(i)) => B(j) = B(i)
    BY <1>2, <2>1, FS_Subset
  <2> QED
    BY <2>1, <2>2
<1>4. \A i, j \in S : i # j => Key(i, o) < Key(j, o) \/ Key(j, o) < Key(i, o)
  BY DEF Distinct
<1> QED
  BY <1>1, <1>2, <1>3, <1>4

(* Every row is at its place.                                                     *)
LEMMA SortIs ==
  ASSUME NEW S, NEW o, Distinct(S, o)
  PROVE  LET t == Sorted(S, o)
             n == Cardinality(S)
         IN /\ n \in Nat /\ t \in [1..n -> S] /\ t \in Seq(S) /\ Len(t) = n
            /\ \A k \in 1..n : Cardinality(Before(t[k], S, o)) = k - 1
            /\ \A i \in S : t[Cardinality(Before(i, S, o)) + 1] = i
<1> DEFINE n == Cardinality(S)
           t == Sorted(S, o)
           place == [i \in S |-> Cardinality(Before(i, S, o))]
<1>1. n \in Nat /\ (\A i \in S : place[i] \in 0..(n - 1)) /\ (\A i, j \in S : place[i] = place[j] => i = j)
  BY PlaceIs
<1>2. place \in Injection(S, 0..(n - 1))
  BY <1>1 DEF Injection, IsInjective
<1>3. IsFiniteSet(S) /\ IsFiniteSet(0..(n - 1)) /\ Cardinality(0..(n - 1)) = n
  <2> DEFINE m == n - 1
  <2>1. m \in Int /\ (0 > m => n = 0) /\ m - 0 + 1 = n
    BY <1>1
  <2> HIDE DEF m
  <2>2. IsFiniteSet(0..m) /\ Cardinality(0..m) = IF 0 > m THEN 0 ELSE m - 0 + 1
    BY <2>1, FS_Interval
  <2>3. IsFiniteSet(0..m) /\ Cardinality(0..m) = n
    BY <2>1, <2>2
  <2>4. IsFiniteSet(S)
    BY DEF Distinct
  <2> QED
    BY <2>3, <2>4 DEF m
<1>4. place \in Surjection(S, 0..(n - 1))
  BY <1>2, <1>3, FS_Injection
<1>5. \A k \in 1..n : \E i \in S : place[i] = k - 1
  <2> SUFFICES ASSUME NEW k \in 1..n PROVE \E i \in S : place[i] = k - 1
    OBVIOUS
  <2>1. k - 1 \in 0..(n - 1)
    BY <1>1
  <2> QED
    BY <1>4, <2>1 DEF Surjection
<1>6. t = [k \in 1..n |-> CHOOSE i \in S : Cardinality(Before(i, S, o)) = k - 1]
  BY SortedIs
<1>7. \A i \in S : place[i] = Cardinality(Before(i, S, o))
  OBVIOUS
<1> HIDE DEF place, t
<1>8. \A k \in 1..n : t[k] \in S /\ Cardinality(Before(t[k], S, o)) = k - 1
  BY <1>5, <1>6, <1>7
<1>9. t \in [1..n -> S]
  BY <1>6, <1>8
<1>10. t \in Seq(S) /\ Len(t) = n
  BY <1>1, <1>9, SeqDef, LenProperties
<1>11. ASSUME NEW i \in S PROVE t[place[i] + 1] = i
  <2>1. place[i] + 1 \in 1..n
    BY <1>1
  <2>2. t[place[i] + 1] \in S /\ Cardinality(Before(t[place[i] + 1], S, o)) = place[i]
    BY <1>1, <1>8, <2>1
  <2> QED
    BY <1>1, <1>7, <2>2
<1> QED
  BY <1>1, <1>7, <1>8, <1>9, <1>10, <1>11 DEF t

(* A page has the rows whose places are on it.                                    *)
LEMMA PageOf ==
  ASSUME NEW S, NEW o, Distinct(S, o), NEW p, p.offset \in Nat, p.limit \in Nat
  PROVE  LET rows == Slice(Sorted(S, o), p) IN
         /\ rows \in Seq(S) /\ Len(rows) <= p.limit
         /\ ToSet(rows) = {i \in S : p.offset <= Cardinality(Before(i, S, o)) /\ Cardinality(Before(i, S, o)) < p.offset + p.limit}
         /\ rows = << >> => Cardinality(S) <= p.offset \/ p.limit = 0
<1> DEFINE t == Sorted(S, o)
           n == Cardinality(S)
           last == Min({p.offset + p.limit, Len(t)})
           rows == Slice(t, p)
           place(i) == Cardinality(Before(i, S, o))
           from == p.offset
           len == p.limit
<1>1. /\ n \in Nat /\ t \in [1..n -> S] /\ Len(t) = n
      /\ \A k \in 1..n : place(t[k]) = k - 1
      /\ \A i \in S : t[place(i) + 1] = i
  BY SortIs
<1>2. \A i \in S : place(i) \in 0..(n - 1)
  BY PlaceIs
<1>3. last = IF from + len <= n THEN from + len ELSE n
  <2>1. \A x, y \in Int : Min({x, y}) = IF x <= y THEN x ELSE y
    BY DEF Min
  <2> QED
    BY <1>1, <2>1
<1>4. rows = SubSeq(t, from + 1, last)
  BY SliceIs
<1> HIDE DEF t, place, rows, last, from, len
<1>5. from \in Nat /\ len \in Nat /\ last \in Int /\ last <= n /\ last <= from + len
  BY <1>1, <1>3 DEF from, len
<1>6. \A k \in (from + 1)..last : t[k] \in S /\ place(t[k]) = k - 1
  BY <1>1, <1>5
<1>7. /\ rows \in Seq(S) /\ Len(rows) = IF from + 1 <= last THEN last - from ELSE 0
      /\ \A k \in 1..(last - from) : rows[k] = t[from + k]
  <2>1. from + 1 \in Int /\ last \in Int /\ \A k \in (from + 1)..last : t[k] \in S
    BY <1>5, <1>6
  <2>2. /\ rows \in Seq(S) /\ Len(rows) = IF from + 1 <= last THEN last - (from + 1) + 1 ELSE 0
        /\ \A k \in 1..(last - (from + 1) + 1) : rows[k] = t[from + 1 + k - 1]
    BY <1>4, <2>1, SubSeqProperties
  <2>3. last - (from + 1) + 1 = last - from /\ \A k \in Int : from + 1 + k - 1 = from + k
    BY <1>5
  <2>4. rows \in Seq(S) /\ Len(rows) = IF from + 1 <= last THEN last - from ELSE 0
    BY <2>2, <2>3
  <2>5. ASSUME NEW k \in 1..(last - from) PROVE rows[k] = t[from + k]
    <3>1. rows[k] = t[from + 1 + k - 1]
      BY <2>2, <2>3
    <3>2. from + 1 + k - 1 = from + k
      BY <2>3
    <3> QED
      BY <3>1, <3>2
  <2> QED
    BY <2>4, <2>5
<1>8. Len(rows) <= len
  BY <1>5, <1>7
<1>9. DOMAIN rows = 1..Len(rows)
  BY <1>7, LenProperties
<1>10. \A i \in ToSet(rows) : i \in S /\ from <= place(i) /\ place(i) < from + len
  <2> SUFFICES ASSUME NEW k \in 1..Len(rows) PROVE rows[k] \in S /\ from <= place(rows[k]) /\ place(rows[k]) < from + len
    BY <1>9 DEF ToSet
  <2>1. k \in 1..(last - from) /\ from + k \in (from + 1)..last
    BY <1>5, <1>7
  <2> QED
    BY <1>5, <1>6, <1>7, <2>1
<1>11. \A i \in S : from <= place(i) /\ place(i) < from + len => i \in ToSet(rows)
  <2> SUFFICES ASSUME NEW i \in S, from <= place(i), place(i) < from + len PROVE i \in ToSet(rows)
    OBVIOUS
  <2> DEFINE k == place(i) + 1 - from
  <2>1. place(i) \in 0..(n - 1)
    BY <1>2
  <2>2. k \in 1..(last - from) /\ from + k = place(i) + 1
    BY <1>1, <1>3, <1>5, <2>1
  <2>3. rows[k] = i
    BY <1>1, <1>7, <2>2
  <2>4. k \in DOMAIN rows
    BY <1>5, <1>7, <1>9, <2>2
  <2> QED
    BY <2>3, <2>4 DEF ToSet
<1>12. rows = << >> => n <= from \/ len = 0
  <2> SUFFICES ASSUME rows = << >> PROVE n <= from \/ len = 0
    OBVIOUS
  <2>1. Len(rows) = 0
    OBVIOUS
  <2> QED
    BY <1>1, <1>3, <1>5, <1>7, <2>1
<1> QED
  BY <1>7, <1>8, <1>10, <1>11, <1>12 DEF t, place, rows, from, len

--------------------------------------------------------------------------------
(* The lists that are read page by page, and their pages.                         *)
Lists == {ShowFilter(show) : show \in {"all", "found", "notfound"}} \union {[status |-> {Unsuccessful[i]}] : i \in 1..4}

LEMMA ListIs ==
  ASSUME NEW list \in Lists
  PROVE  /\ DOMAIN list \subseteq {"foundanything", "status"}
         /\ "foundanything" \in DOMAIN list => list["foundanything"] # {}
<1>1. Len(<< >>) = 0 /\ DOMAIN << >> = {}
  OBVIOUS
<1>2. CASE list = << >>
  BY <1>1, <1>2
<1>3. ASSUME NEW v \in BOOLEAN, list = [foundanything |-> {v}]
      PROVE  DOMAIN list = {"foundanything"} /\ list["foundanything"] # {}
  BY <1>3
<1>4. ASSUME NEW v, list = [status |-> {v}] PROVE DOMAIN list = {"status"}
  BY <1>4
<1>5. \A show : ShowFilter(show) \in {[foundanything |-> {TRUE}], [foundanything |-> {FALSE}], << >>}
  BY DEF ShowFilter
<1>6. CASE \E i \in 1..4 : list = [status |-> {Unsuccessful[i]}]
  BY <1>4, <1>6
<1>7. CASE \E show \in {"all", "found", "notfound"} : list = ShowFilter(show)
  BY <1>2, <1>3, <1>5, <1>7
<1> QED
  BY <1>6, <1>7 DEF Lists

LEMMA ShowFilterIs ==
  ASSUME NEW show PROVE ShowFilter(show) \in Lists
<1>1. ShowFilter(show) = ShowFilter(IF show \in {"found", "notfound"} THEN show ELSE "all")
  BY DEF ShowFilter
<1> QED
  BY <1>1 DEF Lists

LEMMA ResultListsAre ==
  ASSUME NEW show, NEW s \in {PrintActionResults(show), <<ShowFilter(show)>>} PROVE s \in Seq(Lists) /\ s # << >>
<1> DEFINE first == ShowFilter(show)
           more == [i \in 1..4 |-> [status |-> {Unsuccessful[i]}]]
<1>1. first \in Lists
  BY ShowFilterIs
<1>2. \A i \in 1..4 : more[i] \in Lists
  BY DEF Lists
<1>3. PrintActionResults(show) = <<first>> \o (IF show = "all" THEN << >> ELSE more)
  BY DEF PrintActionResults
<1> HIDE DEF first
<1>4. more \in Seq(Lists)
  BY <1>2
<1> HIDE DEF more
<1> DEFINE one == <<first>>
           none == << >>
<1>5. none \in Seq(Lists) /\ Len(none) = 0 /\ one \in Seq(Lists) /\ Len(one) = 1
  BY <1>1
<1> HIDE DEF one, none
<1>6. \A t \in Seq(Lists) : one \o t \in Seq(Lists) /\ Len(one \o t) = 1 + Len(t) /\ Len(t) \in Nat
  <2> SUFFICES ASSUME NEW t \in Seq(Lists)
               PROVE  one \o t \in Seq(Lists) /\ Len(one \o t) = 1 + Len(t) /\ Len(t) \in Nat
    OBVIOUS
  <2>1. Len(t) \in Nat
    BY LenProperties
  <2>2. one \o t \in Seq(Lists) /\ Len(one \o t) = Len(one) + Len(t)
    BY <1>5, ConcatProperties
  <2> QED
    BY <1>5, <2>1, <2>2
<1>7. PrintActionResults(show) \in Seq(Lists) /\ Len(PrintActionResults(show)) # 0
  <2>1. CASE show = "all"
    BY <1>3, <1>5, <1>6, <2>1 DEF one, none
  <2>2. CASE show # "all"
    BY <1>3, <1>4, <1>6, <2>2 DEF one
  <2> QED
    BY <2>1, <2>2
<1>8. one # none /\ PrintActionResults(show) # none
  BY <1>5, <1>7
<1> QED
  BY <1>5, <1>7, <1>8 DEF first, one, none

(* What a query for a page becomes.                                               *)
LEMMA PageParameters ==
  ASSUME NEW list \in Lists, NEW offset \in Nat
  PROVE  LET parsed == ParseSearchParameters(PageQuery(list, offset))
             p == parsed.p
         IN /\ parsed.ok /\ p.type = "command" /\ p.limit = PageLimit /\ p.offset = offset
            /\ DOMAIN p.filters = DOMAIN list \union {"actionid"}
            /\ p.filters["actionid"] = {id} /\ \A k \in DOMAIN list : p.filters[k] = list[k]
            /\ BadIds(p) = {}
<1> DEFINE q == PageQuery(list, offset)
           parsed == ParseSearchParameters(q)
           p == parsed.p
<1>1. DOMAIN list \subseteq {"foundanything", "status"} /\ ("foundanything" \in DOMAIN list => list["foundanything"] # {})
  BY ListIs
<1>2. /\ DOMAIN q = DOMAIN list \union {"type", "limit", "offset", "actionid"}
      /\ q["type"] = "command" /\ q["limit"] = PageLimit /\ q["offset"] = offset /\ q["actionid"] = {id}
      /\ \A k \in DOMAIN list : q[k] = list[k]
  BY <1>1 DEF PageQuery
<1> HIDE DEF q
<1>3. DOMAIN q \intersect FilterKeys = DOMAIN list \union {"actionid"}
  BY <1>1, <1>2 DEF FilterKeys
<1>4. DOMAIN q \intersect {"after", "before", "foundanything"} \subseteq DOMAIN list \intersect {"foundanything"}
  BY <1>1, <1>2
<1>5. PageLimit \in Nat /\ NoNumber \notin Nat
  BY ClientBounds DEF NoNumber
<1>6. q["limit"] # NoNumber /\ q["offset"] # NoNumber
  BY <1>2, <1>5
<1>7. \A k \in DOMAIN q \intersect {"after", "before", "foundanything"} : q[k] # Malformed
  BY <1>1, <1>2, <1>4 DEF Malformed
<1>8. /\ p.type = q["type"] /\ p.limit = q["limit"] /\ p.offset = q["offset"]
      /\ p.filters = [k \in DOMAIN q \intersect FilterKeys |-> q[k]]
  BY <1>2 DEF ParseSearchParameters
<1>9. parsed.ok
  <2> DEFINE known == /\ \A k \in DOMAIN q \intersect {"after", "before", "foundanything"} : q[k] # Malformed
                      /\ q["limit"] # NoNumber /\ q["offset"] # NoNumber
             r == [ok |-> known, p |-> [type |-> q["type"], filters |-> [k \in DOMAIN q \intersect FilterKeys |-> q[k]],
                                        limit |-> q["limit"], offset |-> q["offset"],
                                        target |-> IF "target" \in DOMAIN q THEN q["target"] ELSE NewParameters.target,
                                        zoned |-> {}]]
  <2>1. parsed = r
    BY <1>2 DEF ParseSearchParameters
  <2>2. known
    BY <1>6, <1>7
  <2> HIDE DEF known
  <2>3. r.ok = known
    OBVIOUS
  <2> QED
    BY <2>1, <2>2, <2>3
<1> HIDE DEF parsed
<1>10. DOMAIN p.filters = DOMAIN list \union {"actionid"} /\ p.filters["actionid"] = {id}
       /\ \A k \in DOMAIN list : p.filters[k] = list[k]
  BY <1>2, <1>3, <1>8
<1>11. BadIds(p) = {}
  <2> HIDE DEF p
  <2>1. \A i \in 1..6 : IdOrder[i] \in {"actionid", "commandid", "agentid", "investigatorid", "manifestid", "loaderid"}
        /\ DOMAIN IdOrder = 1..6
    BY DEF IdOrder
  <2>2. \A i \in DOMAIN IdOrder : IdOrder[i] \in Given(p) => IdOrder[i] = "actionid"
    BY <1>1, <1>10, <2>1 DEF Given
  <2> QED
    BY <1>10, <2>2 DEF BadIds, Malformed
<1> QED
  BY <1>2, <1>8, <1>9, <1>10, <1>11 DEF q, parsed

(* The commands of the action that are selected are those that belong on the list. *)
CommandTables == {"commands", "actions", "investigators", "agents"}

LEMMA FourTables ==
  Cardinality(CommandTables) # 1
<1>1. IsFiniteSet({"commands", "actions"}) /\ Cardinality({"commands", "actions"}) = 2
  <2>1. IsFiniteSet({}) /\ Cardinality({}) = 0
    BY FS_EmptySet
  <2>2. IsFiniteSet({"commands"}) /\ Cardinality({"commands"}) = 1
    BY FS_Singleton
  <2> QED
    BY <2>2, FS_AddElement
<1> QED
  <2>1. ASSUME Cardinality(CommandTables) = 1 PROVE FALSE
    <3>1. IsFiniteSet(CommandTables)
      <4>1. CommandTables = ({"commands", "actions"} \union {"investigators"}) \union {"agents"}
        BY DEF CommandTables
      <4> QED
        BY <1>1, <4>1, FS_AddElement
    <3>2. {"commands", "actions"} \subseteq CommandTables
      BY DEF CommandTables
    <3> QED
      BY <1>1, <2>1, <3>1, <3>2, FS_Subset
  <2> QED
    BY <2>1

LEMMA JoinedAre ==
  Joined(CommandTables) =
    UNION {{Row(CommandTables, c, i) : i \in SignersOf(db.commands[c].actionid)} : c \in DOMAIN db.commands}
BY FourTables DEF Joined, CommandTables

LEMMA RowIs ==
  ASSUME NEW c, NEW i
  PROVE  LET r == Row(CommandTables, c, i) IN
         r["commands"] = c /\ r["actions"] = db.commands[c].actionid
BY DEF Row, CommandTables

(* A row is accepted for its command.                                             *)
LEMMA AcceptedRow ==
  ASSUME NEW list \in Lists, NEW filters, NEW c \in DOMAIN db.commands, NEW i,
         DOMAIN filters = DOMAIN list \union {"actionid"},
         filters["actionid"] = {id}, \A k \in DOMAIN list : filters[k] = list[k]
  PROVE  (\A k \in Conditions(CommandWhere, filters) : Accepts(Row(CommandTables, c, i), CommandWhere[k], filters[k]))
         <=> c \in Listed(id, list)
<1> DEFINE r == Row(CommandTables, c, i)
<1>1. r["commands"] = c /\ r["actions"] = db.commands[c].actionid
  BY RowIs
<1> HIDE DEF r
<1>2. DOMAIN list \subseteq {"foundanything", "status"}
  BY ListIs
<1>3. Conditions(CommandWhere, filters) = DOMAIN list \union {"actionid"}
  BY <1>2 DEF Conditions, CommandWhere
<1>4. /\ CommandWhere["actionid"] = Col("actions", "id", {})
      /\ CommandWhere["status"] = Col("commands", "status", {})
      /\ CommandWhere["foundanything"] = Col("commands", "founds", {})
  BY DEF CommandWhere
<1>5. Accepts(r, CommandWhere["actionid"], filters["actionid"]) <=> db.commands[c].actionid = id
  BY <1>1, <1>4 DEF Accepts, Value, Col
<1>6. "status" \in DOMAIN list =>
        (Accepts(r, CommandWhere["status"], filters["status"]) <=> db.commands[c].status \in list.status)
  BY <1>1, <1>4 DEF Accepts, Value, Col
<1>7. "foundanything" \in DOMAIN list =>
        (Accepts(r, CommandWhere["foundanything"], filters["foundanything"])
           <=> db.commands[c].status = "success" /\ db.commands[c].founds \intersect list.foundanything # {})
  BY <1>1, <1>4 DEF Accepts, Value, Col
<1>8. c \in Listed(id, list) <=>
        /\ db.commands[c].actionid = id
        /\ "foundanything" \in DOMAIN list =>
             db.commands[c].status = "success" /\ db.commands[c].founds \intersect list.foundanything # {}
        /\ "status" \in DOMAIN list => db.commands[c].status \in list.status
  BY DEF Listed, CommandsOf
<1>9. (\A k \in DOMAIN list \union {"actionid"} : Accepts(r, CommandWhere[k], filters[k])) <=>
        /\ Accepts(r, CommandWhere["actionid"], filters["actionid"])
        /\ "foundanything" \in DOMAIN list => Accepts(r, CommandWhere["foundanything"], filters["foundanything"])
        /\ "status" \in DOMAIN list => Accepts(r, CommandWhere["status"], filters["status"])
  BY <1>2
<1> QED
  BY <1>3, <1>5, <1>6, <1>7, <1>8, <1>9 DEF r

LEMMA CommandRows ==
  ASSUME NEW list \in Lists, NEW filters, SignersOf(id) # {},
         DOMAIN filters = DOMAIN list \union {"actionid"},
         filters["actionid"] = {id}, \A k \in DOMAIN list : filters[k] = list[k]
  PROVE  LET s == Select("commands", CommandTables, CommandWhere, filters) IN
         s.ok /\ s.rows = Listed(id, list)
<1> DEFINE s == Select("commands", CommandTables, CommandWhere, filters)
           tables == TablesOf(CommandTables, CommandWhere, filters)
           all == Conditions(CommandWhere, filters)
<1>1. DOMAIN list \subseteq {"foundanything", "status"}
  BY ListIs
<1>2. all = DOMAIN list \union {"actionid"}
  BY <1>1 DEF Conditions, CommandWhere
<1>3. \A k \in all : CommandWhere[k].joins = {} /\ CommandWhere[k].table \in {"commands", "actions"}
  <2>1. \A k \in {"foundanything", "status", "actionid"} :
          CommandWhere[k].joins = {} /\ CommandWhere[k].table \in {"commands", "actions"}
    BY DEF CommandWhere, Col
  <2> QED
    BY <1>1, <1>2, <2>1
<1>4. tables = CommandTables
  BY <1>3 DEF TablesOf
<1>5. IsStatement(CommandTables, CommandWhere, filters)
  <2>1. Joinable(CommandTables)
    BY DEF Joinable, CommandTables, Chain
  <2>2. all # {}
    BY <1>2
  <2>3. \A k \in all : CommandWhere[k].table \in CommandTables
    BY <1>3 DEF CommandTables
  <2> QED
    BY <2>1, <2>2, <2>3 DEF IsStatement
<1>6. s.ok /\ s.rows = Rows("commands", CommandTables, CommandWhere, filters)
  BY <1>4, <1>5, SelectIs
<1>7. Rows("commands", CommandTables, CommandWhere, filters) = Listed(id, list)
  <2>1. ASSUME NEW c \in Listed(id, list) PROVE c \in Rows("commands", CommandTables, CommandWhere, filters)
    <3>1. c \in DOMAIN db.commands /\ db.commands[c].actionid = id
      BY DEF Listed, CommandsOf
    <3>2. PICK i \in SignersOf(id) : TRUE
      OBVIOUS
    <3>3. Row(CommandTables, c, i) \in Joined(CommandTables)
      BY <3>1, <3>2, JoinedAre
    <3>4. \A k \in all : Accepts(Row(CommandTables, c, i), CommandWhere[k], filters[k])
      BY <3>1, AcceptedRow
    <3>5. Row(CommandTables, c, i)["commands"] = c
      BY RowIs
    <3> QED
      BY <3>3, <3>4, <3>5 DEF Rows
  <2>2. ASSUME NEW x \in Rows("commands", CommandTables, CommandWhere, filters) PROVE x \in Listed(id, list)
    <3>1. PICK j \in Joined(CommandTables) :
            x = j["commands"] /\ \A k \in all : Accepts(j, CommandWhere[k], filters[k])
      BY DEF Rows
    <3>2. PICK c \in DOMAIN db.commands : \E i \in SignersOf(db.commands[c].actionid) : j = Row(CommandTables, c, i)
      BY <3>1, JoinedAre
    <3> PICK i \in SignersOf(db.commands[c].actionid) : j = Row(CommandTables, c, i)
      BY <3>2
    <3>3. x = c
      BY <3>1, RowIs
    <3>4. \A k \in all : Accepts(Row(CommandTables, c, i), CommandWhere[k], filters[k])
      BY <3>1
    <3> QED
      BY <3>3, <3>4, AcceptedRow
  <2> QED
    BY <2>1, <2>2
<1> QED
  BY <1>6, <1>7

(* A page of a list has the commands whose places are on it, and a list has no more *)
(* pages where it has no more commands.                                           *)
Recent == Newest("commands", "starttime")
Place(c, list) == Cardinality(Before(c, Listed(id, list), Recent))

LEMMA RecentKey ==
  ASSUME NEW c PROVE Key(c, Recent) = (-1) * db.commands[c].starttime
BY DEF Key, Recent, Newest

LEMMA SomeAreDistinct ==
  ASSUME Numbered(db.commands), NEW S \in SUBSET DOMAIN db.commands PROVE Distinct(S, Recent)
<1> DEFINE n == Cardinality(DOMAIN db.commands)
           time(c) == db.commands[c].starttime
           key(c) == Key(c, Recent)
<1>1. /\ n \in Nat /\ DOMAIN db.commands = 1..n
      /\ \A c \in 1..n : time(c) \in Int
      /\ \A c, d \in 1..n : c # d => time(c) # time(d)
  BY DEF Numbered
<1>2. \A c : key(c) = (-1) * time(c)
  BY RecentKey
<1>3. \A c \in S : c \in 1..n
  BY <1>1
<1> HIDE DEF n, time, key
<1>4. IsFiniteSet(S)
  <2>1. 1 \in Int /\ n \in Int
    BY <1>1
  <2> QED
    BY <1>3, <2>1, FS_Interval, FS_Subset
<1>5. (\A c \in S : key(c) \in Int) /\ \A c, d \in S : c # d => key(c) # key(d)
  BY <1>1, <1>2, <1>3
<1> QED
  BY <1>4, <1>5 DEF Distinct, key

LEMMA ListedIsDistinct ==
  ASSUME Numbered(db.commands), NEW list PROVE Distinct(Listed(id, list), Recent)
<1>1. Listed(id, list) \subseteq DOMAIN db.commands
  BY DEF Listed, CommandsOf
<1> QED
  BY <1>1, SomeAreDistinct

LEMMA PageIs ==
  ASSUME Numbered(db.commands), SignersOf(id) # {}, NEW list \in Lists, NEW offset \in Nat, NEW r
  PROVE  LET page == GetAPIResource(r, Search(PageQuery(list, offset))) IN
         /\ page.code \in {200, 404, 500}
         /\ page.code = 200 =>
              \A c \in Listed(id, list) : offset <= Place(c, list) /\ Place(c, list) < offset + PageLimit => c \in ToSet(page.items)
         /\ page.code = 404 => \A c \in Listed(id, list) : Place(c, list) < offset
<1> DEFINE q == PageQuery(list, offset)
           parsed == ParseSearchParameters(q)
           p == parsed.p
           listed == Listed(id, list)
           rows == Slice(Sorted(listed, Recent), p)
           answered == Search(q)
           page == GetAPIResource(r, answered)
<1>1. /\ parsed.ok /\ p.type = "command" /\ p.limit = PageLimit /\ p.offset = offset
      /\ DOMAIN p.filters = DOMAIN list \union {"actionid"}
      /\ p.filters["actionid"] = {id} /\ \A k \in DOMAIN list : p.filters[k] = list[k]
      /\ BadIds(p) = {}
  BY PageParameters
<1> HIDE DEF q, parsed
<1>2. /\ Select("commands", CommandTables, CommandWhere, p.filters).ok
      /\ Select("commands", CommandTables, CommandWhere, p.filters).rows = listed
  BY <1>1, CommandRows
<1>3. SearchCommands(p) = Found(rows)
  BY <1>1, <1>2 DEF SearchCommands, CommandTables, Recent
<1>4. Dispatch(p) = SearchCommands(p)
  BY <1>1 DEF Dispatch
<1>5. Dispatch(p).ok /\ Dispatch(p).rows = rows
  BY <1>3, <1>4 DEF Found
<1>6. PageLimit \in Nat /\ PageLimit # 0
  BY ClientBounds
<1>7. Distinct(listed, Recent)
  BY ListedIsDistinct
<1>8. /\ rows \in Seq(listed) /\ Len(rows) <= PageLimit
      /\ ToSet(rows) = {c \in listed : offset <= Place(c, list) /\ Place(c, list) < offset + PageLimit}
      /\ rows = << >> => Cardinality(listed) <= offset
  <2> HIDE DEF p, listed
  <2>1. /\ rows \in Seq(listed) /\ Len(rows) <= p.limit
        /\ ToSet(rows) = {i \in listed : p.offset <= Cardinality(Before(i, listed, Recent))
                                          /\ Cardinality(Before(i, listed, Recent)) < p.offset + p.limit}
        /\ rows = << >> => Cardinality(listed) <= p.offset \/ p.limit = 0
    BY <1>1, <1>6, <1>7, PageOf
  <2> QED
    BY <1>1, <1>6, <2>1 DEF Place, listed
<1>9. \A c \in listed : Place(c, list) \in 0..(Cardinality(listed) - 1) /\ Cardinality(listed) \in Nat
  BY <1>7, PlaceIs DEF Place
<1> HIDE DEF rows, p, listed
<1>10. Items(rows, PageLimit) = rows
  <2>1. Len(rows) \in Nat /\ Len(rows) <= PageLimit + 2
    BY <1>6, <1>8, LenProperties
  <2>2. Min({Len(rows), PageLimit + 2}) = Len(rows)
    BY <1>6, <2>1 DEF Min
  <2>3. SubSeq(rows, 1, Len(rows)) = rows
    BY <1>8, SubSeqFull
  <2> QED
    BY <2>2, <2>3 DEF Items
<1>11. /\ answered.code = IF rows = << >> THEN 404 ELSE 200
       /\ answered.items = IF answered.code = 200 THEN rows ELSE << >>
  <2>1. LET s == Dispatch(p)
        IN /\ answered.code = IF ~parsed.ok \/ ~s.ok THEN 500 ELSE IF s.rows = << >> THEN 404 ELSE 200
           /\ answered.items = IF answered.code = 200 THEN Items(s.rows, p.limit) ELSE << >>
    BY SearchIs DEF parsed, p
  <2> QED
    BY <1>1, <1>5, <1>10, <2>1
<1> HIDE DEF answered
<1>12. /\ page.code \in {answered.code, 500}
       /\ page.code # 500 => page.items = answered.items
  <2>1. IF r = "answered" /\ answered.code # 500 THEN page = answered
        ELSE page = [code |-> 500, items |-> << >>, next |-> << >>]
    BY <1>11, ResourceIs
  <2> QED
    BY <2>1
<1> HIDE DEF page
<1>13. page.code = 200 => page.items = rows
  BY <1>11, <1>12
<1>14. page.code = 404 => rows = << >>
  BY <1>11, <1>12
<1>15. page.code \in {200, 404, 500}
  BY <1>11, <1>12
<1>16. page.code = 404 => \A c \in listed : Place(c, list) < offset
  BY <1>8, <1>9, <1>14
<1>17. page.code = 200 => \A c \in listed : offset <= Place(c, list) /\ Place(c, list) < offset + PageLimit => c \in ToSet(page.items)
  BY <1>8, <1>13
<1> QED
  BY <1>15, <1>16, <1>17 DEF page, answered, q, listed

--------------------------------------------------------------------------------
(* A list while it is read. What was on it at the start is on it still, unless a    *)
(* command has left, and has been got or lies ahead. The action that is followed or *)
(* read has a stored signature: the commands of any other are never found.         *)
Reading == {"follow", "finish", "followed", "print", "read", "reader", "list"}
Fields == {"lists", "offset", "got", "from", "left"}

ReadIsSigned == Tables.signatures \subseteq db.signatures /\ (pc \in Reading => SignersOf(id) # {})
FetchType ==
  /\ Numbered(db.commands) /\ DOMAIN fetch = Fields /\ fetch.lists \in Seq(Lists) /\ fetch.offset \in Nat
  /\ fetch.lists # << >> <=> pc \in {"print", "list"}
Ahead(list) == \A c \in fetch.from : c \in Listed(id, list) /\ (c \in fetch.got \/ fetch.offset <= Place(c, list))
NothingMissed == fetch.lists # << >> /\ ~fetch.left => Ahead(Head(fetch.lists))

PageInv == ReadIsSigned /\ FetchType /\ NothingMissed

ListEnds ==
  fetch.lists # << >> /\ fetch'.lists = Tail(fetch.lists) /\ pc' # "exit" => fetch.left \/ fetch.from \subseteq fetch.got

(* Steps while no list is read.                                                   *)
LEMMA NoListKeeps ==
  ASSUME PageInv, fetch.lists = << >>, UNCHANGED fetch, db'.commands = db.commands,
         pc' \notin {"print", "list"}, db.signatures \subseteq db'.signatures, pc' \in Reading => SignersOf(id)' # {}
  PROVE  PageInv' /\ ListEnds
<1>1. ReadIsSigned'
  BY DEF PageInv, ReadIsSigned
<1>2. FetchType'
  BY DEF PageInv, FetchType
<1>3. NothingMissed'
  BY DEF NothingMissed
<1>4. ListEnds
  BY DEF ListEnds
<1> QED
  BY <1>1, <1>2, <1>3, <1>4 DEF PageInv

Elsewhere ==
  /\ pc \notin {"print", "list"} /\ pc' \notin {"print", "list"} /\ UNCHANGED <<db, fetch>>
  /\ pc' \in Reading => pc \in Reading /\ id' = id

LEMMA ElsewhereKeeps ==
  ASSUME PageInv, Elsewhere PROVE PageInv' /\ ListEnds
<1>1. fetch.lists = << >>
  BY DEF PageInv, FetchType, Elsewhere
<1>2. pc' \in Reading => SignersOf(id)' # {}
  BY DEF PageInv, ReadIsSigned, Elsewhere, SignersOf
<1> QED
  BY <1>1, <1>2, NoListKeeps DEF Elsewhere

LEMMA TailIsOther ==
  ASSUME NEW s \in Seq(Lists), s # << >> PROVE Tail(s) # s
<1> DEFINE m == Len(s)
           n == Len(Tail(s))
<1>1. n = m - 1 /\ m \in Nat
  BY HeadTailProperties, LenProperties
<1>2. Tail(s) = s => n = m
  OBVIOUS
<1> HIDE DEF m, n
<1> QED
  BY <1>1, <1>2

LEMMA StutterKeeps ==
  ASSUME PageInv, UNCHANGED cvars PROVE PageInv' /\ ListEnds
<1>1. UNCHANGED <<db, fetch, pc, id>>
  BY DEF cvars
<1>2. ReadIsSigned'
  BY <1>1 DEF PageInv, ReadIsSigned, SignersOf
<1>3. FetchType'
  BY <1>1 DEF PageInv, FetchType
<1>4. NothingMissed'
  BY <1>1 DEF PageInv, NothingMissed, Ahead, Place, Before, Key, Recent, Newest, Listed, CommandsOf
<1>5. ListEnds
  <2> SUFFICES ASSUME fetch.lists # << >> PROVE fetch.lists # Tail(fetch.lists)
    BY <1>1 DEF ListEnds
  <2> QED
    BY TailIsOther DEF PageInv, FetchType
<1> QED
  BY <1>2, <1>3, <1>4, <1>5 DEF PageInv

LEMMA ElsewhereSteps ==
  ASSUME \/ MigBuild \/ MigSign \/ MigEvaluate \/ MigCountdown
         \/ FollowStep \/ StopFollow \/ Interrupt \/ WaitInterrupt
         \/ ReaderStart \/ ReaderCopy \/ Exit \/ SearchStep \/ Tick
  PROVE  Elsewhere
<1>1. CASE MigBuild \/ MigSign \/ MigEvaluate \/ MigCountdown
  BY <1>1 DEF MigBuild, MigSign, MigEvaluate, MigCountdown, Goto, Elsewhere, Reading
<1>2. CASE FollowTurn
  BY <1>2 DEF FollowTurn, FollowReturns, FollowFails, Goto, Elsewhere, Reading
<1>3. CASE FollowFinish
  BY <1>3 DEF FollowFinish, FollowReturns, FollowFails, Goto, Elsewhere, Reading
<1>4. CASE StopFollow \/ Interrupt \/ WaitInterrupt
  BY <1>4 DEF StopFollow, Interrupt, WaitInterrupt, Goto, Elsewhere, Reading
<1>5. CASE ReaderStart \/ ReaderCopy \/ Exit
  BY <1>5 DEF ReaderStart, ReaderCopy, Exit, Goto, Elsewhere, Reading
<1>6. CASE SearchStep
  BY <1>6 DEF SearchStep, ConsoleSearch, SearchRefused, ApiSearch, Goto, Elsewhere, Reading
<1>7. CASE Tick
  BY <1>7 DEF Tick, Elsewhere, Reading
<1> QED
  BY <1>1, <1>2, <1>3, <1>4, <1>5, <1>6, <1>7 DEF FollowStep

LEMMA LauncherSteps ==
  ASSUME LauncherStep, ~ConsoleStart, ~Launch PROVE Elsewhere
<1>1. CASE AddOperation \/ CompressFalse \/ CompressTrue \/ SetName \/ Sign
  BY <1>1 DEF AddOperation, CompressFalse, CompressTrue, SetName, Sign, Launcher, Goto, Elsewhere, Reading
<1>2. ASSUME NEW i, DelOperation(i) PROVE Elsewhere
  BY <1>2 DEF DelOperation, Launcher, Elsewhere, Reading
<1>3. ASSUME NEW t, SetTarget(t) PROVE Elsewhere
  BY <1>3 DEF SetTarget, Launcher, Elsewhere, Reading
<1>4. ASSUME NEW form, SetTimes(form) PROVE Elsewhere
  BY <1>4 DEF SetTimes, Launcher, Elsewhere, Reading
<1>5. ASSUME NEW f, Load(f) PROVE Elsewhere
  BY <1>5 DEF Load, Launcher, Elsewhere, Reading
<1>6. CASE LaunchEvaluate \/ LaunchAtOnce
  BY <1>6 DEF LaunchEvaluate, LaunchAtOnce, Goto, Elsewhere, Reading
<1> QED
  BY <1>1, <1>2, <1>3, <1>4, <1>5, <1>6 DEF LauncherStep

(* The action that is launched has the signature that is stored with it.           *)
LEMMA InsertedIsSigned ==
  ASSUME TypeInv, NEW x, InsertAction(x)
  PROVE  /\ db'.commands = db.commands /\ db'.signatures = db.signatures \union {<<NewId, 1>>}
<1> DEFINE row == [name |-> 1, family |-> 1, status |-> "pending", validfrom |-> x.from, expireafter |-> x.until]
           added == With(db.actions, NewId, row)
<1>1. db' = [db EXCEPT !.actions = added, !.signatures = @ \union {<<NewId, 1>>}]
  BY DEF InsertAction
<1> HIDE DEF added
<1> QED
  BY <1>1 DEF TypeInv

LEMMA PostReads ==
  ASSUME TypeInv, NEW x, NEW accepted, NEW refused, refused \notin Reading, PostAction(x, accepted, refused)
  PROVE  pc' \in {accepted, refused} /\ db'.commands = db.commands /\ db.signatures \subseteq db'.signatures /\ (pc' \in Reading => SignersOf(id)' # {})
<1>1. \/ InsertAction(x) /\ id' = NewId /\ pc' = accepted
      \/ InsertAction(x) /\ pc' = refused
      \/ UNCHANGED db /\ pc' = refused
  BY DEF PostAction, Goto
<1>2. InsertAction(x) => <<NewId, 1>> \in db'.signatures /\ db.signatures \subseteq db'.signatures /\ db'.commands = db.commands
  BY InsertedIsSigned
<1>3. ASSUME InsertAction(x), id' = NewId PROVE SignersOf(id)' # {}
  <2>1. SignersOf(id)' = {s[2] : s \in {y \in db'.signatures : y[1] = id'}}
    BY DEF SignersOf
  <2>2. <<NewId, 1>> \in {y \in db'.signatures : y[1] = id'}
    BY <1>2, <1>3
  <2> QED
    BY <2>1, <2>2
<1> QED
  BY <1>1, <1>2, <1>3

LEMMA PostKeeps ==
  ASSUME TypeInv, PageInv, MigPost \/ Launch PROVE PageInv' /\ ListEnds
<1>1. fetch.lists = << >> /\ UNCHANGED fetch
  BY DEF MigPost, Launch, PageInv, FetchType
<1>2. CASE MigPost
  <2>1. PostAction(a, "follow", "exit")
    BY <1>2 DEF MigPost
  <2> QED
    BY <1>1, <2>1, PostReads, NoListKeeps DEF Reading
<1>3. CASE Launch
  <2>1. \/ PostAction(Launched(Timed(a)), IF program.nofollow THEN "read" ELSE "follow", "exit")
        \/ UNCHANGED db /\ pc' = "exit"
    BY <1>3 DEF Launch, Goto
  <2> QED
    BY <1>1, <2>1, PostReads, NoListKeeps DEF Reading
<1> QED
  BY <1>2, <1>3

LEMMA ActionMovesKeeps ==
  ASSUME TypeInv, PageInv, ActionMoves PROVE PageInv' /\ ListEnds
<1>1. fetch.lists = << >> /\ pc' \notin {"print", "list"} /\ UNCHANGED <<fetch, pc, id>>
  BY DEF ActionMoves, PageInv, FetchType
<1>2. db'.commands = db.commands /\ db'.signatures = db.signatures
  BY DEF ActionMoves, TypeInv
<1>3. pc' \in Reading => SignersOf(id)' # {}
  BY <1>1, <1>2 DEF PageInv, ReadIsSigned, SignersOf
<1> QED
  BY <1>1, <1>2, <1>3, NoListKeeps

(* The reader starts with an action of the tables.                                *)
TablesAreSigned == \A p \in Programs : p.mode = "console" /\ p.id # 0 => \E s \in Tables.signatures : s[1] = p.id

LEMMA ConsoleStartReads ==
  ASSUME TypeInv, PageInv, TablesAreSigned, ConsoleStart PROVE PageInv' /\ ListEnds
<1>1. /\ pc = "start" /\ program.mode = "console" /\ pc' \in {"exit", "launcher", "read"}
      /\ pc' = "read" => program.id # 0
      /\ id' = program.id /\ UNCHANGED <<db, fetch>>
  BY DEF ConsoleStart, Goto
<1>2. fetch.lists = << >>
  BY <1>1 DEF PageInv, FetchType
<1>3. ASSUME pc' \in Reading PROVE SignersOf(id)' # {}
  <2>1. program.id # 0
    BY <1>1, <1>3 DEF Reading
  <2>2. PICK s \in Tables.signatures : s[1] = program.id
    BY <1>1, <2>1 DEF TablesAreSigned, TypeInv
  <2>3. s \in {y \in db'.signatures : y[1] = id'}
    BY <1>1, <2>2 DEF PageInv, ReadIsSigned
  <2> QED
    BY <2>3 DEF SignersOf
<1> QED
  BY <1>1, <1>2, <1>3, NoListKeeps

(* A list begins: nothing has been got, and all that is on it lies ahead.           *)
LEMMA ReadBegins ==
  ASSUME PageInv, NEW lists \in Seq(Lists), fetch' = Read(lists), UNCHANGED <<db, id>>,
         lists # << >> <=> pc' \in {"print", "list"}
  PROVE  FetchType' /\ NothingMissed'
<1>1. CASE lists = << >>
  <2>1. fetch' = NoFetch
    BY <1>1 DEF Read
  <2>2. fetch'.lists = << >> /\ fetch'.offset = 0 /\ DOMAIN fetch' = Fields
    BY <2>1 DEF NoFetch, Fields
  <2>3. << >> \in Seq(Lists)
    OBVIOUS
  <2>4. pc' \notin {"print", "list"}
    BY <1>1
  <2>5. FetchType'
    BY <2>2, <2>3, <2>4 DEF FetchType, PageInv
  <2> QED
    BY <2>2, <2>5 DEF NothingMissed
<1>2. CASE lists # << >>
  <2>1. fetch' = [lists |-> lists, offset |-> 0, got |-> {}, from |-> Listed(id, Head(lists)), left |-> FALSE]
    BY <1>2 DEF Read
  <2>2. /\ fetch'.lists = lists /\ fetch'.offset = 0 /\ fetch'.from = Listed(id, Head(lists)) /\ DOMAIN fetch' = Fields
    BY <2>1 DEF Fields
  <2>3. FetchType'
    BY <2>2 DEF FetchType, PageInv
  <2>4. \A c \in Listed(id, Head(lists)) : 0 <= Place(c, Head(lists))
    <3>1. Distinct(Listed(id, Head(lists)), Recent)
      BY ListedIsDistinct DEF PageInv, FetchType
    <3> QED
      BY <3>1, PlaceIs DEF Place
  <2>5. PICK list : list = Head(lists)
    OBVIOUS
  <2>6. Listed(id, list)' = Listed(id, list) /\ \A c : Place(c, list)' = Place(c, list)
    BY DEF Place, Before, Key, Recent, Newest, Listed, CommandsOf
  <2>7. \A c \in fetch'.from : c \in Listed(id, list)' /\ fetch'.offset <= Place(c, list)'
    BY <2>2, <2>4, <2>5, <2>6
  <2>8. Ahead(list)'
    BY <2>7 DEF Ahead
  <2>9. Head(fetch'.lists) = list
    BY <2>2, <2>5
  <2>10. Ahead(Head(fetch.lists))'
    BY <2>8, <2>9 DEF Ahead
  <2> QED
    BY <2>3, <2>10 DEF NothingMissed
<1> QED
  BY <1>1, <1>2

LEMMA ListBegins ==
  ASSUME TypeInv, PageInv, MigPrint \/ (\E show \in {"all", "found", "notfound"} : ReaderList(show) \/ ReaderResults(show))
  PROVE  PageInv' /\ ListEnds
<1>1. /\ pc \in {"followed", "reader"} /\ pc' \in {"print", "list"} /\ UNCHANGED <<db, id>>
      /\ \E show : fetch' = Read(PrintActionResults(show)) \/ fetch' = Read(<<ShowFilter(show)>>)
  BY DEF MigPrint, ReaderList, ReaderResults, Reader, Goto
<1>2. fetch.lists = << >>
  BY <1>1 DEF PageInv, FetchType
<1>3. PICK lists \in Seq(Lists) : lists # << >> /\ fetch' = Read(lists)
  BY <1>1, ResultListsAre
<1>4. FetchType' /\ NothingMissed'
  BY <1>1, <1>3, ReadBegins
<1>5. ReadIsSigned'
  BY <1>1 DEF PageInv, ReadIsSigned, SignersOf, Reading
<1> QED
  BY <1>2, <1>4, <1>5 DEF PageInv, ListEnds

(* A page is read.                                                                *)
LEMMA PageKeeps ==
  ASSUME TypeInv, PageInv, NEW there \in {"print", "list"}, NEW after, FetchPage(there, after, "exit"),
         after \notin {"print", "list"}
  PROVE  PageInv' /\ ListEnds
<1>1. pc = there /\ UNCHANGED <<db, id>>
  BY DEF FetchPage
<1>2. SignersOf(id) # {} /\ Numbered(db.commands)
  BY <1>1 DEF PageInv, ReadIsSigned, Reading, FetchType
<1> PICK list, offset : list = Head(fetch.lists) /\ offset = fetch.offset
  OBVIOUS
<1>3. /\ list \in Lists /\ Tail(fetch.lists) \in Seq(Lists) /\ offset \in Nat
      /\ Len(Tail(fetch.lists)) = Len(fetch.lists) - 1 /\ Len(fetch.lists) \in Nat \ {0}
  BY <1>1, HeadTailProperties, LenProperties DEF PageInv, FetchType
<1>4. PICK r \in Replies : \E page \in {GetAPIResource(r, Search(PageQuery(list, offset)))} :
       \/ /\ page.code = 200
          /\ fetch' = [fetch EXCEPT !.got = @ \union ToSet(page.items), !.offset = NextOffset(@)]
          /\ UNCHANGED pc
       \/ /\ page.code = 404
          /\ fetch' = Read(Tail(fetch.lists))
          /\ pc' = IF Len(fetch.lists) = 1 THEN after ELSE there
       \/ /\ page.code = 500
          /\ fetch' = NoFetch /\ pc' = "exit"
  BY DEF FetchPage, Goto
<1> DEFINE page == GetAPIResource(r, Search(PageQuery(list, offset)))
<1>5. /\ page.code = 200 =>
           \A c \in Listed(id, list) : offset <= Place(c, list) /\ Place(c, list) < offset + PageLimit => c \in ToSet(page.items)
      /\ page.code = 404 => \A c \in Listed(id, list) : Place(c, list) < offset
  BY <1>2, <1>3, PageIs
<1>6. \/ page.code = 200 /\ fetch' = [fetch EXCEPT !.got = @ \union ToSet(page.items), !.offset = NextOffset(@)] /\ UNCHANGED pc
      \/ page.code = 404 /\ fetch' = Read(Tail(fetch.lists)) /\ pc' = IF Len(fetch.lists) = 1 THEN after ELSE there
      \/ page.code = 500 /\ fetch' = NoFetch /\ pc' = "exit"
  BY <1>4
<1> HIDE DEF page
<1>7. ~fetch.left => \A c \in fetch.from : c \in Listed(id, list) /\ (c \in fetch.got \/ offset <= Place(c, list))
  BY <1>1 DEF PageInv, FetchType, NothingMissed, Ahead
<1>8. \A c \in Listed(id, list) : Place(c, list) \in Nat
  <2>1. \A c \in Listed(id, list) : Cardinality(Before(c, Listed(id, list), Recent)) \in 0..(Cardinality(Listed(id, list)) - 1)
    BY <1>2, ListedIsDistinct, PlaceIs
  <2> QED
    BY <2>1 DEF Place
<1>9. pc' \in {there, after, "exit"}
  BY <1>1, <1>6
<1>10. ReadIsSigned'
  BY <1>1, <1>2, <1>9 DEF PageInv, ReadIsSigned, SignersOf
<1>11. CASE page.code = 200 /\ fetch' = [fetch EXCEPT !.got = @ \union ToSet(page.items), !.offset = NextOffset(@)] /\ UNCHANGED pc
  <2> DEFINE items == ToSet(page.items)
             next == offset + PageLimit
  <2>1. /\ fetch'.got = fetch.got \union items /\ fetch'.offset = next /\ fetch'.from = fetch.from
        /\ fetch'.left = fetch.left /\ fetch'.lists = fetch.lists /\ DOMAIN fetch' = Fields
    <3> HIDE DEF items
    <3>1. fetch' = [fetch EXCEPT !.got = @ \union items, !.offset = NextOffset(@)] /\ DOMAIN fetch = Fields
      BY <1>11 DEF PageInv, FetchType, items
    <3> QED
      BY <3>1 DEF Fields, NextOffset
  <2>2. next \in Nat /\ PageLimit \in Nat
    BY <1>3, ClientBounds
  <2>3. FetchType'
    BY <1>1, <1>11, <2>1, <2>2 DEF PageInv, FetchType
  <2>4. \A c \in Listed(id, list) : offset <= Place(c, list) => c \in items \/ next <= Place(c, list)
    BY <1>3, <1>5, <1>8, <1>11, <2>2
  <2>5. ~fetch'.left => \A c \in fetch'.from : c \in Listed(id, list) /\ (c \in fetch'.got \/ fetch'.offset <= Place(c, list))
    <3> HIDE DEF items, next
    <3> QED
      BY <1>7, <2>1, <2>4
  <2>6. Listed(id, list)' = Listed(id, list) /\ \A c : Place(c, list)' = Place(c, list)
    BY <1>1 DEF Place, Before, Key, Recent, Newest, Listed, CommandsOf
  <2>7. ~fetch'.left => Ahead(list)'
    BY <2>5, <2>6 DEF Ahead
  <2>8. Head(fetch'.lists) = list
    BY <2>1
  <2>9. NothingMissed'
    BY <2>7, <2>8 DEF NothingMissed, Ahead
  <2>10. ListEnds
    <3>1. fetch.lists # << >> => fetch'.lists # Tail(fetch.lists)
      BY <2>1, TailIsOther DEF PageInv, FetchType
    <3> QED
      BY <3>1 DEF ListEnds
  <2> QED
    BY <1>10, <2>3, <2>9, <2>10 DEF PageInv
<1>12. CASE page.code = 404 /\ fetch' = Read(Tail(fetch.lists)) /\ pc' = IF Len(fetch.lists) = 1 THEN after ELSE there
  <2> PICK rest : rest = Tail(fetch.lists)
    OBVIOUS
  <2>1. rest # << >> <=> pc' \in {"print", "list"}
    <3> DEFINE m == Len(fetch.lists)
               n == Len(rest)
    <3>1. rest \in Seq(Lists) /\ n = m - 1 /\ m \in Nat
      BY <1>3
    <3>2. (rest = << >> => n = 0) /\ (rest # << >> => n # 0)
      BY <3>1, EmptySeq
    <3>3. pc' = IF m = 1 THEN after ELSE there
      BY <1>12
    <3> HIDE DEF m, n
    <3> QED
      BY <3>1, <3>2, <3>3
  <2>2. FetchType' /\ NothingMissed'
    BY <1>1, <1>3, <1>12, <2>1, ReadBegins
  <2>3. ~fetch.left => fetch.from \subseteq fetch.got
    BY <1>3, <1>5, <1>7, <1>8, <1>12
  <2> QED
    BY <1>10, <2>2, <2>3 DEF PageInv, ListEnds
<1>13. CASE page.code = 500 /\ fetch' = NoFetch /\ pc' = "exit"
  <2>1. fetch'.lists = << >> /\ fetch'.offset = 0 /\ DOMAIN fetch' = Fields /\ << >> \in Seq(Lists)
    BY <1>13 DEF NoFetch, Fields
  <2>2. FetchType' /\ NothingMissed'
    BY <1>1, <1>13, <2>1 DEF PageInv, FetchType, NothingMissed
  <2> QED
    BY <1>10, <1>13, <2>2 DEF PageInv, ListEnds
<1> QED
  BY <1>6, <1>11, <1>12, <1>13

--------------------------------------------------------------------------------
(* Commands are sent and finished while a list is read.                           *)

(* Places only grow while no command leaves the list.                             *)
LEMMA PlacesGrow ==
  ASSUME NEW list, Distinct(Listed(id, list), Recent), Distinct(Listed(id, list), Recent)',
         \A c \in Listed(id, list) : c \in Listed(id, list)' /\ db'.commands[c].starttime = db.commands[c].starttime
  PROVE  \A c \in Listed(id, list) : Place(c, list) \in Nat /\ Place(c, list)' \in Nat /\ Place(c, list) <= Place(c, list)'
<1> SUFFICES ASSUME NEW c \in Listed(id, list)
             PROVE Place(c, list) \in Nat /\ Place(c, list)' \in Nat /\ Place(c, list) <= Place(c, list)'
  OBVIOUS
<1> DEFINE old == {d \in Listed(id, list) : (-1) * db.commands[d].starttime < (-1) * db.commands[c].starttime}
           new == {d \in Listed(id, list)' : (-1) * db'.commands[d].starttime < (-1) * db'.commands[c].starttime}
<1>1. Place(c, list) = Cardinality(old)
  BY DEF Place, Before, Key, Recent, Newest
<1>2. Place(c, list)' = Cardinality(new)
  BY DEF Place, Before, Key, Recent, Newest
<1>3. old \subseteq new
  OBVIOUS
<1>4. IsFiniteSet(Listed(id, list)') /\ new \subseteq Listed(id, list)'
  BY DEF Distinct
<1> HIDE DEF old, new
<1>5. IsFiniteSet(new)
  BY <1>4, FS_Subset
<1>6. IsFiniteSet(old) /\ Cardinality(old) <= Cardinality(new)
  BY <1>3, <1>5, FS_Subset
<1>7. Cardinality(old) \in Nat /\ Cardinality(new) \in Nat
  BY <1>5, <1>6, FS_CardinalityType
<1> QED
  BY <1>1, <1>2, <1>6, <1>7

LEMMA DistinctAfter ==
  ASSUME NEW list PROVE (Numbered(db.commands) => Distinct(Listed(id, list), Recent))'
<1>1. Numbered(db.commands) => Distinct(Listed(id, list), Recent)
  BY ListedIsDistinct
<1> QED
  BY <1>1, PTL

LEMMA GrowingKeeps ==
  ASSUME PageInv, db'.signatures = db.signatures, Numbered(db'.commands), UNCHANGED <<pc, id>>,
         DOMAIN fetch' = Fields, fetch'.lists = fetch.lists, fetch'.offset = fetch.offset,
         fetch'.got = fetch.got, fetch'.from = fetch.from,
         \A c \in DOMAIN db.commands : c \in DOMAIN db'.commands /\ db'.commands[c].starttime = db.commands[c].starttime,
         fetch.lists # << >> /\ ~fetch'.left =>
           ~fetch.left /\ \A c \in Listed(id, Head(fetch.lists)) : c \in Listed(id, Head(fetch.lists))'
  PROVE  PageInv' /\ ListEnds
<1>1. ReadIsSigned'
  BY DEF PageInv, ReadIsSigned, SignersOf
<1>2. Numbered(db.commands)'
  BY DEF Numbered
<1>3. FetchType'
  BY <1>2 DEF PageInv, FetchType
<1>4. NothingMissed'
  <2> SUFFICES ASSUME fetch'.lists # << >>, ~fetch'.left PROVE Ahead(Head(fetch.lists))'
    BY DEF NothingMissed
  <2> PICK list : list = Head(fetch.lists)
    OBVIOUS
  <2>1. list = Head(fetch'.lists)
    OBVIOUS
  <2>2. ~fetch.left /\ \A c \in Listed(id, list) : c \in Listed(id, list)'
    BY <2>1 DEF Listed, CommandsOf
  <2>3. Distinct(Listed(id, list), Recent)
    BY ListedIsDistinct DEF PageInv, FetchType
  <2>4. Distinct(Listed(id, list), Recent)'
    BY <1>2, DistinctAfter
  <2>5. \A c \in Listed(id, list) : c \in DOMAIN db.commands
    BY DEF Listed, CommandsOf
  <2>6. \A c \in Listed(id, list) : Place(c, list) \in Nat /\ Place(c, list)' \in Nat /\ Place(c, list) <= Place(c, list)'
    BY <2>2, <2>3, <2>4, <2>5, PlacesGrow
  <2>7. \A c \in fetch.from : c \in Listed(id, list) /\ (c \in fetch.got \/ fetch.offset <= Place(c, list))
    BY <2>2 DEF PageInv, NothingMissed, Ahead
  <2>8. fetch.offset \in Nat
    BY DEF PageInv, FetchType
  <2>9. \A c \in fetch'.from : c \in Listed(id, list)' /\ (c \in fetch'.got \/ fetch'.offset <= Place(c, list)')
    BY <2>2, <2>6, <2>7, <2>8
  <2>10. Ahead(list)'
    BY <2>9 DEF Ahead
  <2> QED
    BY <2>1, <2>10 DEF Ahead
<1>5. ListEnds
  <2>1. fetch.lists # << >> => fetch.lists # Tail(fetch.lists)
    BY TailIsOther DEF PageInv, FetchType
  <2> QED
    BY <2>1 DEF ListEnds
<1> QED
  BY <1>1, <1>3, <1>4, <1>5 DEF PageInv

(* A command is sent: it is the newest one, and comes before all others.           *)
LEMMA NumberedWith ==
  ASSUME NEW commands, Numbered(commands), NEW row, Columns \subseteq DOMAIN row,
         row.starttime = 1 + Cardinality(DOMAIN commands)
  PROVE  LET n == Cardinality(DOMAIN commands)
             more == With(commands, n + 1, row)
         IN /\ Numbered(more) /\ DOMAIN more = 1..(n + 1) /\ \A c \in 1..n : more[c] = commands[c]
<1> DEFINE n == Cardinality(DOMAIN commands)
           more == With(commands, n + 1, row)
<1>1. /\ n \in Nat /\ DOMAIN commands = 1..n
      /\ \A c \in 1..n : Columns \subseteq DOMAIN commands[c] /\ commands[c].starttime \in Int /\ commands[c].starttime <= n
      /\ \A c, d \in 1..n : c # d => commands[c].starttime # commands[d].starttime
      /\ row.starttime = n + 1
  BY DEF Numbered
<1> HIDE DEF n
<1>2. 1..n \union {n + 1} = 1..(n + 1)
  BY <1>1
<1>3. /\ DOMAIN more = 1..(n + 1) /\ more[n + 1] = row
      /\ \A c \in 1..n : more[c] = commands[c]
  BY <1>1, <1>2 DEF With
<1> HIDE DEF more
<1>4. Cardinality(1..(n + 1)) = n + 1
  <2> DEFINE m == n + 1
  <2>1. m \in Int /\ ~(1 > m) /\ m - 1 + 1 = m
    BY <1>1
  <2> HIDE DEF m
  <2>2. Cardinality(1..m) = IF 1 > m THEN 0 ELSE m - 1 + 1
    BY <2>1, FS_Interval
  <2>3. Cardinality(1..m) = m
    BY <2>1, <2>2
  <2> QED
    BY <2>3 DEF m
<1>5. \A c \in 1..(n + 1) : Columns \subseteq DOMAIN more[c] /\ more[c].starttime \in Int /\ more[c].starttime <= n + 1
  <2>1. \A c \in 1..(n + 1) : c \in 1..n \/ c = n + 1
    BY <1>1
  <2> QED
    BY <1>1, <1>3, <2>1
<1>6. \A c, d \in 1..(n + 1) : c # d => more[c].starttime # more[d].starttime
  <2>1. \A c \in 1..(n + 1) : c \in 1..n \/ c = n + 1
    BY <1>1
  <2>2. \A c \in 1..n : more[c].starttime \in Int /\ more[c].starttime <= n
    BY <1>1, <1>3
  <2>3. more[n + 1].starttime = n + 1
    BY <1>1, <1>3
  <2>4. \A c, d \in 1..n : c # d => more[c].starttime # more[d].starttime
    BY <1>1, <1>3
  <2> QED
    BY <1>1, <2>1, <2>2, <2>3, <2>4
<1>7. Numbered(more)
  BY <1>1, <1>3, <1>4, <1>5, <1>6 DEF Numbered
<1> QED
  BY <1>3, <1>7 DEF n, more

LEMMA NumberedSame ==
  ASSUME NEW commands, Numbered(commands), NEW finished, DOMAIN finished = DOMAIN commands,
         \A c \in DOMAIN commands : DOMAIN finished[c] = DOMAIN commands[c] /\ finished[c].starttime = commands[c].starttime
  PROVE  Numbered(finished)
<1> DEFINE n == Cardinality(DOMAIN commands)
<1>1. /\ n \in Nat /\ DOMAIN commands = 1..n
      /\ \A c \in 1..n : Columns \subseteq DOMAIN commands[c] /\ commands[c].starttime \in Int /\ commands[c].starttime <= n
      /\ \A c, d \in 1..n : c # d => commands[c].starttime # commands[d].starttime
  BY DEF Numbered
<1>2. Cardinality(DOMAIN finished) = n
  OBVIOUS
<1> HIDE DEF n
<1>3. \A c \in 1..n : Columns \subseteq DOMAIN finished[c] /\ finished[c].starttime \in Int /\ finished[c].starttime <= n
  BY <1>1
<1>4. \A c, d \in 1..n : c # d => finished[c].starttime # finished[d].starttime
  BY <1>1
<1> QED
  BY <1>1, <1>2, <1>3, <1>4 DEF Numbered

LEMMA CommandSentKeeps ==
  ASSUME TypeInv, PageInv, NEW g, CommandSent(g) PROVE PageInv' /\ ListEnds
<1> DEFINE n == Cardinality(DOMAIN db.commands)
           row == [actionid |-> id, agentid |-> g, status |-> "sent", founds |-> {}, starttime |-> 1 + n]
           more == With(db.commands, 1 + n, row)
<1>1. db' = [db EXCEPT !.commands = more] /\ UNCHANGED <<pc, id, fetch>>
  BY DEF CommandSent
<1>2. Columns \subseteq DOMAIN row /\ row.starttime = 1 + n
  BY DEF Columns
<1>3. Numbered(db.commands) /\ n \in Nat /\ DOMAIN db.commands = 1..n
  BY DEF PageInv, FetchType, Numbered
<1> HIDE DEF row
<1>4. Numbered(more) /\ DOMAIN more = 1..(n + 1) /\ \A c \in 1..n : more[c] = db.commands[c]
  <2>1. 1 + n = n + 1
    BY <1>3
  <2> QED
    BY <1>2, <1>3, <2>1, NumberedWith
<1> HIDE DEF more, n
<1>5. db'.commands = more /\ db'.signatures = db.signatures
  BY <1>1 DEF TypeInv
<1>6. \A c \in DOMAIN db.commands : c \in DOMAIN db'.commands /\ db'.commands[c] = db.commands[c]
  BY <1>3, <1>4, <1>5
<1>7. \A list : \A c \in Listed(id, list) : c \in Listed(id, list)'
  BY <1>1, <1>6 DEF Listed, CommandsOf
<1>8. \A c \in Listed(id, Head(fetch.lists)) : c \in Listed(id, Head(fetch.lists))'
  BY <1>1, <1>6 DEF Listed, CommandsOf
<1>9. DOMAIN fetch' = Fields
  BY <1>1 DEF PageInv, FetchType
<1> QED
  BY <1>1, <1>4, <1>5, <1>6, <1>8, <1>9, GrowingKeeps

(* A command is finished. It may come onto a list; it leaves one only when the list   *)
(* is of another status, and this is noticed.                                     *)
LEMMA CommandFinishedKeeps ==
  ASSUME TypeInv, PageInv, NEW c \in DOMAIN db.commands, NEW o \in Outcomes, CommandFinished(c, o)
  PROVE  PageInv' /\ ListEnds
<1> DEFINE n == Cardinality(DOMAIN db.commands)
           list == IF fetch.lists = << >> THEN << >> ELSE Head(fetch.lists)
           leaves == "status" \in DOMAIN list /\ db.commands[c].status \in list.status /\ o.status \notin list.status
<1>1. /\ db' = [db EXCEPT !.commands[c].status = o.status, !.commands[c].founds = o.founds]
      /\ fetch' = [fetch EXCEPT !.left = @ \/ leaves] /\ UNCHANGED <<pc, id>> /\ db.commands[c].status # "success"
  BY DEF CommandFinished
<1>2. /\ Numbered(db.commands) /\ n \in Nat /\ DOMAIN db.commands = 1..n
      /\ \A d \in 1..n : Columns \subseteq DOMAIN db.commands[d]
      /\ DOMAIN fetch = Fields
  BY DEF PageInv, FetchType, Numbered
<1>3. /\ db'.signatures = db.signatures /\ DOMAIN db'.commands = DOMAIN db.commands
      /\ \A d \in DOMAIN db.commands : d # c => db'.commands[d] = db.commands[d]
      /\ DOMAIN db'.commands[c] = DOMAIN db.commands[c]
      /\ db'.commands[c].actionid = db.commands[c].actionid /\ db'.commands[c].starttime = db.commands[c].starttime
      /\ db'.commands[c].status = o.status
  BY <1>1, <1>2 DEF TypeInv, Columns
<1>4. Numbered(db'.commands)
  <2>1. \A d \in DOMAIN db.commands : DOMAIN db'.commands[d] = DOMAIN db.commands[d] /\ db'.commands[d].starttime = db.commands[d].starttime
    BY <1>3
  <2> QED
    BY <1>2, <1>3, <2>1, NumberedSame
<1> HIDE DEF leaves
<1>5. /\ fetch'.lists = fetch.lists /\ fetch'.offset = fetch.offset /\ fetch'.got = fetch.got /\ fetch'.from = fetch.from
      /\ DOMAIN fetch' = Fields /\ (fetch.left \/ leaves => fetch'.left)
  BY <1>1, <1>2 DEF Fields
<1>6. ASSUME fetch.lists # << >>, ~leaves, NEW d \in Listed(id, Head(fetch.lists)) PROVE d \in Listed(id, Head(fetch.lists))'
  <2>1. CASE d # c
    BY <1>1, <1>3, <1>5, <2>1 DEF Listed, CommandsOf
  <2>2. CASE d = c
    <3>1. "foundanything" \notin DOMAIN list
      BY <1>1, <1>6, <2>2 DEF Listed
    <3>2. "status" \in DOMAIN list => o.status \in list.status
      BY <1>6, <2>2 DEF leaves, Listed
    <3>3. c \in CommandsOf(id)
      BY <2>2 DEF Listed
    <3>4. Head(fetch'.lists) = list
      BY <1>5, <1>6
    <3> HIDE DEF list
    <3>5. c \in CommandsOf(id)'
      BY <1>1, <1>3, <3>3 DEF CommandsOf
    <3> QED
      BY <1>3, <2>2, <3>1, <3>2, <3>4, <3>5 DEF Listed
  <2> QED
    BY <2>1, <2>2
<1> HIDE DEF list
<1>7. fetch.lists # << >> /\ ~fetch'.left =>
        ~fetch.left /\ \A d \in Listed(id, Head(fetch.lists)) : d \in Listed(id, Head(fetch.lists))'
  BY <1>5, <1>6
<1>8. \A d \in DOMAIN db.commands : d \in DOMAIN db'.commands /\ db'.commands[d].starttime = db.commands[d].starttime
  BY <1>3
<1> QED
  BY <1>1, <1>3, <1>4, <1>5, <1>7, <1>8, GrowingKeeps

LEMMA PageStart ==
  ASSUME ClientInit PROVE PageInv
<1>1. db = Tables /\ pc = "start" /\ fetch = NoFetch
  BY DEF ClientInit
<1>2. fetch.lists = << >> /\ fetch.offset = 0 /\ DOMAIN fetch = Fields /\ << >> \in Seq(Lists)
  BY <1>1 DEF NoFetch, Fields
<1>3. Numbered(db.commands)
  BY <1>1, CommandsAreNumbered
<1> QED
  BY <1>1, <1>2, <1>3 DEF PageInv, ReadIsSigned, Reading, FetchType, NothingMissed

LEMMA PageStep ==
  ASSUME TypeInv, PageInv, TablesAreSigned, [ClientNext]_cvars PROVE PageInv' /\ ListEnds
<1>1. CASE MigStep
  <2>1. CASE MigPage
    <3>1. FetchPage("print", "printed", "exit")
      BY <2>1 DEF MigPage
    <3> QED
      BY <3>1, PageKeeps
  <2> QED
    BY <1>1, <2>1, ElsewhereSteps, ElsewhereKeeps, PostKeeps, ListBegins DEF MigStep
<1>2. CASE FollowStep \/ StopFollow \/ Interrupt \/ WaitInterrupt \/ SearchStep \/ Tick
  BY <1>2, ElsewhereSteps, ElsewhereKeeps
<1>3. CASE LauncherStep
  <2>1. CASE ~ConsoleStart /\ ~Launch
    BY <1>3, <2>1, LauncherSteps, ElsewhereKeeps
  <2> QED
    BY <2>1, ConsoleStartReads, PostKeeps
<1>4. CASE ReaderStep
  <2>1. CASE ReaderPage
    <3>1. FetchPage("list", "reader", "exit")
      BY <2>1 DEF ReaderPage
    <3> QED
      BY <3>1, PageKeeps
  <2>2. CASE ReaderStart \/ ReaderCopy \/ Exit
    BY <2>2, ElsewhereSteps, ElsewhereKeeps
  <2>3. CASE \E show \in {"all", "found", "notfound"} : ReaderList(show) \/ ReaderResults(show)
    BY <2>3, ListBegins
  <2> QED
    BY <1>4, <2>1, <2>2, <2>3 DEF ReaderStep
<1>5. CASE ServerStep
  BY <1>5, ActionMovesKeeps, CommandSentKeeps, CommandFinishedKeeps DEF ServerStep
<1>6. CASE UNCHANGED cvars
  BY <1>6, StutterKeeps
<1> QED
  BY <1>1, <1>2, <1>3, <1>4, <1>5, <1>6 DEF ClientNext

(* A list that is read page by page holds all that belonged to it when it was begun,  *)
(* unless a command left it: the newest commands come first, so that what is sent or *)
(* finished meanwhile moves the rows that are still to be read further on, and never  *)
(* behind the offset. The actions that the console begins to read have a stored       *)
(* signature: the search for commands joins the signatures.                         *)
THEOREM PagesComplete ==
  ASSUME \A p \in Programs : p.mode = "console" /\ p.id # 0 => \E s \in Tables.signatures : s[1] = p.id
  PROVE  ClientSpec => PagesMissNothing
<1> DEFINE A == fetch.lists # << >> /\ fetch'.lists = Tail(fetch.lists) /\ pc' # "exit" =>
                  fetch.left \/ fetch.from \subseteq fetch.got
<1>1. TablesAreSigned
  BY DEF TablesAreSigned
<1>2. ClientInit => PageInv
  BY PageStart
<1>3. TypeInv /\ PageInv /\ [ClientNext]_cvars => PageInv' /\ [A]_cvars
  BY <1>1, PageStep DEF ListEnds
<1>4. ClientSpec => [][A]_cvars
  <2> HIDE DEF A
  <2> QED
    BY <1>2, <1>3, AlwaysPrepared, PTL DEF ClientSpec
<1> QED
  BY <1>4 DEF PagesMissNothing

--------------------------------------------------------------------------------
(* Searches. Which tables are joined. Between two tables of the chain lie the tables that     *)
(* connect them.                                                                *)
Linked == {"agents", "commands", "actions", "investigators"}

LEMMA JoinableIs ==
  ASSUME NEW tables
  PROVE  Joinable(tables) <=>
           /\ "agents" \in tables /\ "actions" \in tables => "commands" \in tables
           /\ "agents" \in tables /\ "investigators" \in tables => "commands" \in tables /\ "actions" \in tables
           /\ "commands" \in tables /\ "investigators" \in tables => "actions" \in tables
<1>1. /\ DOMAIN Chain = 1..4 /\ Chain[1] = "agents" /\ Chain[2] = "commands" /\ Chain[3] = "actions" /\ Chain[4] = "investigators"
  BY DEF Chain
<1>2. \A i, j, k \in 1..4 : i < j /\ j < k <=> <<i, j, k>> \in {<<1, 2, 3>>, <<1, 2, 4>>, <<1, 3, 4>>, <<2, 3, 4>>}
  OBVIOUS
<1>3. Joinable(tables) <=>
        \A s \in {<<1, 2, 3>>, <<1, 2, 4>>, <<1, 3, 4>>, <<2, 3, 4>>} :
          Chain[s[1]] \in tables /\ Chain[s[3]] \in tables => Chain[s[2]] \in tables
  <2>1. ASSUME Joinable(tables), NEW s \in {<<1, 2, 3>>, <<1, 2, 4>>, <<1, 3, 4>>, <<2, 3, 4>>},
               Chain[s[1]] \in tables, Chain[s[3]] \in tables
        PROVE  Chain[s[2]] \in tables
    BY <1>1, <2>1 DEF Joinable
  <2>2. ASSUME \A s \in {<<1, 2, 3>>, <<1, 2, 4>>, <<1, 3, 4>>, <<2, 3, 4>>} :
                 Chain[s[1]] \in tables /\ Chain[s[3]] \in tables => Chain[s[2]] \in tables
        PROVE  Joinable(tables)
    BY <1>1, <1>2, <2>2 DEF Joinable
  <2> QED
    BY <2>1, <2>2
<1> QED
  BY <1>1, <1>3

(* The parameters of a search of a linked table join just the tables on the way from  *)
(* that table to the one that they are compared with.                              *)
Way(base, t) ==
  CASE base = "agents" -> CASE t = "agents" -> {"agents"} [] t = "commands" -> {"agents", "commands"}
                            [] t = "actions" -> {"agents", "commands", "actions"} [] OTHER -> Linked
    [] base = "actions" -> CASE t = "agents" -> {"agents", "commands", "actions"} [] t = "commands" -> {"commands", "actions"}
                            [] t = "actions" -> {"actions"} [] OTHER -> {"actions", "investigators"}
    [] OTHER -> CASE t = "agents" -> Linked [] t = "commands" -> {"commands", "actions", "investigators"}
                  [] t = "actions" -> {"actions", "investigators"} [] OTHER -> {"investigators"}

Bases == {"agents", "actions", "investigators"}

LEMMA WayIsNeeded ==
  ASSUME NEW base \in Bases, NEW t \in Linked, NEW tables, Joinable(tables), base \in tables, t \in tables
  PROVE  Way(base, t) \subseteq tables \union {base}
BY JoinableIs DEF Way, Bases, Linked

JoinsTheWay(base, where) ==
  \A k \in DOMAIN where :
    IF where[k].table \in Linked THEN where[k].joins \union {base} = Way(base, where[k].table)
    ELSE where[k].table = "action" /\ where[k].joins = {}

LEMMA ActionsJoin == JoinsTheWay("actions", ActionWhere)
BY DEF JoinsTheWay, ActionWhere, Col, Linked, Way, Signed, RanOn

LEMMA AgentsJoin == JoinsTheWay("agents", AgentWhere)
BY DEF JoinsTheWay, AgentWhere, Col, Linked, Way, Ran, RanSigned

LEMMA InvestigatorsJoin == JoinsTheWay("investigators", InvestigatorWhere)
BY DEF JoinsTheWay, InvestigatorWhere, Col, Linked, Way, SignedFor, SignedRun, SignedRanOn

(* Ways from one table are joinable, also together.                                *)
LEMMA WaysAreJoinable ==
  ASSUME NEW base \in Bases, NEW where, JoinsTheWay(base, where), NEW filters
  PROVE  LET tables == TablesOf({base}, where, filters) IN
         /\ base \in tables /\ tables \subseteq Linked /\ Joinable(tables)
         /\ \A k \in Conditions(where, filters) : where[k].table \in Linked => where[k].table \in tables
         /\ \A x : Joinable(x) /\ base \in x /\ (\A k \in Conditions(where, filters) : where[k].table \in x) => tables \subseteq x
<1> DEFINE tables == TablesOf({base}, where, filters)
           K == Conditions(where, filters)
<1>1. K \subseteq DOMAIN where /\ tables = {base} \union UNION {where[k].joins : k \in K}
  BY DEF Conditions, TablesOf
<1>2. \A t \in Linked : base \in Way(base, t) /\ t \in Way(base, t) /\ Way(base, t) \subseteq Linked
  BY DEF Way, Bases, Linked
<1>3. \A k \in K : where[k].table \in Linked => where[k].joins \union {base} = Way(base, where[k].table)
  BY <1>1 DEF JoinsTheWay
<1>4. \A k \in K : where[k].table \notin Linked => where[k].joins = {}
  BY <1>1 DEF JoinsTheWay
<1> HIDE DEF K, tables
<1>5. base \in tables /\ tables \subseteq Linked
  <2>1. base \in Linked
    BY DEF Bases, Linked
  <2>2. \A k \in K : where[k].joins \subseteq Linked
    BY <1>2, <1>3, <1>4
  <2> QED
    BY <1>1, <2>1, <2>2
<1>6. \A k \in K : where[k].table \in Linked => where[k].table \in tables
  BY <1>1, <1>2, <1>3
<1>7. \A t \in tables : Way(base, t) \subseteq tables
  <2> SUFFICES ASSUME NEW t \in tables PROVE Way(base, t) \subseteq tables
    OBVIOUS
  <2>1. CASE t = base
    <3>1. Way(base, base) = {base}
      BY DEF Way, Bases
    <3> QED
      BY <1>5, <2>1, <3>1
  <2>2. CASE t # base
    <3>1. PICK k \in K : t \in where[k].joins
      BY <1>1, <2>2
    <3>2. where[k].table \in Linked /\ where[k].joins \union {base} = Way(base, where[k].table)
      BY <1>3, <1>4, <3>1
    <3>3. \A u \in Linked : t \in Way(base, u) => Way(base, t) \subseteq Way(base, u)
      BY DEF Way, Bases, Linked
    <3>4. Way(base, t) \subseteq where[k].joins \union {base}
      BY <3>1, <3>2, <3>3
    <3> QED
      BY <1>1, <1>5, <3>4
  <2> QED
    BY <2>1, <2>2
<1>8. Joinable(tables)
  <2>1. CASE base = "agents"
    BY <1>5, <1>7, <2>1, JoinableIs DEF Way, Linked
  <2>2. CASE base = "actions"
    BY <1>5, <1>7, <2>2, JoinableIs DEF Way, Linked
  <2>3. CASE base = "investigators"
    BY <1>5, <1>7, <2>3, JoinableIs DEF Way, Linked
  <2> QED
    BY <2>1, <2>2, <2>3 DEF Bases
<1>9. ASSUME NEW x, Joinable(x), base \in x, \A k \in K : where[k].table \in x PROVE tables \subseteq x
  <2>1. \A k \in K : where[k].joins \subseteq x
    <3> SUFFICES ASSUME NEW k \in K PROVE where[k].joins \subseteq x
      OBVIOUS
    <3>1. CASE where[k].table \in Linked
      <4>1. Way(base, where[k].table) \subseteq x \union {base}
        BY <1>9, <3>1, WayIsNeeded
      <4> QED
        BY <1>3, <1>9, <3>1, <4>1
    <3>2. CASE where[k].table \notin Linked
      BY <1>4, <3>2
    <3> QED
      BY <3>1, <3>2
  <2> QED
    BY <1>1, <1>9, <2>1
<1> QED
  BY <1>5, <1>6, <1>8, <1>9 DEF tables, K

--------------------------------------------------------------------------------
(* Joined rows.                                                                   *)
Consistent ==
  /\ \A c \in DOMAIN db.commands : db.commands[c].actionid \in DOMAIN db.actions /\ db.commands[c].agentid \in DOMAIN db.agents
  /\ \A s \in db.signatures : s[1] \in DOMAIN db.actions /\ s[2] \in DOMAIN db.investigators

One(tables) == \E t \in Linked : tables = {t}
Two(tables) == tables = {"actions", "investigators"}
Many(tables) == "commands" \in tables /\ ~One(tables)

LEMMA JoinedIs ==
  ASSUME NEW tables \in SUBSET Linked, tables # {}, Joinable(tables)
  PROVE  /\ One(tables) \/ Two(tables) \/ Many(tables)
         /\ One(tables) => Joined(tables) = UNION {[tables -> {i}] : i \in UNION {DOMAIN db[t] : t \in tables}}
         /\ Two(tables) => Joined(tables) = {[t \in tables |-> IF t = "actions" THEN s[1] ELSE s[2]] : s \in db.signatures}
         /\ Many(tables) => Joined(tables) =
              UNION {{Row(tables, c, i) : i \in IF "investigators" \in tables THEN SignersOf(db.commands[c].actionid) ELSE {0}} :
                       c \in DOMAIN db.commands}
<1>1. IsFiniteSet(tables)
  <2>1. IsFiniteSet({}) /\ IsFiniteSet({} \union {"agents"}) /\ IsFiniteSet(({} \union {"agents"}) \union {"commands"})
    BY FS_EmptySet, FS_AddElement
  <2>2. IsFiniteSet((({} \union {"agents"}) \union {"commands"}) \union {"actions"})
    BY <2>1, FS_AddElement
  <2>3. IsFiniteSet(((({} \union {"agents"}) \union {"commands"}) \union {"actions"}) \union {"investigators"})
    BY <2>2, FS_AddElement
  <2>4. Linked = ((({} \union {"agents"}) \union {"commands"}) \union {"actions"}) \union {"investigators"}
    BY DEF Linked
  <2> QED
    BY <2>3, <2>4, FS_Subset
<1>2. Cardinality(tables) = 1 <=> One(tables)
  BY <1>1, FS_Singleton DEF One
<1>3. ~One(tables) /\ "commands" \notin tables => Two(tables)
  <2> SUFFICES ASSUME ~One(tables), "commands" \notin tables PROVE Two(tables)
    OBVIOUS
  <2>1. \A t \in Linked : t \in tables => \E u \in tables : u # t
    BY DEF One
  <2>2. "agents" \notin tables
    BY <2>1, JoinableIs DEF Linked
  <2> QED
    BY <2>1, <2>2 DEF Two, Linked
<1>4. Two(tables) => ~One(tables) /\ "commands" \notin tables
  BY DEF Two, One, Linked
<1> QED
  BY <1>2, <1>3, <1>4 DEF Joined, Many

LEMMA RowHas ==
  ASSUME NEW tables \in SUBSET Linked, NEW c, NEW i
  PROVE  LET r == Row(tables, c, i) IN
         /\ DOMAIN r = tables
         /\ "commands" \in tables => r["commands"] = c
         /\ "actions" \in tables => r["actions"] = db.commands[c].actionid
         /\ "agents" \in tables => r["agents"] = db.commands[c].agentid
         /\ "investigators" \in tables => r["investigators"] = i
BY DEF Row, Linked

LEMMA OneRow ==
  ASSUME NEW t \in Linked, NEW i \in DOMAIN db[t] PROVE \E j \in Joined({t}) : DOMAIN j = {t} /\ j[t] = i
<1> DEFINE j == [u \in {t} |-> i]
<1>1. One({t}) /\ {t} \in SUBSET Linked /\ {t} # {}
  BY DEF One
<1>2. Joinable({t})
  BY JoinableIs
<1>3. j \in [{t} -> {i}] /\ DOMAIN j = {t} /\ j[t] = i
  OBVIOUS
<1>4. j \in Joined({t})
  BY <1>1, <1>2, <1>3, JoinedIs
<1> HIDE DEF j
<1> QED
  BY <1>3, <1>4

(* Fewer tables have no fewer rows: every row refers to rows that are there.        *)
LEMMA Projection ==
  ASSUME Consistent, NEW x \in SUBSET Linked, NEW y \in SUBSET x, y # {}, Joinable(x), Joinable(y), NEW j \in Joined(x)
  PROVE  /\ DOMAIN j = x
         /\ \E r \in Joined(y) : DOMAIN r = y /\ \A t \in y : r[t] = j[t]
<1>1. x # {} /\ y \in SUBSET Linked
  OBVIOUS
<1>2. CASE One(x)
  <2>1. y = x
    BY <1>1, <1>2 DEF One
  <2>2. PICK i : j \in [x -> {i}]
    BY <1>1, <1>2, JoinedIs
  <2> QED
    BY <2>1, <2>2
<1>3. CASE Two(x)
  <2>1. PICK s \in db.signatures : j = [t \in x |-> IF t = "actions" THEN s[1] ELSE s[2]]
    BY <1>1, <1>3, JoinedIs
  <2>2. DOMAIN j = x /\ j["actions"] = s[1] /\ j["investigators"] = s[2] /\ x = {"actions", "investigators"}
    BY <1>3, <2>1 DEF Two
  <2>3. s[1] \in DOMAIN db["actions"] /\ s[2] \in DOMAIN db["investigators"]
    BY DEF Consistent
  <2>4. CASE y = x
    BY <2>2, <2>4
  <2>5. CASE y = {"actions"}
    BY <2>2, <2>3, <2>5, OneRow DEF Linked
  <2>6. CASE y = {"investigators"}
    BY <2>2, <2>3, <2>6, OneRow DEF Linked
  <2> QED
    BY <2>2, <2>4, <2>5, <2>6
<1>4. CASE Many(x)
  <2>1. PICK c \in DOMAIN db.commands :
          \E i \in IF "investigators" \in x THEN SignersOf(db.commands[c].actionid) ELSE {0} : j = Row(x, c, i)
    BY <1>1, <1>4, JoinedIs
  <2> PICK i \in IF "investigators" \in x THEN SignersOf(db.commands[c].actionid) ELSE {0} : j = Row(x, c, i)
    BY <2>1
  <2>2. /\ DOMAIN j = x /\ j["commands"] = c /\ "commands" \in x
        /\ "actions" \in x => j["actions"] = db.commands[c].actionid
        /\ "agents" \in x => j["agents"] = db.commands[c].agentid
        /\ "investigators" \in x => j["investigators"] = i
    BY <1>4, RowHas DEF Many
  <2>3. "investigators" \in x => \E s \in db.signatures : s[1] = db.commands[c].actionid /\ s[2] = i
    BY DEF SignersOf
  <2>4. \A t \in x : j[t] \in DOMAIN db[t]
    <3>1. CASE "investigators" \in x
      BY <2>2, <2>3, <3>1 DEF Consistent, Linked
    <3>2. CASE "investigators" \notin x
      BY <2>2, <3>2 DEF Consistent, Linked
    <3> QED
      BY <3>1, <3>2
  <2>5. CASE One(y)
    <3>1. PICK t \in Linked : y = {t}
      BY <2>5 DEF One
    <3>2. PICK r \in Joined({t}) : DOMAIN r = {t} /\ r[t] = j[t]
      BY <2>4, <3>1, OneRow
    <3> QED
      BY <2>2, <3>1, <3>2
  <2>6. CASE Two(y)
    <3>1. PICK s \in db.signatures : s[1] = db.commands[c].actionid /\ s[2] = i
      BY <2>3, <2>6 DEF Two
    <3> DEFINE r == [t \in y |-> IF t = "actions" THEN s[1] ELSE s[2]]
    <3>2. r \in Joined(y)
      BY <1>1, <2>6, JoinedIs
    <3>3. DOMAIN r = y /\ r["actions"] = s[1] /\ r["investigators"] = s[2]
      BY <2>6 DEF Two
    <3> HIDE DEF r
    <3>4. \A t \in y : r[t] = j[t]
      BY <2>2, <2>6, <3>1, <3>3 DEF Two
    <3> QED
      BY <2>2, <3>2, <3>3, <3>4
  <2>7. CASE Many(y)
    <3>1. PICK k \in IF "investigators" \in y THEN SignersOf(db.commands[c].actionid) ELSE {0} :
            "investigators" \in y => k = i
      OBVIOUS
    <3> DEFINE r == Row(y, c, k)
    <3>2. r \in Joined(y)
      BY <1>1, <2>7, JoinedIs
    <3>3. /\ DOMAIN r = y
          /\ "commands" \in y => r["commands"] = c
          /\ "actions" \in y => r["actions"] = db.commands[c].actionid
          /\ "agents" \in y => r["agents"] = db.commands[c].agentid
          /\ "investigators" \in y => r["investigators"] = k
      BY <1>1, RowHas
    <3> HIDE DEF r
    <3>4. \A t \in y : r[t] = j[t]
      BY <2>2, <3>1, <3>3 DEF Linked
    <3> QED
      BY <2>2, <3>2, <3>3, <3>4
  <2> QED
    BY <1>1, <2>5, <2>6, <2>7, JoinedIs
<1> QED
  BY <1>1, <1>2, <1>3, <1>4, JoinedIs

--------------------------------------------------------------------------------
(* The rows of a statement are what its conditions mean.                          *)
AcceptsAll(j, where, filters) == \A k \in Conditions(where, filters) : where[k].table \in DOMAIN j /\ Accepts(j, where[k], filters[k])
Related(base) ==
  IF base \in Linked THEN UNION {Joined(x) : x \in {y \in SUBSET Linked : base \in y /\ Joinable(y)}} ELSE Joined({base})
Meant(base, where, filters) == {r[base] : r \in {j \in Related(base) : AcceptsAll(j, where, filters)}}

LEMMA AcceptsSame ==
  ASSUME NEW r, NEW s, NEW c, NEW values, r[c.table] = s[c.table], c.column = "founds" => c.table = "commands"
  PROVE  Accepts(r, c, values) <=> Accepts(s, c, values)
BY DEF Accepts, Value

(* Only what a command has found is looked up in another way.                      *)
FoundsOfCommands(where) == \A k \in DOMAIN where : where[k].column = "founds" => where[k].table = "commands"

LEMMA LinkedRows ==
  ASSUME Consistent, NEW base \in Bases, NEW where, JoinsTheWay(base, where), FoundsOfCommands(where), NEW filters,
         IsStatement(TablesOf({base}, where, filters), where, filters)
  PROVE  Rows(base, TablesOf({base}, where, filters), where, filters) = Meant(base, where, filters)
<1> DEFINE T == TablesOf({base}, where, filters)
           K == Conditions(where, filters)
<1>1. /\ base \in T /\ T \subseteq Linked /\ Joinable(T) /\ base \in Linked
      /\ \A x : Joinable(x) /\ base \in x /\ (\A k \in K : where[k].table \in x) => T \subseteq x
  BY WaysAreJoinable DEF Bases, Linked
<1>2. \A k \in K : where[k].table \in T /\ (where[k].column = "founds" => where[k].table = "commands")
  BY DEF IsStatement, FoundsOfCommands, Conditions
<1>3. Related(base) = UNION {Joined(x) : x \in {y \in SUBSET Linked : base \in y /\ Joinable(y)}}
  BY <1>1 DEF Related
<1>4. Rows(base, T, where, filters) = {r[base] : r \in {j \in Joined(T) : \A k \in K : Accepts(j, where[k], filters[k])}}
  BY DEF Rows
<1> HIDE DEF T
<1>5. ASSUME NEW j \in Joined(T), \A k \in K : Accepts(j, where[k], filters[k])
      PROVE  j \in Related(base) /\ AcceptsAll(j, where, filters)
  <2>1. T \in {y \in SUBSET Linked : base \in y /\ Joinable(y)}
    BY <1>1
  <2>2. j \in Related(base)
    BY <1>3, <2>1
  <2>3. DOMAIN j = T
    BY <1>1, Projection
  <2> QED
    BY <1>2, <1>5, <2>2, <2>3 DEF AcceptsAll
<1>6. ASSUME NEW j \in Related(base), AcceptsAll(j, where, filters)
      PROVE  \E r \in Joined(T) : r[base] = j[base] /\ \A k \in K : Accepts(r, where[k], filters[k])
  <2>1. PICK x \in SUBSET Linked : base \in x /\ Joinable(x) /\ j \in Joined(x)
    BY <1>3
  <2>2. DOMAIN j = x
    BY <2>1, Projection
  <2>3. T \subseteq x
    BY <1>1, <1>6, <2>1, <2>2 DEF AcceptsAll
  <2>4. PICK r \in Joined(T) : \A t \in T : r[t] = j[t]
    BY <1>1, <2>1, <2>3, Projection
  <2>5. \A k \in K : Accepts(r, where[k], filters[k])
    BY <1>2, <1>6, <2>4, AcceptsSame DEF AcceptsAll
  <2> QED
    BY <1>1, <2>4, <2>5
<1>7. Rows(base, T, where, filters) \subseteq Meant(base, where, filters)
  BY <1>4, <1>5 DEF Meant
<1>8. Meant(base, where, filters) \subseteq Rows(base, T, where, filters)
  <2> SUFFICES ASSUME NEW j \in Related(base), AcceptsAll(j, where, filters) PROVE j[base] \in Rows(base, T, where, filters)
    BY DEF Meant
  <2> PICK r \in Joined(T) : r[base] = j[base] /\ \A k \in K : Accepts(r, where[k], filters[k])
    BY <1>6
  <2> QED
    BY <1>4
<1> QED
  BY <1>7, <1>8 DEF T

(* Commands are joined with all other tables, whatever the conditions are: those of   *)
(* actions without a signature are lost.                                          *)
LEMMA CommandRowsAre ==
  ASSUME Consistent, NEW where, FoundsOfCommands(where), \A k \in DOMAIN where : where[k].table \in Linked, NEW filters
  PROVE  Rows("commands", Linked, where, filters) = Meant("commands", where, filters) \ Unsigned
<1> DEFINE K == Conditions(where, filters)
           base == "commands"
<1>1. Joinable(Linked) /\ base \in Linked /\ Many(Linked) /\ "investigators" \in Linked
  BY JoinableIs DEF Linked, Many, One
<1>2. \A k \in K : where[k].table \in Linked /\ (where[k].column = "founds" => where[k].table = "commands")
  BY DEF FoundsOfCommands, Conditions
<1>3. Related(base) = UNION {Joined(x) : x \in {y \in SUBSET Linked : base \in y /\ Joinable(y)}}
  BY <1>1 DEF Related
<1>4. Rows(base, Linked, where, filters) = {r[base] : r \in {j \in Joined(Linked) : \A k \in K : Accepts(j, where[k], filters[k])}}
  BY DEF Rows
<1>5. Joined(Linked) = UNION {{Row(Linked, c, i) : i \in SignersOf(db.commands[c].actionid)} : c \in DOMAIN db.commands}
  BY <1>1, JoinedIs
<1>6. ASSUME NEW j \in Joined(Linked), \A k \in K : Accepts(j, where[k], filters[k])
      PROVE  j \in Related(base) /\ AcceptsAll(j, where, filters) /\ j[base] \notin Unsigned
  <2>1. Linked \in {y \in SUBSET Linked : base \in y /\ Joinable(y)}
    BY <1>1
  <2>2. j \in Related(base)
    BY <1>3, <2>1
  <2>3. DOMAIN j = Linked
    BY <1>1, Projection
  <2>4. PICK c \in DOMAIN db.commands : \E i \in SignersOf(db.commands[c].actionid) : j = Row(Linked, c, i)
    BY <1>5
  <2>5. j[base] = c
    BY <1>1, <2>4, RowHas
  <2>6. \E s \in db.signatures : s[1] = db.commands[c].actionid
    BY <2>4 DEF SignersOf
  <2> QED
    BY <1>2, <1>6, <2>2, <2>3, <2>5, <2>6 DEF AcceptsAll, Unsigned
<1>7. ASSUME NEW j \in Related(base), AcceptsAll(j, where, filters), j[base] \notin Unsigned
      PROVE  \E r \in Joined(Linked) : r[base] = j[base] /\ \A k \in K : Accepts(r, where[k], filters[k])
  <2>1. PICK x \in SUBSET Linked : base \in x /\ Joinable(x) /\ j \in Joined(x)
    BY <1>3
  <2>2. DOMAIN j = x
    BY <2>1, Projection
  <2> DEFINE c == j[base]
  <2>3. PICK y \in SUBSET Linked : y = {base}
    BY <1>1
  <2>4. \/ One(x) /\ x = {base}
        \/ Many(x)
    <3>1. ~Two(x)
      BY <2>1 DEF Two
    <3>2. One(x) \/ Many(x)
      BY <2>1, <3>1, JoinedIs
    <3> QED
      BY <2>1, <3>2 DEF One
  <2>5. /\ c \in DOMAIN db.commands
        /\ \E i \in SignersOf(db.commands[c].actionid) : \A t \in x : Row(Linked, c, i)[t] = j[t]
    <3>1. CASE One(x) /\ x = {base}
      <4>1. PICK i \in UNION {DOMAIN db[t] : t \in x} : j \in [x -> {i}]
        BY <2>1, <3>1, JoinedIs
      <4>2. c \in DOMAIN db.commands
        BY <3>1, <4>1
      <4>3. PICK s \in db.signatures : s[1] = db.commands[c].actionid
        BY <1>7, <4>2 DEF Unsigned
      <4>4. s[2] \in SignersOf(db.commands[c].actionid)
        BY <4>3 DEF SignersOf
      <4>5. Row(Linked, c, s[2])[base] = c
        BY <1>1, RowHas
      <4> QED
        BY <3>1, <4>2, <4>4, <4>5
    <3>2. CASE Many(x)
      <4>1. PICK d \in DOMAIN db.commands :
              \E i \in IF "investigators" \in x THEN SignersOf(db.commands[d].actionid) ELSE {0} : j = Row(x, d, i)
        BY <2>1, <3>2, JoinedIs
      <4> PICK i \in IF "investigators" \in x THEN SignersOf(db.commands[d].actionid) ELSE {0} : j = Row(x, d, i)
        BY <4>1
      <4>2. /\ j["commands"] = d
            /\ "actions" \in x => j["actions"] = db.commands[d].actionid
            /\ "agents" \in x => j["agents"] = db.commands[d].agentid
            /\ "investigators" \in x => j["investigators"] = i
        BY <2>1, RowHas
      <4>3. c = d
        BY <4>2
      <4>4. PICK s \in db.signatures : s[1] = db.commands[c].actionid
        BY <1>7, <4>3 DEF Unsigned
      <4>5. s[2] \in SignersOf(db.commands[c].actionid)
        BY <4>4 DEF SignersOf
      <4>6. PICK k \in SignersOf(db.commands[c].actionid) : "investigators" \in x => k = i
        BY <4>3, <4>5
      <4>7. /\ Row(Linked, c, k)["commands"] = c
            /\ Row(Linked, c, k)["actions"] = db.commands[c].actionid
            /\ Row(Linked, c, k)["agents"] = db.commands[c].agentid
            /\ Row(Linked, c, k)["investigators"] = k
        BY RowHas DEF Linked
      <4> HIDE DEF c
      <4>8. \A t \in x : Row(Linked, c, k)[t] = j[t]
        BY <4>2, <4>3, <4>6, <4>7 DEF Linked
      <4> QED
        BY <4>3, <4>8
    <3> QED
      BY <2>4, <3>1, <3>2
  <2> PICK i \in SignersOf(db.commands[c].actionid) : \A t \in x : Row(Linked, c, i)[t] = j[t]
    BY <2>5
  <2> DEFINE r == Row(Linked, c, i)
  <2>6. r \in Joined(Linked) /\ \A t \in x : r[t] = j[t]
    BY <1>5, <2>5
  <2> HIDE DEF r
  <2>7. \A k \in K : Accepts(r, where[k], filters[k])
    BY <1>2, <1>7, <2>2, <2>6, AcceptsSame DEF AcceptsAll
  <2> QED
    BY <2>1, <2>6, <2>7
<1>8. Rows(base, Linked, where, filters) \subseteq Meant(base, where, filters) \ Unsigned
  BY <1>4, <1>6 DEF Meant
<1>9. Meant(base, where, filters) \ Unsigned \subseteq Rows(base, Linked, where, filters)
  <2> SUFFICES ASSUME NEW j \in Related(base), AcceptsAll(j, where, filters), j[base] \notin Unsigned
               PROVE  j[base] \in Rows(base, Linked, where, filters)
    BY DEF Meant
  <2> PICK r \in Joined(Linked) : r[base] = j[base] /\ \A k \in K : Accepts(r, where[k], filters[k])
    BY <1>7
  <2> QED
    BY <1>4
<1> QED
  BY <1>8, <1>9

LEMMA SingleRows ==
  ASSUME NEW base, base \notin Linked, NEW where, \A k \in DOMAIN where : where[k].table = base, NEW filters
  PROVE  Rows(base, {base}, where, filters) = Meant(base, where, filters)
<1>1. Related(base) = Joined({base})
  BY DEF Related
<1>2. \A j \in Joined({base}) : DOMAIN j = {base}
  <2>1. Cardinality({base}) = 1
    BY FS_Singleton
  <2>2. Joined({base}) = UNION {[{base} -> {i}] : i \in UNION {DOMAIN db[t] : t \in {base}}}
    BY <2>1 DEF Joined
  <2> QED
    BY <2>2
<1>3. \A j \in Joined({base}) : AcceptsAll(j, where, filters) <=> \A k \in Conditions(where, filters) : Accepts(j, where[k], filters[k])
  BY <1>2 DEF AcceptsAll, Conditions
<1> QED
  BY <1>1, <1>3 DEF Rows, Meant

--------------------------------------------------------------------------------
(* What each search means.                                                        *)
BaseOf(type) == Table[type]
Everything(type) == IF type = "command" THEN Linked ELSE {BaseOf(type)}
Answers(type, filters) ==
  IF type = "command" THEN Meant("commands", CommandWhere, filters) \ Unsigned ELSE Meant(BaseOf(type), WhereOf[type], filters)
Comparable(type, filters) == Conditions(WhereOf[type], filters) # {} /\ ~(type = "action" /\ "status" \in DOMAIN filters)

LEMMA Bases3 ==
  /\ BaseOf("action") = "actions" /\ WhereOf["action"] = ActionWhere
  /\ BaseOf("agent") = "agents" /\ WhereOf["agent"] = AgentWhere
  /\ BaseOf("investigator") = "investigators" /\ WhereOf["investigator"] = InvestigatorWhere
  /\ BaseOf("command") = "commands" /\ WhereOf["command"] = CommandWhere
  /\ BaseOf("manifest") = "manifests" /\ WhereOf["manifest"] = ManifestWhere
  /\ BaseOf("loader") = "loaders" /\ WhereOf["loader"] = LoaderWhere
BY DEF BaseOf, Table, WhereOf

LEMMA FoundsAreOfCommands ==
  /\ FoundsOfCommands(ActionWhere) /\ FoundsOfCommands(AgentWhere) /\ FoundsOfCommands(InvestigatorWhere)
  /\ FoundsOfCommands(CommandWhere)
<1>1. FoundsOfCommands(ActionWhere)
  BY DEF FoundsOfCommands, ActionWhere, Col
<1>2. FoundsOfCommands(AgentWhere)
  BY DEF FoundsOfCommands, AgentWhere, Col
<1>3. FoundsOfCommands(InvestigatorWhere)
  BY DEF FoundsOfCommands, InvestigatorWhere, Col
<1>4. FoundsOfCommands(CommandWhere)
  BY DEF FoundsOfCommands, CommandWhere, Col
<1> QED
  BY <1>1, <1>2, <1>3, <1>4

LEMMA TablesOfColumns ==
  /\ \A k \in DOMAIN ActionWhere : ActionWhere[k].table \in Linked <=> k # "status"
  /\ "status" \in DOMAIN ActionWhere
  /\ \A k \in DOMAIN AgentWhere : AgentWhere[k].table \in Linked
  /\ \A k \in DOMAIN InvestigatorWhere : InvestigatorWhere[k].table \in Linked
  /\ \A k \in DOMAIN CommandWhere : CommandWhere[k].table \in Linked /\ CommandWhere[k].joins = {}
  /\ \A k \in DOMAIN ManifestWhere : ManifestWhere[k].table = "manifests" /\ ManifestWhere[k].joins = {}
  /\ \A k \in DOMAIN LoaderWhere : LoaderWhere[k].table = "loaders" /\ LoaderWhere[k].joins = {}
<1>1. (\A k \in DOMAIN ActionWhere : ActionWhere[k].table \in Linked <=> k # "status") /\ "status" \in DOMAIN ActionWhere
  BY DEF ActionWhere, Col, Linked
<1>2. \A k \in DOMAIN AgentWhere : AgentWhere[k].table \in Linked
  BY DEF AgentWhere, Col, Linked
<1>3. \A k \in DOMAIN InvestigatorWhere : InvestigatorWhere[k].table \in Linked
  BY DEF InvestigatorWhere, Col, Linked
<1>4. \A k \in DOMAIN CommandWhere : CommandWhere[k].table \in Linked /\ CommandWhere[k].joins = {}
  BY DEF CommandWhere, Col, Linked
<1>5. \A k \in DOMAIN ManifestWhere : ManifestWhere[k].table = "manifests" /\ ManifestWhere[k].joins = {}
  BY DEF ManifestWhere, Col
<1>6. \A k \in DOMAIN LoaderWhere : LoaderWhere[k].table = "loaders" /\ LoaderWhere[k].joins = {}
  BY DEF LoaderWhere, Col
<1> QED
  BY <1>1, <1>2, <1>3, <1>4, <1>5, <1>6

(* Every row that is selected is one of the table.                                *)
LEMMA RowsAreThere ==
  ASSUME Consistent, NEW x \in SUBSET Linked, Joinable(x), NEW base \in x, NEW where, NEW filters
  PROVE  Rows(base, x, where, filters) \subseteq DOMAIN db[base]
<1> SUFFICES ASSUME NEW j \in Joined(x) PROVE j[base] \in DOMAIN db[base]
  BY DEF Rows
<1>1. Joinable({base}) /\ {base} \in SUBSET x /\ {base} # {} /\ One({base}) /\ {base} \in SUBSET Linked
  BY JoinableIs DEF One
<1>2. PICK r \in Joined({base}) : \A t \in {base} : r[t] = j[t]
  BY <1>1, Projection
<1>3. Joined({base}) = UNION {[{base} -> {i}] : i \in UNION {DOMAIN db[t] : t \in {base}}}
  BY <1>1, JoinedIs
<1> QED
  BY <1>2, <1>3

LEMMA SingleThere ==
  ASSUME NEW base, NEW where, NEW filters PROVE Rows(base, {base}, where, filters) \subseteq DOMAIN db[base]
<1> SUFFICES ASSUME NEW j \in Joined({base}) PROVE j[base] \in DOMAIN db[base]
  BY DEF Rows
<1>1. Cardinality({base}) = 1
  BY FS_Singleton
<1>2. Joined({base}) = UNION {[{base} -> {i}] : i \in UNION {DOMAIN db[t] : t \in {base}}}
  BY <1>1 DEF Joined
<1> QED
  BY <1>2

(* A statement is one unless it has no condition, or compares the status of an action. *)
LEMMA LinkedStatement ==
  ASSUME Consistent, NEW type \in {"action", "agent", "investigator"}, NEW filters
  PROVE  LET s == Select(BaseOf(type), Everything(type), WhereOf[type], filters) IN
         /\ s.ok <=> Comparable(type, filters)
         /\ s.ok => s.rows = Answers(type, filters) /\ s.rows \subseteq DOMAIN db[BaseOf(type)]
<1> DEFINE base == BaseOf(type)
           where == WhereOf[type]
           T == TablesOf({base}, where, filters)
           K == Conditions(where, filters)
           s == Select(base, Everything(type), where, filters)
<1>1. base \in Bases /\ JoinsTheWay(base, where) /\ FoundsOfCommands(where) /\ Everything(type) = {base}
  BY Bases3, ActionsJoin, AgentsJoin, InvestigatorsJoin, FoundsAreOfCommands DEF Bases, Everything
<1>2. /\ type = "action" => "status" \in DOMAIN where /\ \A k \in DOMAIN where : where[k].table \in Linked <=> k # "status"
      /\ type # "action" => \A k \in DOMAIN where : where[k].table \in Linked
  BY Bases3, TablesOfColumns
<1>3. /\ base \in T /\ T \subseteq Linked /\ Joinable(T)
      /\ \A k \in K : where[k].table \in Linked => where[k].table \in T
  BY <1>1, WaysAreJoinable
<1>4. Answers(type, filters) = Meant(base, where, filters)
  BY DEF Answers
<1>5. s.ok = IsStatement(T, where, filters) /\ s.rows = IF IsStatement(T, where, filters) THEN Rows(base, T, where, filters) ELSE {}
  BY <1>1, SelectIs
<1> HIDE DEF base, where, T, s
<1>6. IsStatement(T, where, filters) <=> K # {} /\ \A k \in K : where[k].table \in Linked
  BY <1>3 DEF IsStatement
<1>7. (\A k \in K : where[k].table \in Linked) <=> ~(type = "action" /\ "status" \in DOMAIN filters)
  BY <1>2 DEF Conditions
<1>8. Comparable(type, filters) <=> K # {} /\ ~(type = "action" /\ "status" \in DOMAIN filters)
  BY DEF Comparable, where
<1>9. IsStatement(T, where, filters) => Rows(base, T, where, filters) = Meant(base, where, filters)
  BY <1>1, LinkedRows DEF T
<1>10. Rows(base, T, where, filters) \subseteq DOMAIN db[base]
  BY <1>3, RowsAreThere
<1>11. s.ok <=> Comparable(type, filters)
  BY <1>5, <1>6, <1>7, <1>8
<1>12. s.ok => s.rows = Answers(type, filters) /\ s.rows \subseteq DOMAIN db[base]
  BY <1>4, <1>5, <1>9, <1>10
<1> QED
  BY <1>11, <1>12 DEF s, base, where

LEMMA CommandStatement ==
  ASSUME Consistent, NEW filters
  PROVE  LET s == Select("commands", Linked, CommandWhere, filters) IN
         /\ s.ok <=> Comparable("command", filters)
         /\ s.ok => s.rows = Answers("command", filters) /\ s.rows \subseteq DOMAIN db["commands"]
<1> DEFINE T == TablesOf(Linked, CommandWhere, filters)
           K == Conditions(CommandWhere, filters)
           s == Select("commands", Linked, CommandWhere, filters)
<1>1. T = Linked /\ K \subseteq DOMAIN CommandWhere
  <2>1. \A k \in K : CommandWhere[k].joins = {}
    BY TablesOfColumns DEF Conditions
  <2> QED
    BY <2>1 DEF TablesOf, Conditions
<1>2. s.ok = IsStatement(T, CommandWhere, filters)
      /\ s.rows = IF IsStatement(T, CommandWhere, filters) THEN Rows("commands", T, CommandWhere, filters) ELSE {}
  BY SelectIs
<1> HIDE DEF T, s
<1>3. Joinable(Linked) /\ "commands" \in Linked
  BY JoinableIs DEF Linked
<1>4. IsStatement(Linked, CommandWhere, filters) <=> K # {}
  BY <1>1, <1>3, TablesOfColumns DEF IsStatement
<1>5. Rows("commands", Linked, CommandWhere, filters) = Meant("commands", CommandWhere, filters) \ Unsigned
  BY TablesOfColumns, FoundsAreOfCommands, CommandRowsAre
<1>6. Rows("commands", Linked, CommandWhere, filters) \subseteq DOMAIN db["commands"]
  BY <1>3, RowsAreThere
<1>7. Comparable("command", filters) <=> K # {}
  BY Bases3 DEF Comparable
<1> QED
  BY <1>1, <1>2, <1>4, <1>5, <1>6, <1>7 DEF s, Answers

LEMMA SingleStatement ==
  ASSUME NEW type \in {"manifest", "loader"}, NEW filters
  PROVE  LET s == Select(BaseOf(type), Everything(type), WhereOf[type], filters) IN
         /\ s.ok <=> Comparable(type, filters)
         /\ s.ok => s.rows = Answers(type, filters) /\ s.rows \subseteq DOMAIN db[BaseOf(type)]
<1> DEFINE base == BaseOf(type)
           where == WhereOf[type]
           T == TablesOf({base}, where, filters)
           K == Conditions(where, filters)
           s == Select(base, Everything(type), where, filters)
<1>1. /\ base \notin Linked /\ Everything(type) = {base}
      /\ \A k \in DOMAIN where : where[k].table = base /\ where[k].joins = {}
  BY Bases3, TablesOfColumns DEF Linked, Everything
<1>2. s.ok = IsStatement(T, where, filters) /\ s.rows = IF IsStatement(T, where, filters) THEN Rows(base, T, where, filters) ELSE {}
  BY <1>1, SelectIs
<1>3. Answers(type, filters) = Meant(base, where, filters)
  BY DEF Answers
<1>4. Comparable(type, filters) <=> K # {}
  BY DEF Comparable
<1> HIDE DEF s, base, where
<1>5. T = {base}
  BY <1>1 DEF TablesOf, Conditions
<1>6. Joinable({base})
  BY JoinableIs, <1>1 DEF Linked
<1>7. IsStatement({base}, where, filters) <=> K # {}
  BY <1>1, <1>6 DEF IsStatement, Conditions
<1>8. Rows(base, {base}, where, filters) = Meant(base, where, filters)
  BY <1>1, SingleRows
<1>9. Rows(base, {base}, where, filters) \subseteq DOMAIN db[base]
  BY SingleThere
<1>10. s.ok <=> Comparable(type, filters)
  BY <1>2, <1>4, <1>5, <1>7
<1>11. s.ok => s.rows = Answers(type, filters) /\ s.rows \subseteq DOMAIN db[base]
  BY <1>2, <1>3, <1>5, <1>8, <1>9
<1> QED
  BY <1>10, <1>11 DEF s, base, where

LEMMA StatementOf ==
  ASSUME Consistent, NEW type \in Kinds, NEW filters
  PROVE  LET s == Select(BaseOf(type), Everything(type), WhereOf[type], filters) IN
         /\ s.ok <=> Comparable(type, filters)
         /\ s.ok => s.rows = Answers(type, filters) /\ s.rows \subseteq DOMAIN db[BaseOf(type)]
<1>1. CASE type \in {"action", "agent", "investigator"}
  BY <1>1, LinkedStatement
<1>2. CASE type = "command"
  BY <1>2, CommandStatement, Bases3 DEF Everything
<1>3. CASE type \in {"manifest", "loader"}
  BY <1>3, SingleStatement
<1> QED
  BY <1>1, <1>2, <1>3 DEF Kinds

(* The property speaks of the parameters that the search knows.                     *)
LEMMA MeaningIs ==
  ASSUME NEW type \in Kinds, NEW filters
  PROVE  LET all == Meaning(type, [k \in DOMAIN filters \intersect DOMAIN WhereOf[type] |-> filters[k]]) IN
         Answers(type, filters) = IF type = "command" THEN all \ Unsigned ELSE all
<1> DEFINE base == BaseOf(type)
           where == WhereOf[type]
           known == [k \in DOMAIN filters \intersect DOMAIN where |-> filters[k]]
<1>1. DOMAIN known = Conditions(where, filters) /\ \A k \in Conditions(where, filters) : known[k] = filters[k]
  BY DEF Conditions
<1>2. ToSet(Chain) = Linked
  <2>1. DOMAIN Chain = 1..4 /\ Chain[1] = "agents" /\ Chain[2] = "commands" /\ Chain[3] = "actions" /\ Chain[4] = "investigators"
    BY DEF Chain
  <2>2. ToSet(Chain) = {Chain[1], Chain[2], Chain[3], Chain[4]}
    BY <2>1 DEF ToSet
  <2> QED
    BY <2>1, <2>2 DEF Linked
<1> HIDE DEF known
<1>3. Meaning(type, known) = {r[base] : r \in {j \in Related(base) : \A k \in DOMAIN known :
        where[k].table \in DOMAIN j /\ Accepts(j, where[k], known[k])}}
  BY <1>2 DEF Meaning, Related, BaseOf
<1>4. Meaning(type, known) = Meant(base, where, filters)
  BY <1>1, <1>3 DEF Meant, AcceptsAll
<1>5. type = "command" => Meant(base, where, filters) = Meant("commands", CommandWhere, filters)
  BY Bases3
<1> QED
  BY <1>4, <1>5 DEF Answers, known

--------------------------------------------------------------------------------
(* What the endpoint answers.                                                     *)
Paged == {"action", "command", "agent", "investigator"}
OrderOf(type) ==
  CASE type = "action" -> Newest("actions", "validfrom") [] type = "command" -> Newest("commands", "starttime")
    [] type = "agent" -> Newest("agents", "heartbeattime") [] type = "investigator" -> Ascending("investigators", "id")
    [] type = "manifest" -> Newest("manifests", "timestamp") [] OTHER -> Ascending("loaders", "loadername")


LEMMA ParsedIs ==
  ASSUME NEW q
  PROVE  LET parsed == ParseSearchParameters(q)
             p == parsed.p
         IN /\ p = [type |-> Asks(q, "type", "action"), filters |-> [k \in DOMAIN q \intersect FilterKeys |-> q[k]],
                    limit |-> Asks(q, "limit", DefaultLimit), offset |-> Asks(q, "offset", 0),
                    target |-> Asks(q, "target", NewParameters.target), zoned |-> {}]
            /\ parsed.ok <=> /\ \A k \in DOMAIN q \intersect {"after", "before", "foundanything"} : q[k] # Malformed
                             /\ p.limit # NoNumber /\ p.offset # NoNumber
<1> DEFINE parsed == ParseSearchParameters(q)
           r == [type |-> Asks(q, "type", "action"), filters |-> [k \in DOMAIN q \intersect FilterKeys |-> q[k]],
                 limit |-> Asks(q, "limit", DefaultLimit), offset |-> Asks(q, "offset", 0),
                 target |-> Asks(q, "target", NewParameters.target), zoned |-> {}]
           good == /\ \A k \in DOMAIN q \intersect {"after", "before", "foundanything"} : q[k] # Malformed
                   /\ Asks(q, "limit", DefaultLimit) # NoNumber /\ Asks(q, "offset", 0) # NoNumber
<1>1. NewParameters.type = "action" /\ NewParameters.limit = DefaultLimit /\ NewParameters.offset = 0
  BY DEF NewParameters
<1>2. parsed = [ok |-> good, p |-> r]
  <2> USE DEF Asks
  <2>1. /\ Asks(q, "type", NewParameters.type) = Asks(q, "type", "action")
        /\ Asks(q, "limit", NewParameters.limit) = Asks(q, "limit", DefaultLimit)
        /\ Asks(q, "offset", NewParameters.offset) = Asks(q, "offset", 0)
    BY <1>1
  <2> QED
    BY <2>1 DEF ParseSearchParameters
<1>3. r.limit = Asks(q, "limit", DefaultLimit) /\ r.offset = Asks(q, "offset", 0)
  OBVIOUS
<1> HIDE DEF r, good
<1>4. parsed.p = r /\ parsed.ok = good
  BY <1>2
<1> HIDE DEF parsed
<1>5. parsed.ok <=> /\ \A k \in DOMAIN q \intersect {"after", "before", "foundanything"} : q[k] # Malformed
                    /\ r.limit # NoNumber /\ r.offset # NoNumber
  BY <1>3, <1>4 DEF good
<1> QED
  BY <1>4, <1>5 DEF parsed, r

LEMMA OrdersAre ==
  /\ OrderOf("action") = Newest("actions", "validfrom") /\ OrderOf("command") = Newest("commands", "starttime")
  /\ OrderOf("agent") = Newest("agents", "heartbeattime") /\ OrderOf("investigator") = Ascending("investigators", "id")
  /\ OrderOf("manifest") = Newest("manifests", "timestamp") /\ OrderOf("loader") = Ascending("loaders", "loadername")
BY DEF OrderOf

LEMMA FoundIs ==
  ASSUME NEW rows PROVE Found(rows).ok /\ Found(rows).rows = rows /\ ~Failed.ok
BY DEF Found, Failed

LEMMA ListSearchIs ==
  ASSUME NEW p, BadIds(p) = {}, p.filters = [k \in Given(p) |-> p.filters[k]], p.type \in {"manifest", "loader"}
  PROVE  LET s == Select(BaseOf(p.type), Everything(p.type), WhereOf[p.type], p.filters)
             t == Sorted(s.rows, OrderOf(p.type))
         IN (Dispatch(p).ok <=> s.ok) /\ (s.ok => Dispatch(p).rows = t)
<1>1. CASE p.type = "manifest"
  <2> DEFINE filters == [k \in Given(p) |-> IF k = "manifestid" THEN MakeIDsFromParams(p, k, DOMAIN db.manifests) ELSE p.filters[k]]
             s == Select("manifests", {"manifests"}, ManifestWhere, filters)
  <2>1. filters = p.filters
    <3>1. MakeIDsFromParams(p, "manifestid", DOMAIN db.manifests) = p.filters["manifestid"]
      BY DEF MakeIDsFromParams
    <3> QED
      BY <3>1
  <2>2. Dispatch(p) = SearchManifests(p)
    BY <1>1 DEF Dispatch
  <2>3. SearchManifests(p) = IF ~s.ok THEN Failed ELSE Found(Sorted(s.rows, Newest("manifests", "timestamp")))
    BY DEF SearchManifests
  <2>4. s = Select(BaseOf(p.type), Everything(p.type), WhereOf[p.type], p.filters)
    BY <1>1, <2>1, Bases3 DEF Everything
  <2> HIDE DEF s
  <2> QED
    BY <1>1, <2>2, <2>3, <2>4, FoundIs, OrdersAre
<1>2. CASE p.type = "loader"
  <2> DEFINE filters == [k \in Given(p) |-> IF k = "loaderid" THEN MakeIDsFromParams(p, k, DOMAIN db.loaders) ELSE p.filters[k]]
             s == Select("loaders", {"loaders"}, LoaderWhere, filters)
  <2>1. filters = p.filters
    <3>1. MakeIDsFromParams(p, "loaderid", DOMAIN db.loaders) = p.filters["loaderid"]
      BY DEF MakeIDsFromParams
    <3> QED
      BY <3>1
  <2>2. Dispatch(p) = SearchLoaders(p)
    BY <1>2 DEF Dispatch
  <2>3. SearchLoaders(p) = IF ~s.ok THEN Failed ELSE Found(Sorted(s.rows, Ascending("loaders", "loadername")))
    BY DEF SearchLoaders
  <2>4. s = Select(BaseOf(p.type), Everything(p.type), WhereOf[p.type], p.filters)
    BY <1>2, <2>1, Bases3 DEF Everything
  <2> HIDE DEF s
  <2> QED
    BY <1>2, <2>2, <2>3, <2>4, FoundIs, OrdersAre
<1> QED
  BY <1>1, <1>2

LEMMA AgentSearch ==
  ASSUME NEW p, p.type = "agent", Untargeted(p.target) PROVE Dispatch(p) = SearchAgents(p)
BY DEF Dispatch, Untargeted

LEMMA PagedSearchIs ==
  ASSUME NEW p, BadIds(p) = {}, p.type \in Paged, p.type = "agent" => Untargeted(p.target)
  PROVE  LET s == Select(BaseOf(p.type), Everything(p.type), WhereOf[p.type], p.filters)
             t == Sorted(s.rows, OrderOf(p.type))
         IN (Dispatch(p).ok <=> s.ok) /\ (s.ok => Dispatch(p).rows = Slice(t, p))
<1> DEFINE s == Select(BaseOf(p.type), Everything(p.type), WhereOf[p.type], p.filters)
<1>1. CASE p.type = "action"
  <2>1. Dispatch(p) = SearchActions(p)
    BY <1>1 DEF Dispatch
  <2>2. s = Select("actions", {"actions"}, ActionWhere, p.filters)
    BY <1>1, Bases3 DEF Everything
  <2> HIDE DEF s
  <2>3. SearchActions(p) = IF ~s.ok THEN Failed ELSE Found(Slice(Sorted(s.rows, OrderOf(p.type)), p))
    BY <1>1, <2>2, OrdersAre DEF SearchActions
  <2> QED
    BY <2>1, <2>3, FoundIs DEF s
<1>2. CASE p.type = "agent"
  <2>1. Dispatch(p) = SearchAgents(p)
    BY <1>2, AgentSearch
  <2>2. s = Select("agents", {"agents"}, AgentWhere, p.filters)
    BY <1>2, Bases3 DEF Everything
  <2> HIDE DEF s
  <2>3. SearchAgents(p) = IF ~s.ok THEN Failed ELSE Found(Slice(Sorted(s.rows, OrderOf(p.type)), p))
    BY <1>2, <2>2, OrdersAre DEF SearchAgents
  <2> QED
    BY <2>1, <2>3, FoundIs DEF s
<1>3. CASE p.type = "investigator"
  <2>1. Dispatch(p) = SearchInvestigators(p)
    BY <1>3 DEF Dispatch
  <2>2. s = Select("investigators", {"investigators"}, InvestigatorWhere, p.filters)
    BY <1>3, Bases3 DEF Everything
  <2> HIDE DEF s
  <2>3. SearchInvestigators(p) = IF ~s.ok THEN Failed ELSE Found(Slice(Sorted(s.rows, OrderOf(p.type)), p))
    BY <1>3, <2>2, OrdersAre DEF SearchInvestigators
  <2> QED
    BY <2>1, <2>3, FoundIs DEF s
<1>4. CASE p.type = "command"
  <2>1. Dispatch(p) = SearchCommands(p)
    BY <1>4 DEF Dispatch
  <2>2. {"commands", "actions", "investigators", "agents"} = Linked
    BY DEF Linked
  <2>3. s = Select("commands", {"commands", "actions", "investigators", "agents"}, CommandWhere, p.filters)
    BY <1>4, <2>2, Bases3 DEF Everything
  <2> HIDE DEF s
  <2>4. SearchCommands(p) = IF ~s.ok THEN Failed ELSE Found(Slice(Sorted(s.rows, OrderOf(p.type)), p))
    BY <1>4, <2>3, OrdersAre DEF SearchCommands
  <2> QED
    BY <2>1, <2>4, FoundIs DEF s
<1> QED
  BY <1>1, <1>2, <1>3, <1>4 DEF Paged

(* Only the searches of a target and those of the six types succeed.                *)
LEMMA OtherDispatch ==
  ASSUME NEW p, p.type \notin Kinds PROVE ~Dispatch(p).ok
<1>1. Dispatch(p) = Failed
  BY DEF Dispatch, Kinds
<1> QED
  BY <1>1, FoundIs

LEMMA TargetDispatch ==
  ASSUME NEW p, p.type = "agent", ~Untargeted(p.target), p.target \in DOMAIN Matches PROVE Dispatch(p).ok
<1>1. Dispatch(p) = ActiveAgentsByTarget(p.target)
  BY DEF Dispatch, Untargeted
<1>2. ActiveAgentsByTarget(p.target).ok
  BY DEF ActiveAgentsByTarget, Found
<1> QED
  BY <1>1, <1>2

--------------------------------------------------------------------------------
(* Searches of the tables as they are at the start.                               *)
LEMMA AtStart ==
  ASSUME db = Tables
  PROVE  /\ Consistent
         /\ \A type \in Kinds : IsFiniteSet(DOMAIN db[BaseOf(type)])
         /\ \A type \in Kinds : \A S \in SUBSET DOMAIN db[BaseOf(type)] : Distinct(S, OrderOf(type))
<1>1. Consistent
  BY TablesAreConsistent DEF Consistent
<1>2. DOMAIN SortedBy = {"agents", "commands", "actions", "investigators", "manifests", "loaders"}
  BY DEF SortedBy
<1>3. ASSUME NEW type \in Kinds
      PROVE  /\ BaseOf(type) \in DOMAIN SortedBy
             /\ OrderOf(type).table = BaseOf(type) /\ OrderOf(type).column = SortedBy[BaseOf(type)]
             /\ OrderOf(type).sign \in {-1, 1}
  <2>1. CASE type = "action"
    BY <2>1, <1>2, OrdersAre, Bases3 DEF Newest, SortedBy
  <2>2. CASE type = "agent"
    BY <2>2, <1>2, OrdersAre, Bases3 DEF Newest, SortedBy
  <2>3. CASE type = "command"
    BY <2>3, <1>2, OrdersAre, Bases3 DEF Newest, SortedBy
  <2>4. CASE type = "investigator"
    BY <2>4, <1>2, OrdersAre, Bases3 DEF Ascending, SortedBy
  <2>5. CASE type = "manifest"
    BY <2>5, <1>2, OrdersAre, Bases3 DEF Newest, SortedBy
  <2>6. CASE type = "loader"
    BY <2>6, <1>2, OrdersAre, Bases3 DEF Ascending, SortedBy
  <2> QED
    BY <2>1, <2>2, <2>3, <2>4, <2>5, <2>6 DEF Kinds
<1>4. ASSUME NEW type \in Kinds
      PROVE  /\ IsFiniteSet(DOMAIN db[BaseOf(type)])
             /\ \A S \in SUBSET DOMAIN db[BaseOf(type)] : Distinct(S, OrderOf(type))
  <2> DEFINE base == BaseOf(type)
             o == OrderOf(type)
  <2>1. base \in DOMAIN SortedBy /\ o.table = base /\ o.column = SortedBy[base] /\ o.sign \in {-1, 1}
    BY <1>3
  <2>2. /\ IsFiniteSet(DOMAIN db[base]) /\ \A i \in DOMAIN db[base] : SortValue(base, i) \in Int
        /\ \A i, j \in DOMAIN db[base] : i # j => SortValue(base, i) # SortValue(base, j)
    BY <2>1, TablesAreConsistent
  <2>3. \A i : Key(i, o) = o.sign * SortValue(base, i)
    BY <2>1 DEF Key, SortValue
  <2> HIDE DEF base, o
  <2>4. \A x, y \in Int : o.sign * x \in Int /\ (x # y => o.sign * x # o.sign * y)
    BY <2>1
  <2>5. /\ \A i \in DOMAIN db[base] : Key(i, o) \in Int
        /\ \A i, j \in DOMAIN db[base] : i # j => Key(i, o) # Key(j, o)
    <3>1. \A i \in DOMAIN db[base] : Key(i, o) \in Int
      BY <2>2, <2>3, <2>4
    <3>2. ASSUME NEW i \in DOMAIN db[base], NEW j \in DOMAIN db[base], i # j PROVE Key(i, o) # Key(j, o)
      <4>1. SortValue(base, i) \in Int /\ SortValue(base, j) \in Int /\ SortValue(base, i) # SortValue(base, j)
        BY <2>2, <3>2
      <4> QED
        BY <2>3, <2>4, <4>1
    <3> QED
      BY <3>1, <3>2
  <2>6. \A S \in SUBSET DOMAIN db[base] : IsFiniteSet(S)
    BY <2>2, FS_Subset
  <2> QED
    BY <2>2, <2>5, <2>6 DEF base, o, Distinct
<1> QED
  BY <1>1, <1>4

(* The rows of an answer.                                                         *)
LEMMA AllItems ==
  ASSUME NEW S, NEW rows \in Seq(S), NEW limit \in Nat
  PROVE  ToSet(Items(rows, limit)) \subseteq ToSet(rows) /\ (Len(rows) <= limit => Items(rows, limit) = rows)
<1> DEFINE n == Len(rows)
           m == Min({n, limit + 2})
<1>1. n \in Nat /\ DOMAIN rows = 1..n
  BY LenProperties
<1>2. m = IF n <= limit + 2 THEN n ELSE limit + 2
  <2>1. \A x, y \in Int : Min({x, y}) = IF x <= y THEN x ELSE y
    BY DEF Min
  <2> QED
    BY <1>1, <2>1
<1>3. Items(rows, limit) = SubSeq(rows, 1, m)
  BY DEF Items
<1> HIDE DEF m, n
<1>4. m \in Nat /\ m <= n
  BY <1>1, <1>2
<1>5. \A k \in 1..m : rows[k] \in S
  BY <1>1, <1>4, ElementOfSeq DEF n
<1>6. SubSeq(rows, 1, m) \in Seq(S) /\ Len(SubSeq(rows, 1, m)) = (IF 1 <= m THEN m - 1 + 1 ELSE 0)
      /\ \A k \in 1..(m - 1 + 1) : SubSeq(rows, 1, m)[k] = rows[1 + k - 1]
  BY <1>4, <1>5, SubSeqProperties
<1>7. Len(SubSeq(rows, 1, m)) = m /\ \A k \in 1..m : SubSeq(rows, 1, m)[k] = rows[k]
  <2>1. (IF 1 <= m THEN m - 1 + 1 ELSE 0) = m /\ m - 1 + 1 = m /\ \A k \in Int : 1 + k - 1 = k
    BY <1>4
  <2> QED
    BY <1>6, <2>1
<1>8. DOMAIN SubSeq(rows, 1, m) = 1..m
  BY <1>6, <1>7, LenProperties
<1>9. ToSet(SubSeq(rows, 1, m)) \subseteq ToSet(rows)
  BY <1>1, <1>4, <1>7, <1>8 DEF ToSet
<1>10. n <= limit => SubSeq(rows, 1, m) = rows
  <2>1. n <= limit => m = n
    BY <1>1, <1>2
  <2>2. SubSeq(rows, 1, Len(rows)) = rows
    BY SubSeqFull
  <2> QED
    BY <2>1, <2>2 DEF n
<1> QED
  BY <1>3, <1>9, <1>10 DEF n

(* What a successful search of one of the types returns.                             *)
LEMMA RowsAre ==
  ASSUME db = Tables, NEW p, p.type \in Kinds, p.filters = [k \in Given(p) |-> p.filters[k]], p.limit \in Nat, p.offset \in Nat,
         BadIds(p) = {}, p.type = "agent" => Untargeted(p.target)
  PROVE  LET s == Dispatch(p)
             means == Answers(p.type, p.filters)
         IN /\ s.ok <=> Comparable(p.type, p.filters)
            /\ s.ok => /\ s.rows \in Seq(means)
                       /\ p.offset = 0 /\ Cardinality(DOMAIN db[BaseOf(p.type)]) <= p.limit =>
                            means \subseteq ToSet(s.rows) /\ Len(s.rows) <= p.limit
<1> DEFINE type == p.type
           filters == p.filters
           x == Select(BaseOf(type), Everything(type), WhereOf[type], filters)
           o == OrderOf(type)
           means == Answers(type, filters)
           s == Dispatch(p)
           there == DOMAIN db[BaseOf(type)]
<1>1. /\ x.ok <=> Comparable(type, filters)
      /\ x.ok => x.rows = means /\ x.rows \subseteq there
  BY AtStart, StatementOf
<1>2. type \in Paged \/ type \in {"manifest", "loader"}
  BY DEF Paged, Kinds
<1>3. /\ s.ok <=> x.ok
      /\ x.ok /\ type \in Paged => s.rows = Slice(Sorted(x.rows, o), p)
      /\ x.ok /\ type \in {"manifest", "loader"} => s.rows = Sorted(x.rows, o)
  <2>1. CASE type \in Paged
    <3>1. type \notin {"manifest", "loader"}
      BY <2>1 DEF Paged
    <3> QED
      BY <2>1, <3>1, PagedSearchIs
  <2>2. CASE type \in {"manifest", "loader"}
    <3>1. type \notin Paged
      BY <2>2 DEF Paged
    <3> QED
      BY <2>2, <3>1, ListSearchIs
  <2> QED
    BY <1>2, <2>1, <2>2
<1>4. IsFiniteSet(there) /\ \A S \in SUBSET there : Distinct(S, o)
  BY AtStart
<1> HIDE DEF s, x, o, means, type, there
<1> SUFFICES ASSUME s.ok
             PROVE  /\ s.rows \in Seq(means)
                    /\ p.offset = 0 /\ Cardinality(there) <= p.limit => means \subseteq ToSet(s.rows) /\ Len(s.rows) <= p.limit
  BY <1>1, <1>3 DEF s, x, o, means, type, there
<1>5. means \subseteq there /\ Distinct(means, o) /\ x.rows = means
  BY <1>1, <1>3, <1>4
<1>6. Cardinality(means) \in Nat /\ Cardinality(there) \in Nat /\ Cardinality(means) <= Cardinality(there)
  BY <1>4, <1>5, FS_CardinalityType, FS_Subset
<1>7. \A i \in means : Cardinality(Before(i, means, o)) \in 0..(Cardinality(means) - 1)
  BY <1>5, PlaceIs
<1>8. CASE type \in Paged
  <2>1. s.rows = Slice(Sorted(means, o), p)
    BY <1>3, <1>5, <1>8
  <2>2. /\ s.rows \in Seq(means) /\ Len(s.rows) <= p.limit
        /\ ToSet(s.rows) = {i \in means : p.offset <= Cardinality(Before(i, means, o)) /\ Cardinality(Before(i, means, o)) < p.offset + p.limit}
    BY <1>5, <2>1, PageOf
  <2>3. ASSUME p.offset = 0, Cardinality(there) <= p.limit, NEW i \in means PROVE i \in ToSet(s.rows)
    <3> DEFINE k == Cardinality(Before(i, means, o))
               n == Cardinality(means)
               m == Cardinality(there)
    <3>1. k \in 0..(n - 1) /\ n \in Nat /\ m \in Nat /\ n <= m
      BY <1>6, <1>7
    <3>2. m <= p.limit
      BY <2>3
    <3> HIDE DEF k, n, m
    <3>3. 0 <= k /\ k < 0 + p.limit
      BY <3>1, <3>2
    <3> QED
      BY <2>2, <2>3, <3>3 DEF k
  <2> QED
    BY <2>2, <2>3
<1>9. CASE type \in {"manifest", "loader"}
  <2>1. s.rows = Sorted(means, o)
    BY <1>3, <1>5, <1>9
  <2> DEFINE n == Cardinality(means)
  <2>2. /\ s.rows \in Seq(means) /\ Len(s.rows) = n /\ s.rows \in [1..n -> means]
        /\ \A i \in means : s.rows[Cardinality(Before(i, means, o)) + 1] = i
    BY <1>5, <2>1, SortIs
  <2>3. \A i \in means : Cardinality(Before(i, means, o)) + 1 \in 1..n
    <3> SUFFICES ASSUME NEW i \in means PROVE Cardinality(Before(i, means, o)) + 1 \in 1..n
      OBVIOUS
    <3> DEFINE k == Cardinality(Before(i, means, o))
    <3>1. k \in 0..(n - 1) /\ n \in Nat
      BY <1>6, <1>7
    <3> HIDE DEF k, n
    <3>2. k + 1 \in 1..n
      BY <3>1
    <3> QED
      BY <3>2 DEF k
  <2>4. means \subseteq ToSet(s.rows)
    BY <2>2, <2>3 DEF ToSet
  <2>5. Cardinality(there) <= p.limit => Len(s.rows) <= p.limit
    BY <1>6, <2>2
  <2> QED
    BY <2>2, <2>4, <2>5
<1> QED
  BY <1>2, <1>8, <1>9 DEF type

--------------------------------------------------------------------------------
(* An answer without an error is what the filters mean, as far as it goes.          *)
Exactly(x, p) ==
  x.code # 500 /\ Untargeted(p.target) /\ BadIds(p) = {} =>
    /\ p.type \in Kinds
    /\ ToSet(x.items) \subseteq Answers(p.type, p.filters)
    /\ p.offset = 0 => Answers(p.type, p.filters) \subseteq ToSet(x.items)

LEMMA AnswerIs ==
  ASSUME db = Tables, NEW q,
         Asks(q, "limit", DefaultLimit) \in Nat \union {NoNumber}, Asks(q, "offset", 0) \in Nat \union {NoNumber}
  PROVE  LET parsed == ParseSearchParameters(q)
             p == parsed.p
             v == Search(q)
         IN /\ v.code \in {200, 404, 500}
            /\ (parsed.ok /\ p.offset = 0 => Covers(p.limit)) => Exactly(v, p)
            /\ v.code = 500 => \/ ~parsed.ok \/ BadIds(p) # {} \/ p.type \notin Kinds
                               \/ ~Untargeted(p.target) /\ p.target \notin DOMAIN Matches
                               \/ ~Comparable(p.type, p.filters)
            /\ v.code # 500 => parsed.ok
            /\ v.next # << >> => parsed.ok /\ p.offset > 0 /\ v.next = String([p EXCEPT !.offset = p.offset + p.limit])
<1> DEFINE parsed == ParseSearchParameters(q)
           p == parsed.p
           v == Search(q)
           s == Dispatch(p)
           means == Answers(p.type, p.filters)
<1>1. /\ p.filters = [k \in DOMAIN q \intersect FilterKeys |-> q[k]]
      /\ p.limit = Asks(q, "limit", DefaultLimit) /\ p.offset = Asks(q, "offset", 0)
      /\ parsed.ok => p.limit # NoNumber /\ p.offset # NoNumber
  <2> DEFINE f == [k \in DOMAIN q \intersect FilterKeys |-> q[k]]
  <2>1. /\ p = [type |-> Asks(q, "type", "action"), filters |-> f, limit |-> Asks(q, "limit", DefaultLimit),
                offset |-> Asks(q, "offset", 0), target |-> Asks(q, "target", NewParameters.target), zoned |-> {}]
        /\ parsed.ok => p.limit # NoNumber /\ p.offset # NoNumber
    BY ParsedIs
  <2> HIDE DEF f, p, parsed
  <2>2. p.filters = f /\ p.limit = Asks(q, "limit", DefaultLimit) /\ p.offset = Asks(q, "offset", 0)
    BY <2>1
  <2> QED
    BY <2>1, <2>2 DEF f
<1>2. /\ v.code = IF ~parsed.ok \/ ~s.ok THEN 500 ELSE IF s.rows = << >> THEN 404 ELSE 200
      /\ v.items = IF v.code = 200 THEN Items(s.rows, p.limit) ELSE << >>
      /\ v.next = IF v.code = 200 THEN NextPage(p) ELSE << >>
  BY SearchIs
<1> HIDE DEF v, s, parsed, means
<1>3. p.filters = [k \in Given(p) |-> p.filters[k]]
  <2> DEFINE f == [k \in DOMAIN q \intersect FilterKeys |-> q[k]]
  <2>1. f = [k \in DOMAIN f |-> f[k]]
    OBVIOUS
  <2>2. p.filters = f
    BY <1>1
  <2> HIDE DEF f, p
  <2> QED
    BY <2>1, <2>2 DEF Given
<1>4. parsed.ok => p.limit \in Nat /\ p.offset \in Nat
  BY <1>1
<1>5. p.type \notin Kinds => ~s.ok
  BY OtherDispatch DEF s
<1>6. p.type = "agent" /\ ~Untargeted(p.target) /\ p.target \in DOMAIN Matches => s.ok
  BY TargetDispatch DEF s
<1>7. ASSUME p.type \in Kinds, parsed.ok, BadIds(p) = {}, p.type = "agent" => Untargeted(p.target)
      PROVE  /\ s.ok <=> Comparable(p.type, p.filters)
             /\ s.ok => /\ s.rows \in Seq(means)
                        /\ p.offset = 0 /\ Cardinality(DOMAIN db[BaseOf(p.type)]) <= p.limit =>
                             means \subseteq ToSet(s.rows) /\ Len(s.rows) <= p.limit
  BY <1>3, <1>4, <1>7, RowsAre DEF s, means
<1>8. v.code \in {200, 404, 500} /\ (v.code = 500 <=> ~parsed.ok \/ ~s.ok)
  BY <1>2
<1>9. ASSUME parsed.ok /\ p.offset = 0 => Covers(p.limit) PROVE Exactly(v, p)
  <2> SUFFICES ASSUME v.code # 500, Untargeted(p.target), BadIds(p) = {}
               PROVE  /\ p.type \in Kinds /\ ToSet(v.items) \subseteq means
                      /\ p.offset = 0 => means \subseteq ToSet(v.items)
    BY DEF Exactly, means
  <2>1. parsed.ok /\ s.ok
    BY <1>8
  <2>2. p.type \in Kinds
    BY <1>5, <2>1
  <2>3. /\ s.rows \in Seq(means)
        /\ p.offset = 0 /\ Cardinality(DOMAIN db[BaseOf(p.type)]) <= p.limit =>
             means \subseteq ToSet(s.rows) /\ Len(s.rows) <= p.limit
    BY <1>7, <2>1, <2>2
  <2>4. p.offset = 0 => Cardinality(DOMAIN db[BaseOf(p.type)]) <= p.limit
    <3>1. BaseOf(p.type) \in DOMAIN SortedBy
      BY <2>2, Bases3 DEF SortedBy, Kinds
    <3> QED
      BY <1>9, <2>1, <3>1 DEF Covers
  <2>5. p.limit \in Nat
    BY <1>4, <2>1
  <2>6. ToSet(Items(s.rows, p.limit)) \subseteq ToSet(s.rows) /\ (Len(s.rows) <= p.limit => Items(s.rows, p.limit) = s.rows)
    BY <2>3, <2>5, AllItems
  <2>7. ToSet(s.rows) \subseteq means
    <3>1. \A k \in DOMAIN s.rows : s.rows[k] \in means
      BY <2>3, ElementOfSeq, LenProperties
    <3> QED
      BY <3>1 DEF ToSet
  <2>8. ToSet(<< >>) = {}
    BY DEF ToSet
  <2>9. CASE v.code = 200
    BY <1>2, <2>2, <2>3, <2>4, <2>6, <2>7, <2>9
  <2>10. CASE v.code = 404
    <3>1. s.rows = << >> /\ v.items = << >>
      BY <1>2, <2>1, <2>10
    <3> QED
      BY <2>2, <2>3, <2>4, <2>8, <3>1
  <2> QED
    BY <1>8, <2>9, <2>10
<1>10. v.code = 500 => \/ ~parsed.ok \/ BadIds(p) # {} \/ p.type \notin Kinds
                       \/ ~Untargeted(p.target) /\ p.target \notin DOMAIN Matches
                       \/ ~Comparable(p.type, p.filters)
  BY <1>6, <1>7, <1>8
<1>11. v.code # 500 => parsed.ok
  BY <1>8
<1>12. v.next # << >> => parsed.ok /\ p.offset > 0 /\ v.next = String([p EXCEPT !.offset = p.offset + p.limit])
  <2>1. NextPage(p) = IF p.offset > 0 THEN String([p EXCEPT !.offset = p.offset + p.limit]) ELSE << >>
    BY DEF NextPage
  <2> HIDE DEF p
  <2> QED
    BY <1>2, <1>8, <2>1
<1> QED
  BY <1>8, <1>9, <1>10, <1>11, <1>12 DEF v, parsed

--------------------------------------------------------------------------------
(* A query string is read back as what it was made of, but for foundanything, the      *)
(* target and dates with a time zone.                                            *)
LEMMA StringIs ==
  ASSUME NEW p, Given(p) \subseteq FilterKeys, p.zoned \subseteq {"before", "after"}
  PROVE  LET q == String(p)
             given == Given(p) \ {"foundanything"}
         IN /\ DOMAIN q = given \union {"type", "limit"} \union (IF p.offset # 0 THEN {"offset"} ELSE {})
            /\ q["type"] = p.type /\ q["limit"] = p.limit /\ (p.offset # 0 => q["offset"] = p.offset)
            /\ \A k \in given : q[k] = IF k \in p.zoned THEN Malformed ELSE p.filters[k]
<1> DEFINE given == Given(p) \ {"foundanything"}
           keys == given \union {"type", "limit"} \union (IF p.offset # 0 THEN {"offset"} ELSE {})
           e(k) == CASE k = "type" -> p.type [] k = "limit" -> p.limit [] k = "offset" -> p.offset
                     [] k \in p.zoned -> Malformed [] OTHER -> p.filters[k]
<1>1. String(p) = [k \in keys |-> e(k)]
  BY DEF String
<1>2. \A k \in given : k # "type" /\ k # "limit" /\ k # "offset"
  BY DEF FilterKeys
<1>3. ASSUME NEW k, k # "type", k # "limit", k # "offset" PROVE e(k) = IF k \in p.zoned THEN Malformed ELSE p.filters[k]
  <2>1. CASE k \in p.zoned
    BY <1>3, <2>1
  <2>2. CASE k \notin p.zoned
    BY <1>3, <2>2
  <2> QED
    BY <2>1, <2>2
<1>4. e("type") = p.type
  <2>1. "type" # "limit" /\ "type" # "offset" /\ "type" \notin p.zoned
    OBVIOUS
  <2> QED
    BY <2>1
<1>5. e("limit") = p.limit
  <2>1. "limit" # "type" /\ "limit" # "offset" /\ "limit" \notin p.zoned
    OBVIOUS
  <2> QED
    BY <2>1
<1>6. e("offset") = p.offset
  <2>1. "offset" # "type" /\ "offset" # "limit" /\ "offset" \notin p.zoned
    OBVIOUS
  <2> QED
    BY <2>1
<1>7. "type" \in keys /\ "limit" \in keys /\ (p.offset # 0 => "offset" \in keys) /\ given \subseteq keys
  OBVIOUS
<1> HIDE DEF e, given
<1>8. DOMAIN String(p) = keys /\ \A k \in keys : String(p)[k] = e(k)
  BY <1>1
<1> HIDE DEF keys
<1>9. /\ String(p)["type"] = p.type /\ String(p)["limit"] = p.limit /\ (p.offset # 0 => String(p)["offset"] = p.offset)
      /\ \A k \in given : String(p)[k] = IF k \in p.zoned THEN Malformed ELSE p.filters[k]
  BY <1>2, <1>3, <1>4, <1>5, <1>6, <1>7, <1>8
<1> QED
  BY <1>8, <1>9 DEF keys, given

LEMMA ReadBack ==
  ASSUME NEW p, Given(p) \subseteq FilterKeys, p.zoned \subseteq {"before", "after"}
  PROVE  LET parsed == ParseSearchParameters(String(p))
             r == parsed.p
             given == Given(p) \ {"foundanything"}
         IN /\ r = [type |-> p.type, filters |-> [k \in given |-> IF k \in p.zoned THEN Malformed ELSE p.filters[k]],
                    limit |-> p.limit, offset |-> p.offset, target |-> NewParameters.target, zoned |-> {}]
            /\ parsed.ok <=> /\ \A k \in given \intersect {"after", "before"} : k \notin p.zoned /\ p.filters[k] # Malformed
                             /\ p.limit # NoNumber /\ p.offset # NoNumber
<1> DEFINE q == String(p)
           parsed == ParseSearchParameters(q)
           r == parsed.p
           given == Given(p) \ {"foundanything"}
<1>1. /\ DOMAIN q = given \union {"type", "limit"} \union (IF p.offset # 0 THEN {"offset"} ELSE {})
      /\ q["type"] = p.type /\ q["limit"] = p.limit /\ (p.offset # 0 => q["offset"] = p.offset)
      /\ \A k \in given : q[k] = IF k \in p.zoned THEN Malformed ELSE p.filters[k]
  BY StringIs
<1>2. /\ r = [type |-> Asks(q, "type", "action"), filters |-> [k \in DOMAIN q \intersect FilterKeys |-> q[k]],
              limit |-> Asks(q, "limit", DefaultLimit), offset |-> Asks(q, "offset", 0),
              target |-> Asks(q, "target", NewParameters.target), zoned |-> {}]
      /\ parsed.ok <=> /\ \A k \in DOMAIN q \intersect {"after", "before", "foundanything"} : q[k] # Malformed
                       /\ r.limit # NoNumber /\ r.offset # NoNumber
  BY ParsedIs
<1> HIDE DEF q, parsed
<1>3. /\ DOMAIN q \intersect FilterKeys = given /\ "target" \notin DOMAIN q
      /\ DOMAIN q \intersect {"after", "before", "foundanything"} = given \intersect {"after", "before"}
  <2>1. /\ {"type", "limit", "offset", "target"} \intersect FilterKeys = {} /\ given \subseteq FilterKeys /\ "foundanything" \notin given
        /\ {"after", "before", "foundanything"} \subseteq FilterKeys
    BY DEF FilterKeys
  <2> HIDE DEF given
  <2>2. DOMAIN q \subseteq given \union {"type", "limit", "offset"} /\ given \subseteq DOMAIN q
    BY <1>1
  <2> QED
    BY <2>1, <2>2
<1>4. /\ Asks(q, "type", "action") = p.type /\ Asks(q, "limit", DefaultLimit) = p.limit /\ Asks(q, "offset", 0) = p.offset
      /\ Asks(q, "target", NewParameters.target) = NewParameters.target
  <2>1. Asks(q, "type", "action") = p.type /\ Asks(q, "limit", DefaultLimit) = p.limit
    BY <1>1 DEF Asks
  <2>2. Asks(q, "offset", 0) = p.offset
    <3>1. "offset" \notin given
      BY DEF FilterKeys
    <3> HIDE DEF given
    <3>2. "offset" \in DOMAIN q <=> p.offset # 0
      BY <1>1, <3>1
    <3> QED
      BY <1>1, <3>2 DEF Asks
  <2>3. Asks(q, "target", NewParameters.target) = NewParameters.target
    BY <1>3 DEF Asks
  <2> QED
    BY <2>1, <2>2, <2>3
<1> HIDE DEF given
<1>5. [k \in DOMAIN q \intersect FilterKeys |-> q[k]] = [k \in given |-> IF k \in p.zoned THEN Malformed ELSE p.filters[k]]
  BY <1>1, <1>3
<1>6. r = [type |-> p.type, filters |-> [k \in given |-> IF k \in p.zoned THEN Malformed ELSE p.filters[k]],
           limit |-> p.limit, offset |-> p.offset, target |-> NewParameters.target, zoned |-> {}]
  BY <1>2, <1>4, <1>5
<1>7. r.limit = p.limit /\ r.offset = p.offset
  BY <1>6
<1>8. \A k \in given : q[k] # Malformed <=> k \notin p.zoned /\ p.filters[k] # Malformed
  BY <1>1
<1>9. parsed.ok <=> /\ \A k \in given \intersect {"after", "before"} : k \notin p.zoned /\ p.filters[k] # Malformed
                    /\ p.limit # NoNumber /\ p.offset # NoNumber
  BY <1>2, <1>3, <1>7, <1>8
<1> QED
  BY <1>6, <1>9 DEF q, parsed, given

(* What the console asks for.                                                     *)
LEMMA TypedIs ==
  ASSUME NEW t, t.type \in Kinds, ParseSearchQuery(t).ok
  PROVE  LET p == ParseSearchQuery(t).p IN
         /\ p.type = t.type /\ p.limit = DefaultLimit /\ p.offset = 0 /\ p.target = NewParameters.target /\ p.zoned = t.zoned
         /\ Given(p) \subseteq FilterKeys \ {"foundanything"} /\ p.filters = [k \in Given(p) |-> p.filters[k]]
         /\ \A k \in Given(p) \intersect {"after", "before"} : p.filters[k] # Malformed
<1> DEFINE key(k) == IF k = "name" THEN NameKey[t.type] ELSE k
           keys == {key(k) : k \in DOMAIN t.filters} \ {"none"}
           typed(k) == CHOOSE j \in DOMAIN t.filters : key(j) = k
           good == /\ DOMAIN t.filters # {} /\ DOMAIN t.filters \subseteq ConsoleKeys \union {"name"}
                   /\ \A k \in DOMAIN t.filters \intersect {"before", "after"} : t.filters[k] # Malformed
           f == [k \in keys |-> t.filters[typed(k)]]
           r == [NewParameters EXCEPT !.type = t.type, !.filters = f, !.zoned = t.zoned]
           p == ParseSearchQuery(t).p
<1>1. ParseSearchQuery(t) = [ok |-> good, p |-> r]
  BY DEF ParseSearchQuery
<1>2. r.type = t.type /\ r.limit = DefaultLimit /\ r.offset = 0 /\ r.target = NewParameters.target /\ r.zoned = t.zoned /\ r.filters = f
  <2> HIDE DEF f
  <2> QED
    BY DEF NewParameters
<1>3. DOMAIN f = keys /\ f = [k \in DOMAIN f |-> f[k]]
  <2> HIDE DEF keys, typed
  <2> QED
    OBVIOUS
<1>4. NameKey[t.type] \in (FilterKeys \ {"foundanything", "after", "before"}) \union {"none"}
  BY DEF NameKey, Kinds, FilterKeys
<1>5. p = r /\ good
  <2> HIDE DEF good, r
  <2> QED
    BY <1>1
<1>6. keys \subseteq FilterKeys \ {"foundanything"}
  BY <1>4, <1>5 DEF ConsoleKeys
<1>7. \A k \in keys \intersect {"after", "before"} : f[k] # Malformed
  <2> SUFFICES ASSUME NEW k \in keys, k \in {"after", "before"} PROVE t.filters[typed(k)] # Malformed
    BY <1>3
  <2>1. PICK j \in DOMAIN t.filters : key(j) = k
    OBVIOUS
  <2>2. typed(k) \in DOMAIN t.filters /\ key(typed(k)) = k
    BY <2>1
  <2>3. typed(k) = k
    BY <1>4, <2>2
  <2> QED
    BY <1>5, <2>2, <2>3
<1> HIDE DEF f, r, p, keys
<1> QED
  BY <1>2, <1>3, <1>5, <1>6, <1>7 DEF p, Given

--------------------------------------------------------------------------------
(* A search and what was asked for.                                               *)
AskedOf(g) == IF g.mode = "search" THEN ParseSearchQuery(g.query).p ELSE ParseSearchParameters(g.query).p

Explained(x, g, failed) ==
  LET p == AskedOf(g) IN
  x.code = 500 =>
    \/ failed \/ BadIds(p) # {} \/ p.zoned # {}
    \/ g.mode = "api" /\ ~ParseSearchParameters(g.query).ok
    \/ p.type \notin Kinds
    \/ ~Untargeted(p.target) /\ p.target \notin DOMAIN Matches
    \/ ~Comparable(p.type, p.filters)

Continued(x, p) ==
  x.next # << >> =>
    LET next == ParseSearchParameters(x.next) IN
    /\ next.ok /\ next.p.offset = p.offset + p.limit
    /\ "foundanything" \notin Given(p) /\ Untargeted(p.target) => [next.p EXCEPT !.offset = p.offset] = p

LEMMA NoTarget == Untargeted(NewParameters.target)
BY DEF Untargeted, NewParameters

LEMMA NextLink ==
  ASSUME NEW q, ParseSearchParameters(q).ok, ParseSearchParameters(q).p.limit \in Nat, ParseSearchParameters(q).p.offset \in Nat,
         ParseSearchParameters(q).p.offset > 0
  PROVE  LET p == ParseSearchParameters(q).p
             next == ParseSearchParameters(String([p EXCEPT !.offset = p.offset + p.limit]))
         IN /\ next.ok /\ next.p.offset = p.offset + p.limit
            /\ "foundanything" \notin Given(p) /\ p.target = NewParameters.target => [next.p EXCEPT !.offset = p.offset] = p
<1> DEFINE p == ParseSearchParameters(q).p
           f == [k \in DOMAIN q \intersect FilterKeys |-> q[k]]
           type == Asks(q, "type", "action")
           limit == Asks(q, "limit", DefaultLimit)
           offset == Asks(q, "offset", 0)
           target == Asks(q, "target", NewParameters.target)
           n == p.offset + p.limit
           x == [p EXCEPT !.offset = n]
           next == ParseSearchParameters(String(x))
<1>1. /\ p = [type |-> type, filters |-> f, limit |-> limit, offset |-> offset, target |-> target, zoned |-> {}]
      /\ \A k \in DOMAIN q \intersect {"after", "before", "foundanything"} : q[k] # Malformed
  BY ParsedIs
<1>2. DOMAIN f = DOMAIN q \intersect FilterKeys /\ \A k \in DOMAIN f : f[k] = q[k]
  OBVIOUS
<1> HIDE DEF f, type, limit, offset, target, p, n
<1>3. /\ p.type = type /\ p.filters = f /\ p.limit = limit /\ p.offset = offset /\ p.target = target /\ p.zoned = {}
      /\ x = [type |-> type, filters |-> f, limit |-> limit, offset |-> n, target |-> target, zoned |-> {}]
  BY <1>1
<1> HIDE DEF x
<1>4. x.type = type /\ x.filters = f /\ x.limit = limit /\ x.offset = n /\ x.zoned = {}
  BY <1>3
<1>5. Given(x) = DOMAIN f /\ Given(p) = DOMAIN f
  BY <1>3, <1>4 DEF Given
<1>6. n \in Nat /\ limit \in Nat /\ NoNumber \notin Nat
  <2>1. p.offset \in Nat /\ p.limit \in Nat
    BY DEF p
  <2> QED
    BY <1>3, <2>1 DEF n, NoNumber
<1> DEFINE given == DOMAIN f \ {"foundanything"}
           g == [k \in given |-> IF k \in {} THEN Malformed ELSE f[k]]
<1>7. /\ next.p = [type |-> type, filters |-> g, limit |-> limit, offset |-> n, target |-> NewParameters.target, zoned |-> {}]
      /\ next.ok <=> /\ \A k \in given \intersect {"after", "before"} : k \notin {} /\ f[k] # Malformed
                     /\ limit # NoNumber /\ n # NoNumber
  <2>1. Given(x) \subseteq FilterKeys /\ x.zoned \subseteq {"before", "after"}
    BY <1>2, <1>4, <1>5
  <2> QED
    BY <1>4, <1>5, <2>1, ReadBack
<1>8. \A k \in given \intersect {"after", "before"} : f[k] # Malformed
  BY <1>1, <1>2
<1> HIDE DEF next
<1>9. next.ok
  BY <1>6, <1>7, <1>8
<1>10. "foundanything" \notin Given(p) => g = f
  <2> SUFFICES ASSUME "foundanything" \notin DOMAIN f PROVE g = f
    BY <1>5
  <2>1. given = DOMAIN f
    OBVIOUS
  <2>2. \E D, e : f = [k \in D |-> e[k]]
    BY DEF f
  <2>3. f = [k \in DOMAIN f |-> f[k]]
    BY <2>2
  <2>4. g = [k \in DOMAIN f |-> f[k]]
    BY <2>1
  <2> QED
    BY <2>3, <2>4
<1> HIDE DEF g, given
<1>11. next.p.offset = n
  BY <1>7
<1>12. "foundanything" \notin Given(p) /\ target = NewParameters.target =>
         [next.p EXCEPT !.offset = p.offset] = [type |-> type, filters |-> f, limit |-> limit, offset |-> offset, target |-> target, zoned |-> {}]
  BY <1>3, <1>7, <1>10
<1>13. "foundanything" \notin Given(p) /\ target = NewParameters.target => [next.p EXCEPT !.offset = p.offset] = p
  BY <1>1, <1>12
<1> QED
  BY <1>3, <1>9, <1>11, <1>13 DEF next, x, n, p

(* The endpoint as other clients use it.                                           *)
LEMMA ApiExact ==
  ASSUME db = Tables, NEW g \in Programs, g.mode = "api", LimitsCover
  PROVE  LET v == Search(g.query) IN
         Exactly(v, AskedOf(g)) /\ Continued(v, AskedOf(g)) /\ \A failed : Explained(v, g, failed)
<1> DEFINE q == g.query
           parsed == ParseSearchParameters(q)
           p == parsed.p
           v == Search(q)
<1>1. AskedOf(g) = p
  BY DEF AskedOf
<1>2. Asks(q, "limit", DefaultLimit) \in Nat \union {NoNumber} /\ Asks(q, "offset", 0) \in Nat \union {NoNumber}
  BY RequestsAreWellFormed DEF Asks
<1>3. /\ (parsed.ok /\ p.offset = 0 => Covers(p.limit)) => Exactly(v, p)
      /\ v.code = 500 => \/ ~parsed.ok \/ BadIds(p) # {} \/ p.type \notin Kinds
                         \/ ~Untargeted(p.target) /\ p.target \notin DOMAIN Matches
                         \/ ~Comparable(p.type, p.filters)
      /\ v.next # << >> => parsed.ok /\ p.offset > 0 /\ v.next = String([p EXCEPT !.offset = p.offset + p.limit])
  BY <1>2, AnswerIs
<1>4. /\ p.limit = Asks(q, "limit", DefaultLimit) /\ p.offset = Asks(q, "offset", 0)
      /\ parsed.ok => p.limit # NoNumber /\ p.offset # NoNumber
  <2> DEFINE f == [k \in DOMAIN q \intersect FilterKeys |-> q[k]]
  <2>1. /\ p = [type |-> Asks(q, "type", "action"), filters |-> f, limit |-> Asks(q, "limit", DefaultLimit),
                offset |-> Asks(q, "offset", 0), target |-> Asks(q, "target", NewParameters.target), zoned |-> {}]
        /\ parsed.ok => p.limit # NoNumber /\ p.offset # NoNumber
    BY ParsedIs
  <2> HIDE DEF f, p, parsed
  <2>2. p.limit = Asks(q, "limit", DefaultLimit) /\ p.offset = Asks(q, "offset", 0)
    BY <2>1
  <2> QED
    BY <2>1, <2>2
<1>5. parsed.ok /\ p.offset = 0 => Covers(p.limit)
  BY <1>4 DEF LimitsCover
<1>6. Exactly(v, p)
  BY <1>3, <1>5
<1>7. Continued(v, p)
  <2> SUFFICES ASSUME v.next # << >>
               PROVE  LET next == ParseSearchParameters(v.next) IN
                      /\ next.ok /\ next.p.offset = p.offset + p.limit
                      /\ "foundanything" \notin Given(p) /\ Untargeted(p.target) => [next.p EXCEPT !.offset = p.offset] = p
    BY DEF Continued
  <2>1. parsed.ok /\ p.offset > 0 /\ v.next = String([p EXCEPT !.offset = p.offset + p.limit])
    BY <1>3
  <2>2. p.limit \in Nat /\ p.offset \in Nat
    BY <1>2, <1>4, <2>1
  <2>3. Untargeted(p.target) => p.target = NewParameters.target
    BY NoTarget DEF Untargeted
  <2> QED
    BY <2>1, <2>2, <2>3, NextLink
<1>8. \A failed : Explained(v, g, failed)
  BY <1>1, <1>3 DEF Explained
<1> QED
  BY <1>1, <1>6, <1>7, <1>8

(* A search of the console.                                                       *)
LEMMA ConsoleExact ==
  ASSUME db = Tables, NEW g \in Programs, g.mode = "search", ParseSearchQuery(g.query).ok, NEW r, LimitsCover,
         NEW failed, r # "answered" => failed
  PROVE  LET v == GetAPIResource(r, Search(String(ParseSearchQuery(g.query).p))) IN
         Exactly(v, AskedOf(g)) /\ Continued(v, AskedOf(g)) /\ Explained(v, g, failed) /\ v.code \in {200, 404, 500}
<1> DEFINE t == g.query
           p == ParseSearchQuery(t).p
           q == String(p)
           parsed == ParseSearchParameters(q)
           x == parsed.p
           w == Search(q)
           v == GetAPIResource(r, w)
           f == [k \in Given(p) |-> IF k \in p.zoned THEN Malformed ELSE p.filters[k]]
<1>1. AskedOf(g) = p
  BY DEF AskedOf
<1>2. t.type \in Kinds /\ t.zoned \subseteq {"before", "after"}
  BY RequestsAreWellFormed
<1>3. /\ p.limit = DefaultLimit /\ p.offset = 0 /\ p.target = NewParameters.target /\ p.zoned = t.zoned /\ p.type = t.type
      /\ Given(p) \subseteq FilterKeys \ {"foundanything"} /\ p.filters = [k \in Given(p) |-> p.filters[k]]
      /\ \A k \in Given(p) \intersect {"after", "before"} : p.filters[k] # Malformed
  BY <1>2, TypedIs
<1> HIDE DEF p
<1>4. Given(p) \ {"foundanything"} = Given(p)
  BY <1>3
<1>5. /\ x = [type |-> p.type, filters |-> f, limit |-> p.limit, offset |-> p.offset, target |-> NewParameters.target, zoned |-> {}]
      /\ parsed.ok <=> /\ \A k \in Given(p) \intersect {"after", "before"} : k \notin p.zoned /\ p.filters[k] # Malformed
                       /\ p.limit # NoNumber /\ p.offset # NoNumber
  BY <1>2, <1>3, <1>4, ReadBack
<1>6. DefaultLimit \in Nat /\ DefaultLimit # NoNumber /\ 0 # NoNumber /\ NoNumber \notin Nat
  BY RequestsAreWellFormed DEF NoNumber
<1>7. parsed.ok <=> Given(p) \intersect p.zoned = {}
  BY <1>2, <1>3, <1>5, <1>6
<1>8. /\ (parsed.ok /\ x.offset = 0 => Covers(x.limit)) => Exactly(w, x)
      /\ w.code = 500 => \/ ~parsed.ok \/ BadIds(x) # {} \/ x.type \notin Kinds
                         \/ ~Untargeted(x.target) /\ x.target \notin DOMAIN Matches
                         \/ ~Comparable(x.type, x.filters)
      /\ w.code # 500 => parsed.ok
      /\ w.next # << >> => parsed.ok /\ x.offset > 0
      /\ w.code \in {200, 404, 500}
  <2>1. Asks(q, "limit", DefaultLimit) \in Nat \union {NoNumber} /\ Asks(q, "offset", 0) \in Nat \union {NoNumber}
    <3>1. /\ DOMAIN q = (Given(p) \ {"foundanything"}) \union {"type", "limit"} \union (IF p.offset # 0 THEN {"offset"} ELSE {})
          /\ q["limit"] = p.limit /\ (p.offset # 0 => q["offset"] = p.offset)
      BY <1>2, <1>3, StringIs
    <3> HIDE DEF q
    <3>2. "offset" \notin FilterKeys
      BY DEF FilterKeys
    <3>3. "limit" \in DOMAIN q /\ "offset" \notin DOMAIN q
      BY <1>3, <3>1, <3>2
    <3> QED
      BY <1>3, <1>6, <3>1, <3>3 DEF Asks
  <2>2. /\ w.code \in {200, 404, 500}
        /\ (parsed.ok /\ x.offset = 0 => Covers(x.limit)) => Exactly(w, x)
        /\ w.code = 500 => \/ ~parsed.ok \/ BadIds(x) # {} \/ x.type \notin Kinds
                           \/ ~Untargeted(x.target) /\ x.target \notin DOMAIN Matches
                           \/ ~Comparable(x.type, x.filters)
        /\ w.code # 500 => parsed.ok
        /\ w.next # << >> => parsed.ok /\ x.offset > 0 /\ w.next = String([x EXCEPT !.offset = x.offset + x.limit])
    BY <2>1, AnswerIs
  <2> HIDE DEF w, parsed, x
  <2> QED
    BY <2>2
<1> HIDE DEF q, parsed, w, f
<1>9. x.type = p.type /\ x.filters = f /\ x.limit = p.limit /\ x.offset = 0 /\ x.target = NewParameters.target
  <2> HIDE DEF x
  <2>1. x.type = p.type /\ x.filters = f /\ x.limit = p.limit /\ x.offset = p.offset /\ x.target = NewParameters.target
    BY <1>5
  <2> QED
    BY <1>3, <2>1
<1>10. parsed.ok => f = p.filters
  <2>1. parsed.ok => f = [k \in Given(p) |-> p.filters[k]]
    BY <1>7 DEF f
  <2> QED
    BY <1>3, <2>1
<1>11. parsed.ok => BadIds(x) = BadIds(p)
  BY <1>9, <1>10 DEF BadIds, Given
<1> HIDE DEF x
<1>12. Exactly(w, x)
  BY <1>3, <1>8, <1>9 DEF LimitsCover
<1>13. IF r = "answered" /\ w.code # 500 THEN v = w ELSE v = [code |-> 500, items |-> << >>, next |-> << >>]
  BY <1>8, ResourceIs
<1> HIDE DEF v
<1>14. v.code # 500 => v = w /\ w.code # 500 /\ parsed.ok
  BY <1>8, <1>13
<1>15. Exactly(v, p)
  BY <1>3, <1>9, <1>10, <1>11, <1>12, <1>14 DEF Exactly
<1>16. v.next = << >>
  <2>1. w.next = << >>
    BY <1>8, <1>9
  <2> QED
    BY <1>13, <2>1
<1>17. Continued(v, p)
  BY <1>16 DEF Continued
<1>18. v.code = 500 => r # "answered" \/ w.code = 500
  BY <1>13
<1>19. w.code = 500 => \/ p.zoned # {} \/ BadIds(p) # {} \/ p.type \notin Kinds
                       \/ ~Untargeted(p.target) /\ p.target \notin DOMAIN Matches
                       \/ ~Comparable(p.type, p.filters)
  BY <1>3, <1>7, <1>8, <1>9, <1>10, <1>11
<1>20. Explained(v, g, failed)
  BY <1>1, <1>18, <1>19 DEF Explained
<1>21. v.code \in {200, 404, 500}
  BY <1>8, <1>13
<1> QED
  BY <1>1, <1>15, <1>17, <1>20, <1>21 DEF v, w, q, p

--------------------------------------------------------------------------------
(* Searches are made at the start, when nothing has changed the tables yet.         *)
Judged ==
  pc = "answered" =>
    Exactly(answer, AskedOf(program)) /\ Continued(answer, AskedOf(program)) /\ Explained(answer, program, seen.failed)

Untouched == pc = "start" => db = Tables
SearchInv == Untouched /\ Judged

LEMMA JudgedIs ==
  ASSUME Judged PROVE FoundIsMeant /\ FailureIsExplained /\ NextIsSameSearch
<1> SUFFICES ASSUME pc = "answered" PROVE FoundIsMeant /\ FailureIsExplained /\ NextIsSameSearch
  BY DEF FoundIsMeant, FailureIsExplained, NextIsSameSearch
<1> DEFINE p == Asked
           known == [k \in Given(p) \intersect DOMAIN WhereOf[p.type] |-> p.filters[k]]
           all == Meaning(p.type, known)
<1>1. p = AskedOf(program)
  BY DEF Asked, AskedOf
<1>2. Exactly(answer, p) /\ Continued(answer, p) /\ Explained(answer, program, seen.failed)
  BY <1>1 DEF Judged
<1>3. Untargeted(p.target) <=> p.target = ""
  BY DEF Untargeted
<1>4. DOMAIN Table = Kinds /\ Given(p) = DOMAIN p.filters
  BY DEF Table, Kinds, Given
<1> HIDE DEF p
<1>5. FoundIsMeant
  <2> SUFFICES ASSUME answer.code # 500, Untargeted(p.target), BadIds(p) = {}
               PROVE  LET means == IF p.type = "command" THEN all \ Unsigned ELSE all IN
                      /\ ToSet(answer.items) \subseteq means
                      /\ p.offset = 0 => means \subseteq ToSet(answer.items)
    <3> HIDE DEF all
    <3> QED
      BY <1>3 DEF FoundIsMeant, p, all
  <2>1. /\ p.type \in Kinds /\ ToSet(answer.items) \subseteq Answers(p.type, p.filters)
        /\ p.offset = 0 => Answers(p.type, p.filters) \subseteq ToSet(answer.items)
    BY <1>2 DEF Exactly
  <2>2. Answers(p.type, p.filters) = IF p.type = "command" THEN all \ Unsigned ELSE all
    BY <1>4, <2>1, MeaningIs
  <2> DEFINE found == Answers(p.type, p.filters)
             means == IF p.type = "command" THEN all \ Unsigned ELSE all
  <2>3. found = means
    BY <2>2
  <2> HIDE DEF found, means
  <2>4. ToSet(answer.items) \subseteq means /\ (p.offset = 0 => means \subseteq ToSet(answer.items))
    <3>1. ToSet(answer.items) \subseteq found /\ (p.offset = 0 => found \subseteq ToSet(answer.items))
      BY <2>1 DEF found
    <3> QED
      BY <2>3, <3>1
  <2> QED
    BY <2>4, Zenon DEF means
<1>6. FailureIsExplained
  <2> SUFFICES ASSUME answer.code = 500
               PROVE  \/ seen.failed \/ BadIds(p) # {} \/ p.zoned # {}
                      \/ program.mode = "api" /\ ~ParseSearchParameters(program.query).ok
                      \/ p.type \notin DOMAIN Table
                      \/ p.target # "" /\ p.target \notin DOMAIN Matches
                      \/ Given(p) \intersect DOMAIN WhereOf[p.type] = {}
                      \/ p.type = "action" /\ "status" \in Given(p)
    BY DEF FailureIsExplained, p
  <2>1. Comparable(p.type, p.filters) <=>
          Given(p) \intersect DOMAIN WhereOf[p.type] # {} /\ ~(p.type = "action" /\ "status" \in Given(p))
    BY <1>4 DEF Comparable, Conditions
  <2> QED
    BY <1>1, <1>2, <1>3, <1>4, <2>1 DEF Explained
<1>7. NextIsSameSearch
  BY <1>2, <1>3 DEF NextIsSameSearch, Continued, p
<1> QED
  BY <1>5, <1>6, <1>7

(* No other step comes to a search or its answer.                                   *)
MovesOn == pc' \notin {"start", "answered"} \/ (pc' = "start" /\ pc = "start" /\ UNCHANGED db)

LEMMA MovesOnFrom ==
  ASSUME \/ MigStep \/ FollowStep \/ StopFollow \/ Interrupt \/ WaitInterrupt \/ ReaderStep \/ SearchRefused \/ ServerStep \/ Tick
  PROVE  MovesOn
<1>1. CASE MigBuild \/ MigSign \/ MigEvaluate \/ MigCountdown \/ MigPrint
  BY <1>1 DEF MigBuild, MigSign, MigEvaluate, MigCountdown, MigPrint, Goto, MovesOn
<1>2. CASE MigPost
  BY <1>2 DEF MigPost, PostAction, Goto, MovesOn
<1>3. ASSUME NEW there \in {"print", "list"}, NEW after \in {"printed", "reader"}, FetchPage(there, after, "exit") PROVE MovesOn
  BY <1>3 DEF FetchPage, Goto, MovesOn
<1>4. CASE MigPage \/ ReaderPage
  BY <1>3, <1>4 DEF MigPage, ReaderPage
<1>5. CASE FollowTurn
  BY <1>5 DEF FollowTurn, FollowReturns, FollowFails, Goto, MovesOn
<1>6. CASE FollowFinish
  BY <1>6 DEF FollowFinish, FollowReturns, FollowFails, Goto, MovesOn
<1>7. CASE StopFollow \/ Interrupt \/ WaitInterrupt
  BY <1>7 DEF StopFollow, Interrupt, WaitInterrupt, Goto, MovesOn
<1>8. CASE ReaderStart \/ ReaderCopy \/ Exit
  BY <1>8 DEF ReaderStart, ReaderCopy, Exit, Goto, MovesOn
<1>9. ASSUME NEW show, ReaderList(show) \/ ReaderResults(show) PROVE MovesOn
  BY <1>9 DEF ReaderList, ReaderResults, Goto, MovesOn
<1>10. CASE SearchRefused
  BY <1>10 DEF SearchRefused, Goto, MovesOn
<1>11. CASE ServerStep
  <2>1. pc' = pc /\ pc \in {"follow", "finish", "followed", "print", "list", "reader"}
    BY <1>11 DEF ServerStep, ActionMoves, CommandSent, CommandFinished, Watched
  <2> QED
    BY <2>1 DEF MovesOn
<1>12. CASE Tick
  BY <1>12 DEF Tick, Ended, MovesOn
<1> QED
  BY <1>1, <1>2, <1>4, <1>5, <1>6, <1>7, <1>8, <1>9, <1>10, <1>11, <1>12 DEF MigStep, FollowStep, ReaderStep

LEMMA LauncherMovesOn ==
  ASSUME LauncherStep PROVE MovesOn
<1>1. CASE AddOperation \/ CompressFalse \/ CompressTrue \/ SetName \/ Sign
  BY <1>1 DEF AddOperation, CompressFalse, CompressTrue, SetName, Sign, Launcher, Goto, MovesOn
<1>2. ASSUME NEW i, DelOperation(i) PROVE MovesOn
  BY <1>2 DEF DelOperation, Launcher, MovesOn
<1>3. ASSUME NEW t, SetTarget(t) PROVE MovesOn
  BY <1>3 DEF SetTarget, Launcher, MovesOn
<1>4. ASSUME NEW form, SetTimes(form) PROVE MovesOn
  BY <1>4 DEF SetTimes, Launcher, MovesOn
<1>5. ASSUME NEW f, Load(f) PROVE MovesOn
  BY <1>5 DEF Load, Launcher, MovesOn
<1>6. CASE LaunchEvaluate \/ LaunchAtOnce
  BY <1>6 DEF LaunchEvaluate, LaunchAtOnce, Goto, MovesOn
<1>7. CASE ConsoleStart
  BY <1>7 DEF ConsoleStart, Goto, MovesOn
<1>8. CASE Launch
  <2>1. PostAction(Launched(Timed(a)), IF program.nofollow THEN "read" ELSE "follow", "exit") \/ Goto("exit")
    BY <1>8 DEF Launch
  <2>2. pc' \in {"read", "follow", "exit"}
    BY <2>1 DEF PostAction, Goto
  <2> QED
    BY <2>2 DEF MovesOn
<1> QED
  BY <1>1, <1>2, <1>3, <1>4, <1>5, <1>6, <1>7, <1>8 DEF LauncherStep

(* The judgement of an answer does not change while the tables do not.                *)
LEMMA SameJudgement ==
  ASSUME UNCHANGED <<db, program>>,
         Exactly(answer', AskedOf(program)), Continued(answer', AskedOf(program)), Explained(answer', program, (seen.failed)')
  PROVE  Judged'
<1>1. \A type, filters : Answers(type, filters)' = Answers(type, filters)
  BY DEF Answers, Meant, Unsigned, Related, AcceptsAll, Accepts, Value, Joined, Row, SignersOf
<1>2. Exactly(answer, AskedOf(program))'
  BY <1>1 DEF Exactly
<1> QED
  BY <1>2 DEF Judged

--------------------------------------------------------------------------------
(* Other steps have no answer of a search.                                          *)
LEMMA Answerless ==
  ASSUME \/ MigStep \/ FollowStep \/ StopFollow \/ Interrupt \/ WaitInterrupt \/ ReaderStep \/ SearchRefused \/ ServerStep \/ Tick
         \/ LauncherStep
  PROVE  UNCHANGED answer
<1>1. CASE MigBuild \/ MigSign \/ MigEvaluate \/ MigCountdown \/ MigPost \/ MigPrint
  BY <1>1 DEF MigBuild, MigSign, MigEvaluate, MigCountdown, MigPost, MigPrint
<1>2. ASSUME NEW there, NEW after, NEW refused, FetchPage(there, after, refused) PROVE UNCHANGED answer
  BY <1>2 DEF FetchPage
<1>3. CASE MigPage \/ ReaderPage
  BY <1>2, <1>3 DEF MigPage, ReaderPage
<1>4. CASE FollowStep
  BY <1>4 DEF FollowStep, FollowTurn, FollowFinish
<1>5. CASE StopFollow \/ Interrupt \/ WaitInterrupt \/ SearchRefused \/ Tick
  BY <1>5 DEF StopFollow, Interrupt, WaitInterrupt, SearchRefused, Tick
<1>6. CASE ReaderStart \/ ReaderCopy \/ Exit
  BY <1>6 DEF ReaderStart, ReaderCopy, Exit
<1>7. ASSUME NEW show, ReaderList(show) \/ ReaderResults(show) PROVE UNCHANGED answer
  BY <1>7 DEF ReaderList, ReaderResults, Reader
<1>8. CASE ServerStep
  BY <1>8 DEF ServerStep, ActionMoves, CommandSent, CommandFinished
<1>9. CASE AddOperation \/ CompressFalse \/ CompressTrue \/ SetName \/ Sign
  BY <1>9 DEF AddOperation, CompressFalse, CompressTrue, SetName, Sign, Launcher
<1>10. ASSUME NEW x, DelOperation(x) \/ SetTarget(x) \/ SetTimes(x) \/ Load(x) PROVE UNCHANGED answer
  BY <1>10 DEF DelOperation, SetTarget, SetTimes, Load, Launcher
<1>11. CASE LaunchEvaluate \/ LaunchAtOnce \/ Launch \/ ConsoleStart
  BY <1>11 DEF LaunchEvaluate, LaunchAtOnce, Launch, ConsoleStart
<1>12. CASE LauncherStep
  BY <1>9, <1>10, <1>11, <1>12 DEF LauncherStep
<1> QED
  BY <1>1, <1>3, <1>4, <1>5, <1>6, <1>7, <1>8, <1>12 DEF MigStep, ReaderStep

--------------------------------------------------------------------------------
(* The answers of searches.                                                       *)
Codes == {0, 200, 404, 500}

LEMMA CodesKeep ==
  ASSUME answer.code \in Codes, [ClientNext]_cvars PROVE answer'.code \in Codes
<1>1. \A q : Search(q).code \in {200, 404, 500}
  <2> SUFFICES ASSUME NEW q PROVE Search(q).code \in {200, 404, 500}
    OBVIOUS
  <2>1. LET parsed == ParseSearchParameters(q)
            s == Dispatch(parsed.p)
        IN Search(q).code = IF ~parsed.ok \/ ~s.ok THEN 500 ELSE IF s.rows = << >> THEN 404 ELSE 200
    BY SearchIs
  <2> QED
    BY <2>1
<1>2. CASE ApiSearch
  BY <1>1, <1>2 DEF ApiSearch, Codes
<1>3. CASE ConsoleSearch
  <2>1. PICK r, q : answer' = GetAPIResource(r, Search(q))
    BY <1>3 DEF ConsoleSearch
  <2>2. answer' = Search(q) \/ answer' = [code |-> 500, items |-> << >>, next |-> << >>]
    BY <1>1, <2>1, ResourceIs
  <2> QED
    BY <1>1, <2>2 DEF Codes
<1>4. CASE UNCHANGED cvars
  BY <1>4 DEF cvars
<1> QED
  BY <1>2, <1>3, <1>4, Answerless DEF ClientNext, SearchStep

LEMMA UntouchedKeeps ==
  ASSUME Untouched, [ClientNext]_cvars PROVE Untouched'
<1>1. ASSUME MovesOn PROVE Untouched'
  BY <1>1 DEF MovesOn, Untouched
<1>2. CASE ApiSearch \/ ConsoleSearch
  BY <1>2 DEF ApiSearch, ConsoleSearch, Goto, Untouched
<1>3. CASE UNCHANGED cvars
  BY <1>3 DEF cvars, Untouched
<1> QED
  BY <1>1, <1>2, <1>3, LauncherMovesOn, MovesOnFrom DEF ClientNext, SearchStep

(* What was found is as it should be.                                               *)
LEMMA SearchKeeps ==
  ASSUME TypeInv, SearchInv, LimitsCover, [ClientNext]_cvars PROVE SearchInv'
<1>1. Untouched'
  BY UntouchedKeeps DEF SearchInv
<1>2. CASE ApiSearch
  <2>1. /\ pc = "start" /\ program.mode = "api" /\ answer' = Search(program.query) /\ UNCHANGED <<db, program>>
    BY <1>2 DEF ApiSearch
  <2>2. db = Tables /\ program \in Programs
    BY <2>1 DEF SearchInv, Untouched, TypeInv
  <2>3. /\ Exactly(answer', AskedOf(program)) /\ Continued(answer', AskedOf(program))
        /\ \A failed : Explained(answer', program, failed)
    BY <2>1, <2>2, ApiExact
  <2> QED
    BY <1>1, <2>1, <2>3, SameJudgement DEF SearchInv
<1>3. CASE ConsoleSearch
  <2>1. PICK r \in Replies :
          /\ pc = "start" /\ program.mode = "search" /\ ParseSearchQuery(program.query).ok
          /\ answer' = GetAPIResource(r, Search(String(ParseSearchQuery(program.query).p)))
          /\ seen' = [seen EXCEPT !.failed = r # "answered"]
          /\ UNCHANGED <<db, program>>
    BY <1>3 DEF ConsoleSearch
  <2>2. db = Tables /\ program \in Programs
    BY <2>1 DEF SearchInv, Untouched, TypeInv
  <2> DEFINE failed == r # "answered"
  <2>3. seen'.failed = failed
    <3>1. seen' = [seen EXCEPT !.failed = failed]
      BY <2>1
    <3>2. DOMAIN seen = {"shown", "blind", "edited", "loaded", "failed"}
      BY DEF TypeInv, Histories
    <3> HIDE DEF failed
    <3> QED
      BY <3>1, <3>2
  <2>4. r # "answered" => seen'.failed
    <3>1. r # "answered" => failed
      OBVIOUS
    <3> HIDE DEF failed
    <3> QED
      BY <2>3, <3>1
  <2> HIDE DEF failed
  <2>5. PICK f : f = seen'.failed
    OBVIOUS
  <2>6. Exactly(answer', AskedOf(program)) /\ Continued(answer', AskedOf(program)) /\ Explained(answer', program, f)
    BY <2>1, <2>2, <2>4, <2>5, ConsoleExact
  <2>7. Judged'
    BY <2>1, <2>5, <2>6, SameJudgement
  <2> QED
    BY <1>1, <2>7 DEF SearchInv
<1>4. CASE UNCHANGED cvars
  <2>1. UNCHANGED <<db, program>> /\ UNCHANGED pc /\ UNCHANGED answer /\ UNCHANGED seen
    BY <1>4 DEF cvars
  <2>2. CASE pc # "answered"
    BY <1>1, <2>1, <2>2 DEF SearchInv, Judged
  <2>3. CASE pc = "answered"
    <3>1. Exactly(answer, AskedOf(program)) /\ Continued(answer, AskedOf(program)) /\ Explained(answer, program, seen.failed)
      BY <2>3 DEF SearchInv, Judged
    <3>2. answer' = answer /\ (seen.failed)' = seen.failed
      BY <2>1
    <3>3. /\ Exactly(answer', AskedOf(program)) /\ Continued(answer', AskedOf(program))
          /\ Explained(answer', program, (seen.failed)')
      BY <3>1, <3>2
    <3> QED
      BY <1>1, <2>1, <3>3, SameJudgement DEF SearchInv
  <2> QED
    BY <2>2, <2>3
<1>5. ASSUME MovesOn PROVE SearchInv'
  <2>1. pc' # "answered"
    BY <1>5 DEF MovesOn
  <2> QED
    BY <1>1, <2>1 DEF SearchInv, Judged
<1> QED
  BY <1>2, <1>3, <1>4, <1>5, LauncherMovesOn, MovesOnFrom DEF ClientNext, SearchStep

--------------------------------------------------------------------------------
(* A page of a list has commands of the table.                                     *)
LEMMA PageThere ==
  ASSUME Numbered(db.commands), NEW list \in Lists, NEW offset \in Nat, NEW r
  PROVE  LET page == GetAPIResource(r, Search(PageQuery(list, offset))) IN
         page.code = 200 => ToSet(page.items) \subseteq DOMAIN db.commands
<1> DEFINE q == PageQuery(list, offset)
           parsed == ParseSearchParameters(q)
           p == parsed.p
           x == Select("commands", CommandTables, CommandWhere, p.filters)
           answered == Search(q)
           page == GetAPIResource(r, answered)
           there == DOMAIN db.commands
<1>1. p.type = "command" /\ p.limit = PageLimit /\ p.offset = offset /\ BadIds(p) = {}
  BY PageParameters
<1> HIDE DEF q, parsed
<1>2. PageLimit \in Nat
  BY ClientBounds
<1>3. x.ok => x.rows \subseteq there
  <2> DEFINE tables == TablesOf(CommandTables, CommandWhere, p.filters)
             all == Conditions(CommandWhere, p.filters)
  <2>1. \A k \in all : CommandWhere[k].joins = {}
    BY DEF Conditions, CommandWhere, Col
  <2>2. tables = CommandTables
    BY <2>1 DEF TablesOf
  <2>3. x.ok => x.rows = Rows("commands", CommandTables, CommandWhere, p.filters)
    BY <2>2, SelectIs
  <2>4. ASSUME NEW c \in Rows("commands", CommandTables, CommandWhere, p.filters) PROVE c \in there
    <3>1. PICK j \in Joined(CommandTables) : c = j["commands"]
      BY DEF Rows
    <3>2. PICK d \in there : \E i \in SignersOf(db.commands[d].actionid) : j = Row(CommandTables, d, i)
      BY JoinedAre
    <3> QED
      BY <3>1, <3>2, RowIs
  <2> QED
    BY <2>3, <2>4
<1> DEFINE rows == Slice(Sorted(x.rows, Recent), p)
<1>4. /\ Dispatch(p).ok => x.ok
      /\ x.ok => Dispatch(p).rows = rows
  <2>1. Dispatch(p) = SearchCommands(p)
    BY <1>1 DEF Dispatch
  <2>2. SearchCommands(p) = IF ~x.ok THEN Failed ELSE Found(rows)
    BY <1>1 DEF SearchCommands, CommandTables, Recent
  <2>3. ~Failed.ok /\ Found(rows).rows = rows
    BY FoundIs
  <2> QED
    BY <2>1, <2>2, <2>3
<1>5. x.ok => rows \in Seq(there)
  <2> SUFFICES ASSUME x.ok PROVE rows \in Seq(there)
    OBVIOUS
  <2>1. Distinct(x.rows, Recent) /\ x.rows \subseteq there
    BY <1>3, SomeAreDistinct
  <2>2. rows \in Seq(x.rows)
    <3> HIDE DEF x, p
    <3> QED
      BY <1>1, <1>2, <2>1, PageOf
  <2>3. \A k \in DOMAIN rows : rows[k] \in x.rows
    BY <2>2, ElementOfSeq, LenProperties
  <2> HIDE DEF rows, x
  <2>4. Len(rows) \in Nat /\ DOMAIN rows = 1..Len(rows) /\ rows = [k \in DOMAIN rows |-> rows[k]]
    BY <2>2, LenProperties
  <2> QED
    BY <2>1, <2>2, <2>3, <2>4
<1>6. /\ answered.code = IF ~parsed.ok \/ ~Dispatch(p).ok THEN 500 ELSE IF Dispatch(p).rows = << >> THEN 404 ELSE 200
      /\ answered.items = IF answered.code = 200 THEN Items(Dispatch(p).rows, p.limit) ELSE << >>
  BY SearchIs DEF parsed
<1> HIDE DEF answered, x, rows, p, there
<1>7. answered.code = 200 => ToSet(answered.items) \subseteq there
  <2> SUFFICES ASSUME answered.code = 200 PROVE ToSet(answered.items) \subseteq there
    OBVIOUS
  <2>1. rows \in Seq(there) /\ answered.items = Items(rows, PageLimit)
    BY <1>1, <1>4, <1>5, <1>6
  <2>2. ToSet(answered.items) \subseteq ToSet(rows)
    BY <1>2, <2>1, AllItems
  <2>3. \A k \in DOMAIN rows : rows[k] \in there
    BY <2>1, ElementOfSeq, LenProperties
  <2> QED
    BY <2>2, <2>3 DEF ToSet
<1>8. IF r = "answered" /\ answered.code # 500 THEN page = answered
      ELSE page = [code |-> 500, items |-> << >>, next |-> << >>]
  <2>1. answered.code \in {200, 404, 500}
    BY <1>6
  <2> QED
    BY <2>1, ResourceIs
<1> HIDE DEF page
<1>9. page.code = 200 => page = answered
  BY <1>8
<1> QED
  BY <1>7, <1>9 DEF page, answered, q, there

--------------------------------------------------------------------------------
(* What is got of a list, and what was on it, are commands of the table.            *)
Fetched == FetchType /\ fetch.got \subseteq DOMAIN db.commands /\ fetch.from \subseteq DOMAIN db.commands

LEMMA FetchedOutside ==
  ASSUME Fetched, UNCHANGED fetch, db'.commands = db.commands, pc \in {"print", "list"} <=> pc' \in {"print", "list"}
  PROVE  Fetched'
BY DEF Fetched, FetchType

LEMMA ReadFetches ==
  ASSUME Fetched, NEW lists \in Seq(Lists), fetch' = Read(lists), UNCHANGED <<db, id>>,
         lists # << >> <=> pc' \in {"print", "list"}
  PROVE  Fetched'
<1>1. /\ DOMAIN fetch' = Fields /\ fetch'.lists = lists /\ fetch'.offset = 0 /\ fetch'.got = {}
      /\ fetch'.from \subseteq DOMAIN db.commands
  <2>1. CASE lists = << >>
    <3>1. fetch' = [lists |-> << >>, offset |-> 0, got |-> {}, from |-> {}, left |-> FALSE]
      BY <2>1 DEF Read, NoFetch
    <3> QED
      BY <2>1, <3>1 DEF Fields
  <2>2. CASE lists # << >>
    <3>1. fetch' = [lists |-> lists, offset |-> 0, got |-> {}, from |-> Listed(id, Head(lists)), left |-> FALSE]
      BY <2>2 DEF Read
    <3>2. Listed(id, Head(lists)) \subseteq DOMAIN db.commands
      BY DEF Listed, CommandsOf
    <3> QED
      BY <3>1, <3>2 DEF Fields
  <2> QED
    BY <2>1, <2>2
<1> QED
  BY <1>1 DEF Fetched, FetchType

LEMMA PageFetches ==
  ASSUME Fetched, NEW there \in {"print", "list"}, NEW after, FetchPage(there, after, "exit"),
         after \notin {"print", "list"}
  PROVE  Fetched'
<1>1. pc = there /\ UNCHANGED <<db, id>>
  BY DEF FetchPage
<1> PICK list, offset : list = Head(fetch.lists) /\ offset = fetch.offset
  OBVIOUS
<1>2. /\ list \in Lists /\ Tail(fetch.lists) \in Seq(Lists) /\ offset \in Nat /\ Numbered(db.commands)
      /\ Len(Tail(fetch.lists)) = Len(fetch.lists) - 1 /\ Len(fetch.lists) \in Nat \ {0}
  BY <1>1, HeadTailProperties, LenProperties DEF Fetched, FetchType
<1>3. PICK r \in Replies : \E page \in {GetAPIResource(r, Search(PageQuery(list, offset)))} :
       \/ /\ page.code = 200
          /\ fetch' = [fetch EXCEPT !.got = @ \union ToSet(page.items), !.offset = NextOffset(@)]
          /\ UNCHANGED pc
       \/ /\ page.code = 404
          /\ fetch' = Read(Tail(fetch.lists))
          /\ pc' = IF Len(fetch.lists) = 1 THEN after ELSE there
       \/ /\ page.code = 500
          /\ fetch' = NoFetch /\ pc' = "exit"
  BY DEF FetchPage, Goto
<1> DEFINE page == GetAPIResource(r, Search(PageQuery(list, offset)))
           items == ToSet(page.items)
           next == offset + PageLimit
<1>4. page.code = 200 => items \subseteq DOMAIN db.commands
  BY <1>2, PageThere
<1>5. \/ page.code = 200 /\ fetch' = [fetch EXCEPT !.got = @ \union items, !.offset = NextOffset(@)] /\ UNCHANGED pc
      \/ fetch' = Read(Tail(fetch.lists)) /\ pc' = IF Len(fetch.lists) = 1 THEN after ELSE there
      \/ fetch' = NoFetch /\ pc' = "exit"
  BY <1>3
<1> HIDE DEF items, page
<1>6. CASE page.code = 200 /\ fetch' = [fetch EXCEPT !.got = @ \union items, !.offset = NextOffset(@)] /\ UNCHANGED pc
  <2>1. /\ fetch'.got = fetch.got \union items /\ fetch'.offset = next /\ fetch'.from = fetch.from
        /\ fetch'.lists = fetch.lists /\ DOMAIN fetch' = Fields
    <3>1. DOMAIN fetch = Fields
      BY DEF Fetched, FetchType
    <3> QED
      BY <1>6, <3>1 DEF Fields, NextOffset
  <2>2. next \in Nat
    BY <1>2, ClientBounds
  <2> QED
    BY <1>1, <1>4, <1>6, <2>1, <2>2 DEF Fetched, FetchType
<1>7. CASE fetch' = Read(Tail(fetch.lists)) /\ pc' = IF Len(fetch.lists) = 1 THEN after ELSE there
  <2> PICK rest : rest = Tail(fetch.lists)
    OBVIOUS
  <2>1. rest # << >> <=> pc' \in {"print", "list"}
    <3> DEFINE m == Len(fetch.lists)
               n == Len(rest)
    <3>1. rest \in Seq(Lists) /\ n = m - 1 /\ m \in Nat
      BY <1>2
    <3>2. (rest = << >> => n = 0) /\ (rest # << >> => n # 0)
      BY <3>1, EmptySeq
    <3>3. pc' = IF m = 1 THEN after ELSE there
      BY <1>7
    <3> HIDE DEF m, n
    <3> QED
      BY <3>1, <3>2, <3>3
  <2> QED
    BY <1>1, <1>2, <1>7, <2>1, ReadFetches
<1>8. CASE fetch' = NoFetch /\ pc' = "exit"
  <2>1. fetch' = Read(<< >>) /\ << >> \in Seq(Lists)
    BY <1>8 DEF Read
  <2> QED
    BY <1>1, <1>8, <2>1, ReadFetches
<1> QED
  BY <1>5, <1>6, <1>7, <1>8

LEMMA CommandSentFetches ==
  ASSUME TypeInv, Fetched, NEW g, CommandSent(g) PROVE Fetched'
<1> DEFINE n == Cardinality(DOMAIN db.commands)
           row == [actionid |-> id, agentid |-> g, status |-> "sent", founds |-> {}, starttime |-> 1 + n]
           more == With(db.commands, 1 + n, row)
<1>1. db' = [db EXCEPT !.commands = more] /\ UNCHANGED <<pc, fetch>>
  BY DEF CommandSent
<1>2. Columns \subseteq DOMAIN row /\ row.starttime = 1 + n
  BY DEF Columns
<1>3. Numbered(db.commands) /\ n \in Nat /\ DOMAIN db.commands = 1..n
  BY DEF Fetched, FetchType, Numbered
<1> HIDE DEF row
<1>4. Numbered(more) /\ DOMAIN more = 1..(n + 1)
  <2>1. 1 + n = n + 1
    BY <1>3
  <2> QED
    BY <1>2, <1>3, <2>1, NumberedWith
<1> HIDE DEF more, n
<1>5. db'.commands = more
  BY <1>1 DEF TypeInv
<1>6. DOMAIN db.commands \subseteq DOMAIN db'.commands
  BY <1>3, <1>4, <1>5
<1> QED
  BY <1>1, <1>4, <1>5, <1>6 DEF Fetched, FetchType

LEMMA CommandFinishedFetches ==
  ASSUME TypeInv, Fetched, NEW c \in DOMAIN db.commands, NEW o \in Outcomes, CommandFinished(c, o) PROVE Fetched'
<1> DEFINE list == IF fetch.lists = << >> THEN << >> ELSE Head(fetch.lists)
           leaves == "status" \in DOMAIN list /\ db.commands[c].status \in list.status /\ o.status \notin list.status
<1>1. /\ db' = [db EXCEPT !.commands[c].status = o.status, !.commands[c].founds = o.founds]
      /\ fetch' = [fetch EXCEPT !.left = @ \/ leaves] /\ UNCHANGED pc
  BY DEF CommandFinished
<1>2. Numbered(db.commands) /\ DOMAIN fetch = Fields /\ Columns \subseteq DOMAIN db.commands[c]
  BY DEF Fetched, FetchType, Numbered
<1>3. /\ DOMAIN db'.commands = DOMAIN db.commands
      /\ \A d \in DOMAIN db.commands : DOMAIN db'.commands[d] = DOMAIN db.commands[d] /\ db'.commands[d].starttime = db.commands[d].starttime
  BY <1>1, <1>2 DEF TypeInv, Columns
<1>4. Numbered(db'.commands)
  BY <1>2, <1>3, NumberedSame
<1> HIDE DEF leaves
<1>5. /\ fetch'.lists = fetch.lists /\ fetch'.offset = fetch.offset /\ fetch'.got = fetch.got /\ fetch'.from = fetch.from
      /\ DOMAIN fetch' = Fields
  BY <1>1, <1>2 DEF Fields
<1> QED
  BY <1>1, <1>3, <1>4, <1>5 DEF Fetched, FetchType

LEMMA FetchedKeeps ==
  ASSUME TypeInv, Fetched, [ClientNext]_cvars PROVE Fetched'
<1>1. ASSUME Elsewhere PROVE Fetched'
  BY <1>1, FetchedOutside DEF Elsewhere
<1>2. CASE MigPost \/ Launch
  <2>1. pc \notin {"print", "list"} /\ UNCHANGED fetch
    BY <1>2 DEF MigPost, Launch
  <2>2. pc' \notin {"print", "list"} /\ db'.commands = db.commands
    <3>1. CASE MigPost
      <4>1. PostAction(a, "follow", "exit")
        BY <3>1 DEF MigPost
      <4> QED
        BY <4>1, PostReads DEF Reading
    <3>2. CASE Launch
      <4>1. \/ PostAction(Launched(Timed(a)), IF program.nofollow THEN "read" ELSE "follow", "exit")
            \/ UNCHANGED db /\ pc' = "exit"
        BY <3>2 DEF Launch, Goto
      <4> QED
        BY <4>1, PostReads DEF Reading
    <3> QED
      BY <1>2, <3>1, <3>2
  <2> QED
    BY <2>1, <2>2, FetchedOutside
<1>3. CASE MigPrint \/ (\E show \in {"all", "found", "notfound"} : ReaderList(show) \/ ReaderResults(show))
  <2>1. /\ pc' \in {"print", "list"} /\ UNCHANGED <<db, id>>
        /\ \E show : fetch' = Read(PrintActionResults(show)) \/ fetch' = Read(<<ShowFilter(show)>>)
    BY <1>3 DEF MigPrint, ReaderList, ReaderResults, Reader, Goto
  <2>2. PICK lists \in Seq(Lists) : lists # << >> /\ fetch' = Read(lists)
    BY <2>1, ResultListsAre
  <2> QED
    BY <2>1, <2>2, ReadFetches
<1>4. CASE MigStep
  <2>1. CASE MigPage
    <3>1. FetchPage("print", "printed", "exit")
      BY <2>1 DEF MigPage
    <3> QED
      BY <3>1, PageFetches
  <2> QED
    BY <1>1, <1>2, <1>3, <1>4, <2>1, ElsewhereSteps DEF MigStep
<1>5. CASE FollowStep \/ StopFollow \/ Interrupt \/ WaitInterrupt \/ SearchStep \/ Tick
  BY <1>1, <1>5, ElsewhereSteps
<1>6. CASE LauncherStep
  <2>1. CASE ConsoleStart
    <3>1. pc \notin {"print", "list"} /\ pc' \notin {"print", "list"} /\ UNCHANGED <<db, fetch>>
      BY <2>1 DEF ConsoleStart, Goto
    <3> QED
      BY <3>1, FetchedOutside
  <2> QED
    BY <1>1, <1>2, <1>6, <2>1, LauncherSteps
<1>7. CASE ReaderStep
  <2>1. CASE ReaderPage
    <3>1. FetchPage("list", "reader", "exit")
      BY <2>1 DEF ReaderPage
    <3> QED
      BY <3>1, PageFetches
  <2>2. CASE ReaderStart \/ ReaderCopy \/ Exit
    BY <1>1, <2>2, ElsewhereSteps
  <2> QED
    BY <1>3, <1>7, <2>1, <2>2 DEF ReaderStep
<1>8. CASE ServerStep
  <2>1. CASE ActionMoves
    <3>1. UNCHANGED <<pc, fetch>> /\ db'.commands = db.commands
      BY <2>1 DEF ActionMoves, TypeInv
    <3> QED
      BY <3>1, FetchedOutside
  <2> QED
    BY <1>8, <2>1, CommandSentFetches, CommandFinishedFetches DEF ServerStep
<1>9. CASE UNCHANGED cvars
  <2>1. UNCHANGED <<pc, fetch, db>>
    BY <1>9 DEF cvars
  <2> QED
    BY <2>1, FetchedOutside
<1> QED
  BY <1>4, <1>5, <1>6, <1>7, <1>8, <1>9 DEF ClientNext

--------------------------------------------------------------------------------
(* Requests, orders and time are spent within their bounds.                         *)
Places == {"start", "sign", "evaluate", "countdown", "post", "follow", "finish", "followed", "print", "printed",
           "launcher", "launch", "read", "reader", "list", "answered", "exit", "killed", "crashed"}
Counted ==
  pc \in Places /\ now \in 0..MaxTime /\ faults \in 0..MaxFaults /\ orders \in [{"launcher", "reader"} -> Nat]

OneLess(who) == orders[who] > 0 /\ orders' = [orders EXCEPT ![who] = @ - 1]
Spending ==
  /\ pc' \in Places \union {pc}
  /\ now' = now \/ (now < MaxTime /\ now' = now + 1)
  /\ UNCHANGED faults \/ \E method, r : Do(method, r)
  /\ UNCHANGED orders \/ OneLess("launcher") \/ OneLess("reader")

LEMMA SpendingKeeps ==
  ASSUME Counted, Spending PROVE Counted'
<1>1. now' \in 0..MaxTime
  BY ClientBounds DEF Counted, Spending
<1>2. faults' \in 0..MaxFaults
  <2>1. CASE UNCHANGED faults
    BY <2>1 DEF Counted
  <2>2. ASSUME NEW method, NEW r, Do(method, r) PROVE faults' \in 0..MaxFaults
    <3>1. PICK first \in Replies, second \in Replies :
            LET cost == (IF first = "answered" THEN 0 ELSE 1) + (IF second = "answered" THEN 0 ELSE 1) IN
            faults' = faults - cost /\ faults' >= 0
      BY <2>2 DEF Do
    <3> QED
      BY <3>1, ClientBounds DEF Counted
  <2> QED
    BY <2>1, <2>2 DEF Spending
<1>3. orders' \in [{"launcher", "reader"} -> Nat]
  <2>1. CASE UNCHANGED orders
    BY <2>1 DEF Counted
  <2>2. ASSUME NEW who \in {"launcher", "reader"}, OneLess(who) PROVE orders' \in [{"launcher", "reader"} -> Nat]
    BY <2>2 DEF Counted, OneLess
  <2> QED
    BY <2>1, <2>2 DEF Spending
<1>4. pc' \in Places
  BY DEF Counted, Spending
<1> QED
  BY <1>1, <1>2, <1>3, <1>4 DEF Counted

LEMMA MigSpends ==
  ASSUME MigStep \/ FollowStep \/ StopFollow \/ Interrupt \/ WaitInterrupt PROVE Spending
<1>1. CASE MigBuild \/ MigSign \/ MigCountdown \/ MigPrint
  BY <1>1 DEF MigBuild, MigSign, MigCountdown, MigPrint, Goto, Spending, Places
<1>2. CASE MigEvaluate
  BY <1>2 DEF MigEvaluate, Goto, Spending, Places
<1>3. CASE MigPost
  <2>1. UNCHANGED <<now, orders>> /\ (\E r : Do("POST", r)) /\ pc' \in {"follow", "exit"}
    BY <1>3 DEF MigPost, PostAction, Goto
  <2> QED
    BY <2>1 DEF Spending, Places
<1>4. CASE MigPage
  BY <1>4 DEF MigPage, FetchPage, Goto, Spending, Places
<1>5. CASE FollowTurn
  BY <1>5 DEF FollowTurn, FollowReturns, FollowFails, Goto, Spending, Places
<1>6. CASE FollowFinish
  BY <1>6 DEF FollowFinish, FollowReturns, FollowFails, Goto, Spending, Places
<1>7. CASE StopFollow \/ Interrupt \/ WaitInterrupt
  BY <1>7 DEF StopFollow, Interrupt, WaitInterrupt, Goto, Spending, Places
<1> QED
  BY <1>1, <1>2, <1>3, <1>4, <1>5, <1>6, <1>7 DEF MigStep, FollowStep

LEMMA LauncherSpends ==
  ASSUME LauncherStep PROVE Spending
<1>1. CASE AddOperation \/ CompressFalse \/ CompressTrue \/ SetName \/ Sign
  BY <1>1 DEF AddOperation, CompressFalse, CompressTrue, SetName, Sign, Launcher, Goto, Spending, OneLess, Places
<1>2. ASSUME NEW x, DelOperation(x) \/ SetTimes(x) \/ Load(x) PROVE Spending
  BY <1>2 DEF DelOperation, SetTimes, Load, Launcher, Spending, OneLess, Places
<1>3. ASSUME NEW t, SetTarget(t) PROVE Spending
  BY <1>3 DEF SetTarget, Launcher, Spending, OneLess, Places
<1>4. CASE LaunchEvaluate
  BY <1>4 DEF LaunchEvaluate, Goto, Spending, Places
<1>5. CASE LaunchAtOnce \/ ConsoleStart
  BY <1>5 DEF LaunchAtOnce, ConsoleStart, Goto, Spending, Places
<1>6. CASE Launch
  <2>1. /\ UNCHANGED <<now, orders>>
        /\ \/ PostAction(Launched(Timed(a)), IF program.nofollow THEN "read" ELSE "follow", "exit")
           \/ UNCHANGED faults /\ pc' = "exit"
    BY <1>6 DEF Launch, Goto
  <2>2. (UNCHANGED faults \/ \E r : Do("POST", r)) /\ pc' \in {"read", "follow", "exit"}
    BY <2>1 DEF PostAction, Goto
  <2> QED
    BY <2>1, <2>2 DEF Spending, Places
<1> QED
  BY <1>1, <1>2, <1>3, <1>4, <1>5, <1>6 DEF LauncherStep

LEMMA OthersSpend ==
  ASSUME ReaderStep \/ SearchStep \/ ServerStep \/ Tick \/ UNCHANGED cvars PROVE Spending
<1>1. CASE ReaderStart
  BY <1>1 DEF ReaderStart, Goto, Spending, Places
<1>2. CASE ReaderPage
  BY <1>2 DEF ReaderPage, FetchPage, Goto, Spending, Places
<1>3. CASE ReaderCopy \/ Exit
  BY <1>3 DEF ReaderCopy, Exit, Goto, Spending, OneLess, Places
<1>4. ASSUME NEW show, ReaderList(show) \/ ReaderResults(show) PROVE Spending
  BY <1>4 DEF ReaderList, ReaderResults, Reader, Goto, Spending, OneLess, Places
<1>5. CASE SearchStep
  BY <1>5 DEF SearchStep, ConsoleSearch, SearchRefused, ApiSearch, Goto, Spending, Places
<1>6. CASE ServerStep
  BY <1>6 DEF ServerStep, ActionMoves, CommandSent, CommandFinished, Spending
<1>7. CASE Tick
  BY <1>7 DEF Tick, Spending
<1>8. CASE UNCHANGED cvars
  BY <1>8 DEF cvars, Spending
<1> QED
  BY <1>1, <1>2, <1>3, <1>4, <1>5, <1>6, <1>7, <1>8 DEF ReaderStep

LEMMA CountedKeeps ==
  ASSUME Counted, [ClientNext]_cvars PROVE Counted'
BY MigSpends, LauncherSpends, OthersSpend, SpendingKeeps DEF ClientNext

--------------------------------------------------------------------------------
(* An action whose operations are not given has none.                               *)
Empty(x) == x.nil => DOMAIN x.ops = {}

LEMMA SameOperations ==
  ASSUME NEW x, NEW y, Empty(x), y.nil = x.nil, DOMAIN y.ops = DOMAIN x.ops PROVE Empty(y)
BY DEF Empty

LEMMA SigningKeeps ==
  ASSUME NEW x \in Actions, Empty(x) PROVE Empty(SignAction(CompressAction(x)))
<1> DEFINE ops == [i \in DOMAIN x.ops |->
              IF x.ops[i].want /\ ~x.ops[i].compressed THEN CompressOperationParam(x.ops[i]) ELSE x.ops[i]]
<1>1. CompressAction(x) = [x EXCEPT !.ops = ops] /\ DOMAIN ops = DOMAIN x.ops
  BY DEF CompressAction
<1> HIDE DEF ops
<1>2. DOMAIN CompressAction(x).ops = DOMAIN x.ops
  BY <1>1 DEF Actions
<1>3. CompressAction(x) \in Actions /\ CompressAction(x).nil = x.nil
  BY CompressIs
<1>4. SignAction(CompressAction(x)).nil = x.nil /\ SignAction(CompressAction(x)).ops = CompressAction(x).ops
  BY <1>3, SignIs
<1> QED
  BY <1>2, <1>4, SameOperations

LEMMA OtherActions ==
  ASSUME \/ MigEvaluate \/ MigCountdown \/ MigPost \/ MigPrint \/ MigPage \/ FollowStep \/ StopFollow \/ Interrupt \/ WaitInterrupt
         \/ LaunchEvaluate \/ LaunchAtOnce \/ (ReaderStep /\ ~ReaderCopy) \/ SearchStep \/ ServerStep \/ Tick \/ UNCHANGED cvars
  PROVE  UNCHANGED a
<1>1. CASE MigEvaluate \/ MigCountdown \/ MigPost \/ MigPrint
  BY <1>1 DEF MigEvaluate, MigCountdown, MigPost, MigPrint
<1>2. CASE MigPage \/ ReaderPage
  BY <1>2 DEF MigPage, ReaderPage, FetchPage
<1>3. CASE FollowStep \/ StopFollow \/ Interrupt \/ WaitInterrupt
  BY <1>3 DEF FollowStep, FollowTurn, FollowFinish, StopFollow, Interrupt, WaitInterrupt
<1>4. CASE LaunchEvaluate \/ LaunchAtOnce
  BY <1>4 DEF LaunchEvaluate, LaunchAtOnce
<1>5. CASE ReaderStart \/ Exit
  BY <1>5 DEF ReaderStart, Exit
<1>6. ASSUME NEW show, ReaderList(show) \/ ReaderResults(show) PROVE UNCHANGED a
  BY <1>6 DEF ReaderList, ReaderResults
<1>7. CASE SearchStep \/ ServerStep \/ Tick \/ UNCHANGED cvars
  BY <1>7 DEF SearchStep, ConsoleSearch, SearchRefused, ApiSearch, ServerStep, ActionMoves, CommandSent, CommandFinished, Tick, cvars
<1> QED
  BY <1>1, <1>2, <1>3, <1>4, <1>5, <1>6, <1>7 DEF ReaderStep

LEMMA EmptyKeeps ==
  ASSUME TypeInv, Empty(a), [ClientNext]_cvars PROVE Empty(a')
<1>1. a \in Actions
  BY DEF TypeInv
<1>2. CASE UNCHANGED a
  BY <1>2 DEF Empty
<1>3. CASE MigBuild
  <2>1. /\ program.mode = "mig" /\ program \in Programs
        /\ UNCHANGED a \/ a' = IF program.file # "" THEN Files[program.file] ELSE MigAction
    BY <1>3 DEF MigBuild, TypeInv
  <2>2. program.file \in DOMAIN Files \union {""}
    BY <2>1, InputsAreWellFormed
  <2>3. program.file # "" => Empty(Files[program.file])
    <3>1. \A f \in DOMAIN Files : Empty(Files[f])
      BY RequestsAreWellFormed DEF Empty
    <3> QED
      BY <2>2, <3>1
  <2>4. Empty(MigAction)
    <3> DEFINE ops == <<Operation("ping", program.compress)>>
               name == "mig"
               t == TargetFlag
    <3>1. MigAction = [NewAction EXCEPT !.name = name, !.target = t, !.ops = ops, !.nil = FALSE]
      BY DEF MigAction
    <3>2. NewAction \in Actions
      BY NewActionIs
    <3> HIDE DEF ops, name, t
    <3>3. MigAction.nil = FALSE
      BY <3>1, <3>2 DEF Actions
    <3> QED
      BY <3>3 DEF Empty
  <2> QED
    BY <1>2, <2>1, <2>3, <2>4
<1>4. CASE MigSign
  <2>1. UNCHANGED a \/ a' = SignAction(CompressAction(IF a.from = Zero THEN WithTimes(a) ELSE a))
    BY <1>4 DEF MigSign
  <2> DEFINE x == IF a.from = Zero THEN WithTimes(a) ELSE a
  <2>2. x \in Actions /\ Empty(x)
    BY <1>1, TimesAre DEF Empty
  <2> HIDE DEF x
  <2>3. Empty(SignAction(CompressAction(x)))
    BY <2>2, SigningKeeps
  <2> QED
    BY <1>2, <2>1, <2>3 DEF x
<1>5. CASE ConsoleStart
  <2>1. program.mode = "console" /\ program \in Programs /\ a' = program.action
    BY <1>5 DEF ConsoleStart, TypeInv
  <2> QED
    BY <2>1, RequestsAreWellFormed DEF Empty
<1>6. CASE AddOperation
  <2> DEFINE ops == Append(a.ops, Operation("ping", "compress" \in has))
  <2>1. a' = [a EXCEPT !.ops = ops, !.nil = FALSE]
    BY <1>6 DEF AddOperation
  <2> HIDE DEF ops
  <2>2. a'.nil = FALSE
    BY <1>1, <2>1 DEF Actions
  <2> QED
    BY <2>2 DEF Empty
<1>7. ASSUME NEW i \in DOMAIN a.ops, DelOperation(i) PROVE Empty(a')
  <2> DEFINE ops == RemoveAt(a.ops, i)
  <2>1. a' = [a EXCEPT !.ops = ops]
    BY <1>7 DEF DelOperation
  <2> HIDE DEF ops
  <2>2. a'.nil = a.nil
    BY <1>1, <2>1 DEF Actions
  <2> QED
    BY <1>7, <2>2 DEF Empty
<1>8. CASE CompressFalse
  <2> DEFINE f == [i \in DOMAIN a.ops |-> [DecompressOperationParam(a.ops[i]) EXCEPT !.want = FALSE]]
             none == << >>
  <2>1. a' = [a EXCEPT !.ops = f, !.sigs = none] /\ DOMAIN f = DOMAIN a.ops
    BY <1>8 DEF CompressFalse
  <2> HIDE DEF f, none
  <2>2. a'.nil = a.nil /\ a'.ops = f
    BY <1>1, <2>1 DEF Actions
  <2> QED
    BY <2>1, <2>2, SameOperations
<1>9. CASE CompressTrue
  <2> DEFINE f == [i \in DOMAIN a.ops |-> [a.ops[i] EXCEPT !.want = TRUE]]
  <2>1. a' = [a EXCEPT !.ops = f] /\ DOMAIN f = DOMAIN a.ops
    BY <1>9 DEF CompressTrue
  <2> HIDE DEF f
  <2>2. a'.nil = a.nil /\ a'.ops = f
    BY <1>1, <2>1 DEF Actions
  <2> QED
    BY <2>1, <2>2, SameOperations
<1>10. CASE SetName
  <2> DEFINE name == "named"
  <2>1. a' = [a EXCEPT !.name = name]
    BY <1>10 DEF SetName
  <2> HIDE DEF name
  <2>2. a'.nil = a.nil /\ a'.ops = a.ops
    BY <1>1, <2>1 DEF Actions
  <2> QED
    BY <2>2, SameOperations
<1>11. ASSUME NEW t, SetTarget(t) PROVE Empty(a')
  <2>1. a' = [a EXCEPT !.target = ResolveTargetMacro(t)]
    BY <1>11 DEF SetTarget
  <2>2. a'.nil = a.nil /\ a'.ops = a.ops
    BY <1>1, <2>1 DEF Actions
  <2> QED
    BY <2>2, SameOperations
<1>12. ASSUME NEW form, SetTimes(form) PROVE Empty(a')
  <2>1. a' = WithTimes(a) \/ a' = [a EXCEPT !.from = Zero]
    BY <1>12 DEF SetTimes
  <2>2. a'.nil = a.nil /\ a'.ops = a.ops
    BY <1>1, <2>1, TimesAre DEF Actions
  <2> QED
    BY <2>2, SameOperations
<1>13. ASSUME NEW f \in DOMAIN Files, Load(f) PROVE Empty(a')
  <2>1. a' = Files[f]
    BY <1>13 DEF Load
  <2> QED
    BY <2>1, RequestsAreWellFormed DEF Empty
<1>14. CASE Sign
  <2>1. UNCHANGED a \/ a' = SignAction(CompressAction(a))
    BY <1>14 DEF Sign
  <2> QED
    BY <1>1, <1>2, <2>1, SigningKeeps
<1>15. CASE Launch
  <2>1. a' = Launched(Timed(a))
    BY <1>15 DEF Launch
  <2>2. Timed(a) \in Actions /\ Empty(Timed(a))
    BY <1>1, TimesAre DEF Timed, Empty
  <2>3. a' = Timed(a) \/ a' = SignAction(CompressAction(Timed(a)))
    BY <2>1 DEF Launched
  <2> QED
    BY <2>2, <2>3, SigningKeeps
<1>16. CASE ReaderCopy
  <2> DEFINE none == << >>
  <2>1. a' = [a EXCEPT !.from = Zero, !.until = Zero, !.sigs = none]
    BY <1>16 DEF ReaderCopy
  <2> HIDE DEF none
  <2>2. a'.nil = a.nil /\ a'.ops = a.ops
    BY <1>1, <2>1 DEF Actions
  <2> QED
    BY <2>2, SameOperations
<1>17. CASE MigStep
  BY <1>2, <1>3, <1>4, <1>17, OtherActions DEF MigStep
<1>18. CASE LauncherStep
  BY <1>2, <1>5, <1>6, <1>7, <1>8, <1>9, <1>10, <1>11, <1>12, <1>13, <1>14, <1>15, <1>18, OtherActions DEF LauncherStep
<1>19. CASE ReaderStep
  BY <1>2, <1>16, <1>19, OtherActions
<1> QED
  BY <1>2, <1>17, <1>18, <1>19, OtherActions DEF ClientNext

--------------------------------------------------------------------------------
(* The actions that are followed and read are there.                                *)
Identified ==
  /\ DOMAIN follow = {"id", "status", "attempts", "cancel"}
  /\ id \in DOMAIN db.actions \union {0} /\ follow.id \in DOMAIN db.actions \union {0}

LEMMA IdsStay ==
  ASSUME Identified, DOMAIN db.actions \subseteq DOMAIN db'.actions, id' \in {id, 0}, UNCHANGED follow PROVE Identified'
BY DEF Identified

LEMMA PostIdentifies ==
  ASSUME TypeInv, Identified, NEW x, NEW accepted, NEW refused, PostAction(x, accepted, refused) PROVE Identified'
<1>1. ASSUME InsertAction(x) PROVE DOMAIN db'.actions = DOMAIN db.actions \union {NewId}
  <2> DEFINE row == [name |-> 1, family |-> 1, status |-> "pending", validfrom |-> x.from, expireafter |-> x.until]
             added == With(db.actions, NewId, row)
  <2>1. db' = [db EXCEPT !.actions = added, !.signatures = @ \union {<<NewId, 1>>}]
    BY <1>1 DEF InsertAction
  <2>2. DOMAIN added = DOMAIN db.actions \union {NewId}
    BY DEF With
  <2> HIDE DEF added
  <2>3. db'.actions = added
    BY <2>1 DEF TypeInv
  <2> QED
    BY <2>2, <2>3
<1>2. \/ InsertAction(x) /\ id' = NewId /\ follow' = [id |-> NewId, status |-> "", attempts |-> 0, cancel |-> FALSE]
      \/ InsertAction(x) /\ id' = 0 /\ UNCHANGED follow
      \/ UNCHANGED <<db, follow>> /\ id' = 0
  BY DEF PostAction
<1>3. CASE InsertAction(x) /\ id' = NewId /\ follow' = [id |-> NewId, status |-> "", attempts |-> 0, cancel |-> FALSE]
  <2> PICK n : n = NewId
    OBVIOUS
  <2>1. follow'.id = n /\ DOMAIN follow' = {"id", "status", "attempts", "cancel"}
    BY <1>3
  <2> QED
    BY <1>1, <1>3, <2>1 DEF Identified
<1>4. CASE InsertAction(x) /\ id' = 0 /\ UNCHANGED follow
  BY <1>1, <1>4, IdsStay
<1>5. CASE UNCHANGED <<db, follow>> /\ id' = 0
  BY <1>5, IdsStay
<1> QED
  BY <1>2, <1>3, <1>4, <1>5

LEMMA FollowIdentifies ==
  ASSUME Identified, FollowStep \/ StopFollow PROVE Identified'
<1>1. UNCHANGED <<db, id>>
  BY DEF FollowStep, FollowTurn, FollowFinish, StopFollow
<1>2. /\ \/ UNCHANGED follow
         \/ \E status : follow' = [follow EXCEPT !.status = status]
         \/ follow' = [follow EXCEPT !.id = 0, !.attempts = @ + 1]
         \/ follow' = [follow EXCEPT !.cancel = TRUE]
  BY DEF FollowStep, FollowTurn, FollowFinish, StopFollow
<1>3. DOMAIN follow' = DOMAIN follow /\ follow'.id \in {follow.id, 0}
  BY <1>2 DEF Identified
<1> QED
  BY <1>1, <1>3 DEF Identified

LEMMA OtherIds ==
  ASSUME \/ MigBuild \/ MigSign \/ MigEvaluate \/ MigCountdown \/ MigPrint \/ MigPage \/ Interrupt \/ WaitInterrupt
         \/ ReaderStep \/ SearchStep \/ Tick \/ UNCHANGED cvars
  PROVE  UNCHANGED <<db, follow>> /\ id' \in {id, 0}
<1>1. CASE MigBuild \/ MigSign \/ MigEvaluate \/ MigCountdown \/ MigPrint
  BY <1>1 DEF MigBuild, MigSign, MigEvaluate, MigCountdown, MigPrint
<1>2. CASE MigPage \/ ReaderPage
  BY <1>2 DEF MigPage, ReaderPage, FetchPage
<1>3. CASE Interrupt \/ WaitInterrupt \/ Tick \/ UNCHANGED cvars
  BY <1>3 DEF Interrupt, WaitInterrupt, Tick, cvars
<1>4. CASE ReaderStart \/ ReaderCopy \/ Exit
  BY <1>4 DEF ReaderStart, ReaderCopy, Exit
<1>5. ASSUME NEW show, ReaderList(show) \/ ReaderResults(show) PROVE UNCHANGED <<db, follow>> /\ id' \in {id, 0}
  BY <1>5 DEF ReaderList, ReaderResults, Reader
<1>6. CASE SearchStep
  BY <1>6 DEF SearchStep, ConsoleSearch, SearchRefused, ApiSearch
<1> QED
  BY <1>1, <1>2, <1>3, <1>4, <1>5, <1>6 DEF ReaderStep

LEMMA LauncherIds ==
  ASSUME LauncherStep, ~ConsoleStart, ~Launch PROVE UNCHANGED <<db, follow, id>>
<1>1. CASE AddOperation \/ CompressFalse \/ CompressTrue \/ SetName \/ Sign
  BY <1>1 DEF AddOperation, CompressFalse, CompressTrue, SetName, Sign, Launcher
<1>2. ASSUME NEW x, DelOperation(x) \/ SetTarget(x) \/ SetTimes(x) \/ Load(x) PROVE UNCHANGED <<db, follow, id>>
  BY <1>2 DEF DelOperation, SetTarget, SetTimes, Load, Launcher
<1>3. CASE LaunchEvaluate \/ LaunchAtOnce
  BY <1>3 DEF LaunchEvaluate, LaunchAtOnce
<1> QED
  BY <1>1, <1>2, <1>3 DEF LauncherStep

LEMMA IdentifiedKeeps ==
  ASSUME TypeInv, pc = "start" => db = Tables, Identified, [ClientNext]_cvars PROVE Identified'
<1>1. CASE MigPost
  BY <1>1, PostIdentifies DEF MigPost
<1>2. CASE Launch
  <2>1. \/ PostAction(Launched(Timed(a)), IF program.nofollow THEN "read" ELSE "follow", "exit")
        \/ UNCHANGED <<db, id, follow>>
    BY <1>2 DEF Launch
  <2> QED
    BY <2>1, PostIdentifies, IdsStay
<1>3. CASE ConsoleStart
  <2>1. /\ pc = "start" /\ program.mode = "console" /\ program \in Programs /\ id' = program.id
        /\ UNCHANGED <<db, follow>>
    BY <1>3 DEF ConsoleStart, TypeInv
  <2>2. id' \in DOMAIN db'.actions \union {0}
    BY <2>1, RequestsAreWellFormed
  <2> QED
    BY <2>1, <2>2 DEF Identified
<1>4. CASE LauncherStep
  BY <1>2, <1>3, <1>4, LauncherIds, IdsStay
<1>5. CASE MigStep
  BY <1>1, <1>5, OtherIds, IdsStay DEF MigStep
<1>6. CASE FollowStep \/ StopFollow
  BY <1>6, FollowIdentifies
<1>7. CASE Interrupt \/ WaitInterrupt \/ ReaderStep \/ SearchStep \/ Tick \/ UNCHANGED cvars
  BY <1>7, OtherIds, IdsStay
<1>8. CASE ServerStep
  <2>1. UNCHANGED <<id, follow>>
    BY <1>8 DEF ServerStep, ActionMoves, CommandSent, CommandFinished
  <2>2. DOMAIN db'.actions = DOMAIN db.actions
    BY <1>8, ServerIsInert DEF Inert, Quiet
  <2> QED
    BY <2>1, <2>2, IdsStay
<1> QED
  BY <1>4, <1>5, <1>6, <1>7, <1>8 DEF ClientNext

--------------------------------------------------------------------------------
(* Types, and what is found.                                                        *)
TypeGood == Untouched /\ answer.code \in Codes /\ Fetched /\ Counted /\ Empty(a) /\ Identified

LEMMA TypeOKHolds ==
  ASSUME TypeInv, TypeGood PROVE TypeOK
<1>1. a \in Actions /\ Empty(a)
  BY DEF TypeInv, TypeGood
<1>2. a.nil => a.ops = << >>
  <2>1. a.ops \in Seq(Operations)
    BY <1>1, ActionFields
  <2>2. Len(a.ops) \in Nat /\ DOMAIN a.ops = 1..Len(a.ops)
    BY <2>1, LenProperties
  <2>3. DOMAIN a.ops = {} => Len(a.ops) = 0
    <3> PICK n : n = Len(a.ops)
      OBVIOUS
    <3>1. n # 0 => 1 \in 1..n
      BY <2>2
    <3> QED
      BY <2>2, <3>1
  <2>4. Len(a.ops) = 0 => a.ops = << >>
    BY <2>1, EmptySeq
  <2> QED
    BY <1>1, <2>3, <2>4 DEF Empty
<1>3. has \subseteq {"times", "signatures", "target", "compress"}
  BY DEF TypeInv, Flags
<1>4. pc \in Places /\ now \in 0..MaxTime /\ faults \in 0..MaxFaults /\ orders \in [{"launcher", "reader"} -> Nat]
  BY DEF TypeGood, Counted
<1>5. id \in DOMAIN db.actions \union {0} /\ follow.id \in DOMAIN db.actions \union {0}
  BY DEF TypeGood, Identified
<1>6. fetch.got \subseteq DOMAIN db.commands /\ fetch.from \subseteq DOMAIN db.commands
  BY DEF TypeGood, Fetched
<1>7. answer.code \in {0, 200, 404, 500}
  BY DEF TypeGood, Codes
<1> QED
  BY <1>2, <1>3, <1>4, <1>5, <1>6, <1>7 DEF TypeOK, Places

LEMMA TypesAtStart ==
  ASSUME ClientInit PROVE TypeGood
<1>1. Untouched /\ answer.code \in Codes
  BY DEF ClientInit, Untouched, Codes
<1>2. Fetched
  <2>1. PageInv
    BY PageStart
  <2>2. fetch.got = {} /\ fetch.from = {}
    BY DEF ClientInit, NoFetch
  <2> QED
    BY <2>1, <2>2 DEF PageInv, Fetched
<1>3. Counted
  <2>1. pc = "start" /\ now = 0 /\ faults = MaxFaults /\ program \in Programs
        /\ orders = IF program.mode = "console" THEN program.orders ELSE [launcher |-> 0, reader |-> 0]
    BY DEF ClientInit
  <2>2. orders \in [{"launcher", "reader"} -> Nat]
    <3>1. program.mode = "console" => program.orders \in [{"launcher", "reader"} -> Nat]
      BY <2>1, RequestsAreWellFormed
    <3>2. [launcher |-> 0, reader |-> 0] \in [{"launcher", "reader"} -> Nat]
      OBVIOUS
    <3> QED
      BY <2>1, <3>1, <3>2
  <2> QED
    BY <2>1, <2>2, ClientBounds DEF Counted, Places
<1>4. Empty(a)
  <2>1. a = NewAction
    BY DEF ClientInit
  <2> QED
    BY <2>1, NewActionIs DEF Empty
<1>5. Identified
  BY DEF ClientInit, Identified
<1> QED
  BY <1>1, <1>2, <1>3, <1>4, <1>5 DEF TypeGood

LEMMA TypesKeep ==
  ASSUME TypeInv, TypeGood, [ClientNext]_cvars PROVE TypeGood'
<1>1. Untouched' /\ answer'.code \in Codes
  BY UntouchedKeeps, CodesKeep DEF TypeGood
<1>2. Fetched'
  BY FetchedKeeps DEF TypeGood
<1>3. Counted'
  BY CountedKeeps DEF TypeGood
<1>4. Empty(a)'
  <2>1. Empty(a')
    BY EmptyKeeps DEF TypeGood
  <2> QED
    BY <2>1 DEF Empty
<1>5. Identified'
  BY IdentifiedKeeps DEF TypeGood, Untouched
<1> QED
  BY <1>1, <1>2, <1>3, <1>4, <1>5 DEF TypeGood

(* The programs and the tables stay as they are typed: in particular, actions that are *)
(* followed or read, and commands that were got, are rows, whatever happens meanwhile. *)
THEOREM TypeCorrect == ClientSpec => []TypeOK
<1>1. ClientInit => TypeGood
  BY TypesAtStart
<1>2. TypeInv /\ TypeGood /\ [ClientNext]_cvars => TypeGood'
  BY TypesKeep
<1>3. TypeInv /\ TypeGood => TypeOK
  BY TypeOKHolds
<1> QED
  BY <1>1, <1>2, <1>3, AlwaysPrepared, PTL DEF ClientSpec

(* A search returns exactly what its filters mean, fails only for a reason that lies in *)
(* the request, and its next page goes on with it. The searches that begin at the     *)
(* first row have limits that are not below the size of a table.                      *)
THEOREM SearchExact ==
  ASSUME LimitsCover PROVE ClientSpec => []SearchIsExact
<1>1. ClientInit => SearchInv
  BY DEF ClientInit, SearchInv, Untouched, Judged
<1>2. TypeInv /\ SearchInv /\ [ClientNext]_cvars => SearchInv'
  BY SearchKeeps
<1>3. TypeOK /\ SearchInv => SearchIsExact
  BY JudgedIs DEF SearchInv, SearchIsExact
<1> QED
  BY <1>1, <1>2, <1>3, AlwaysPrepared, TypeCorrect, PTL DEF ClientSpec
================================================================================
