------------------------------- MODULE Searches -------------------------------
(* Searches: a query string becomes search parameters, the parameters become  *)
(* one statement over joined tables, and the rows become one page of an       *)
(* answer. A parameter is the set of the column values that it accepts (one   *)
(* identifier, the names a pattern matches, the times up to a date), and it   *)
(* is left out of p.filters when it was not given. Names are numbers, so that *)
(* they have an order.                                                        *)
EXTENDS Integers, Sequences, FiniteSets, SequencesExt

CONSTANTS
  DefaultLimit, \* of the results of a search
  Matches       \* the agents that meet a target

VARIABLE db \* the tables: name -> id -> row; signatures is a set of pairs

Malformed == {}   \* an identifier, a date or a boolean that cannot be parsed
NoNumber == -1    \* a limit or an offset that cannot be parsed

Failed == [ok |-> FALSE, rows |-> << >>]
Found(rows) == [ok |-> TRUE, rows |-> rows]

(* --- parameters ---------------------------------------------------------------- *)

NewParameters == [type |-> "action", filters |-> << >>, limit |-> DefaultLimit, offset |-> 0,
                  target |-> "", zoned |-> {}]

Given(p) == DOMAIN p.filters

(* String() makes the query string, a function from keys to values. It        *)
(* encodes every + as a wildcard, also the one of a time zone in p.zoned, and *)
(* has no line for foundanything and target.                                  *)
String(p) ==
  [k \in (Given(p) \ {"foundanything"}) \union {"type", "limit"} \union (IF p.offset # 0 THEN {"offset"} ELSE {}) |->
     CASE k = "type" -> p.type [] k = "limit" -> p.limit [] k = "offset" -> p.offset
       [] k \in p.zoned -> Malformed [] OTHER -> p.filters[k]]

(* parseSearchParameters; identifiers are parsed later.                       *)
FilterKeys == {"actionid", "actionname", "after", "agentid", "agentname", "agentversion", "before",
               "commandid", "foundanything", "investigatorid", "investigatorname", "loaderid", "loadername",
               "manifestid", "manifestname", "status", "threatfamily"}
ParseSearchParameters(q) ==
  LET p == NewParameters
      parsed(k, default) == IF k \in DOMAIN q THEN q[k] ELSE default
  IN [ok |-> /\ \A k \in DOMAIN q \intersect {"after", "before", "foundanything"} : q[k] # Malformed
             /\ parsed("limit", p.limit) # NoNumber /\ parsed("offset", p.offset) # NoNumber,
      p |-> [type |-> parsed("type", p.type), filters |-> [k \in DOMAIN q \intersect FilterKeys |-> q[k]],
             limit |-> parsed("limit", p.limit), offset |-> parsed("offset", p.offset),
             target |-> parsed("target", p.target), zoned |-> {}]]

(* makeIDsFromParams returns at the first identifier that is no number: that  *)
(* one has the full range, and the ones after it the range 0..0.              *)
IdOrder == <<"actionid", "commandid", "agentid", "investigatorid", "manifestid", "loaderid">>
BadIds(p) == {i \in DOMAIN IdOrder : IdOrder[i] \in Given(p) /\ p.filters[IdOrder[i]] = Malformed}
MakeIDsFromParams(p, k, ids) ==
  LET i == CHOOSE j \in DOMAIN IdOrder : IdOrder[j] = k
  IN IF BadIds(p) = {} \/ i < Min(BadIds(p)) THEN p.filters[k]
     ELSE IF i = Min(BadIds(p)) THEN ids ELSE {0}

(* --- one statement ---------------------------------------------------------------- *)

(* A parameter is compared with a column of a table, and joins tables.        *)
Col(table, column, joins) == [table |-> table, column |-> column, joins |-> joins]

(* A table can be joined when the table it refers to is.                      *)
Chain == <<"agents", "commands", "actions", "investigators">>
Joinable(tables) ==
  \A i, j, k \in DOMAIN Chain : i < j /\ j < k /\ Chain[i] \in tables /\ Chain[k] \in tables => Chain[j] \in tables

(* The rows of the joined tables: a command has one action and one agent, and *)
(* an action the investigators of its signatures.                             *)
SignersOf(i) == {s[2] : s \in {x \in db.signatures : x[1] = i}}
Row(tables, c, i) ==
  [t \in tables |-> CASE t = "commands" -> c [] t = "actions" -> db.commands[c].actionid
                      [] t = "agents" -> db.commands[c].agentid [] t = "investigators" -> i]
Joined(tables) ==
  IF Cardinality(tables) = 1 THEN UNION {[tables -> {i}] : i \in UNION {DOMAIN db[t] : t \in tables}}
  ELSE IF "commands" \notin tables
  THEN {[t \in tables |-> IF t = "actions" THEN s[1] ELSE s[2]] : s \in db.signatures}
  ELSE UNION {{Row(tables, c, i) : i \in IF "investigators" \in tables THEN SignersOf(db.commands[c].actionid) ELSE {0}} :
                c \in DOMAIN db.commands}

Value(r, c) == IF c.column = "id" THEN r[c.table] ELSE db[c.table][r[c.table]][c.column]

(* A command has found something, or nothing, when it succeeded and one of    *)
(* its results says so.                                                       *)
Accepts(r, c, values) ==
  IF c.column # "founds" THEN Value(r, c) \in values
  ELSE db.commands[r["commands"]].status = "success" /\ Value(r, c) \intersect values # {}

(* F(x), where TLC evaluates x once.                                          *)
Apply(F(_), x) == CHOOSE y \in {F(v) : v \in {x}} : TRUE

(* The rows of base that the statement selects; without any condition it is   *)
(* no statement, nor when it names a table that is not there.                 *)
Select(base, fixed, where, filters) ==
  LET conditions == DOMAIN where \intersect DOMAIN filters
      valid(tables) == /\ conditions # {} /\ Joinable(tables)
                       /\ \A k \in conditions : where[k].table \in tables
      selected(tables) == {r[base] : r \in {j \in Joined(tables) :
                             \A k \in conditions : Accepts(j, where[k], filters[k])}}
      statement(tables) == [ok |-> valid(tables), rows |-> IF valid(tables) THEN selected(tables) ELSE {}]
  IN Apply(statement, fixed \union UNION {where[k].joins : k \in conditions})

Newest(table, column) == [table |-> table, column |-> column, sign |-> -1]
Ascending(table, column) == [table |-> table, column |-> column, sign |-> 1]
Key(i, o) == o.sign * (IF o.column = "id" THEN i ELSE db[o.table][i][o.column])
Before(i, set, o) == {j \in set : Key(j, o) < Key(i, o)}

(* The k-th row is the one that k - 1 rows come before: no two rows have the  *)
(* same place.                                                                *)
Sorted(ids, o) ==
  LET sort(set) == [k \in 1..Cardinality(set) |-> CHOOSE i \in set : Cardinality(Before(i, set, o)) = k - 1]
  IN Apply(sort, ids)

(* LIMIT and OFFSET.                                                          *)
Slice(rows, p) ==
  LET slice(s) == SubSeq(s, p.offset + 1, Min({p.offset + p.limit, Len(s)}))
  IN Apply(slice, rows)

(* --- the statement of each search --------------------------------------------- *)

CommandWhere ==
  [before |-> Col("commands", "starttime", {}), after |-> Col("commands", "starttime", {}),
   commandid |-> Col("commands", "id", {}), status |-> Col("commands", "status", {}),
   actionid |-> Col("actions", "id", {}), actionname |-> Col("actions", "name", {}),
   investigatorid |-> Col("investigators", "id", {}), investigatorname |-> Col("investigators", "name", {}),
   agentid |-> Col("agents", "id", {}), agentname |-> Col("agents", "name", {}),
   agentversion |-> Col("agents", "version", {}), threatfamily |-> Col("actions", "family", {}),
   foundanything |-> Col("commands", "founds", {})]

(* The tables are always joined, investigators by the signatures.             *)
SearchCommands(p) ==
  LET s == Select("commands", {"commands", "actions", "investigators", "agents"}, CommandWhere, p.filters)
  IN IF BadIds(p) # {} \/ ~s.ok THEN Failed
     ELSE Found(Slice(Sorted(s.rows, Newest("commands", "starttime")), p))

Signed == {"investigators"}
RanOn == {"commands", "agents"}

(* The statement calls its table "action" where it compares the status.       *)
ActionWhere ==
  [before |-> Col("actions", "expireafter", {}), after |-> Col("actions", "validfrom", {}),
   status |-> Col("action", "status", {}),
   actionid |-> Col("actions", "id", {}), actionname |-> Col("actions", "name", {}),
   threatfamily |-> Col("actions", "family", {}),
   investigatorid |-> Col("investigators", "id", Signed), investigatorname |-> Col("investigators", "name", Signed),
   agentid |-> Col("agents", "id", RanOn), agentname |-> Col("agents", "name", RanOn),
   agentversion |-> Col("agents", "version", RanOn), commandid |-> Col("commands", "id", {"commands"})]

SearchActions(p) ==
  LET s == Select("actions", {"actions"}, ActionWhere, p.filters)
  IN IF BadIds(p) # {} \/ ~s.ok THEN Failed
     ELSE Found(Slice(Sorted(s.rows, Newest("actions", "validfrom")), p))

(* Mutant: the investigators are joined too.                                  *)
RanAndSigned == {"commands", "actions", "investigators"}

Ran == {"commands", "actions"}
RanSigned == {"commands", "actions", "investigators"}

AgentWhere ==
  [before |-> Col("agents", "heartbeattime", {}), after |-> Col("agents", "heartbeattime", {}),
   agentid |-> Col("agents", "id", {}), agentname |-> Col("agents", "name", {}),
   agentversion |-> Col("agents", "version", {}), status |-> Col("agents", "status", {}),
   actionid |-> Col("actions", "id", Ran), actionname |-> Col("actions", "name", Ran),
   threatfamily |-> Col("actions", "family", Ran),
   investigatorid |-> Col("investigators", "id", RanSigned), investigatorname |-> Col("investigators", "name", RanSigned),
   commandid |-> Col("commands", "id", {"commands"})]

SearchAgents(p) ==
  LET s == Select("agents", {"agents"}, AgentWhere, p.filters)
  IN IF BadIds(p) # {} \/ ~s.ok THEN Failed
     ELSE Found(Slice(Sorted(s.rows, Newest("agents", "heartbeattime")), p))

SignedFor == {"actions"}
SignedRun == {"actions", "commands"}
SignedRanOn == {"actions", "commands", "agents"}

InvestigatorWhere ==
  [before |-> Col("investigators", "lastmodified", {}), after |-> Col("investigators", "lastmodified", {}),
   investigatorid |-> Col("investigators", "id", {}), investigatorname |-> Col("investigators", "name", {}),
   status |-> Col("investigators", "status", {}),
   actionid |-> Col("actions", "id", SignedFor), actionname |-> Col("actions", "name", SignedFor),
   threatfamily |-> Col("actions", "family", SignedFor), commandid |-> Col("commands", "id", SignedRun),
   agentid |-> Col("agents", "id", SignedRanOn), agentname |-> Col("agents", "name", SignedRanOn),
   agentversion |-> Col("agents", "version", SignedRanOn)]

SearchInvestigators(p) ==
  LET s == Select("investigators", {"investigators"}, InvestigatorWhere, p.filters)
  IN IF BadIds(p) # {} \/ ~s.ok THEN Failed
     ELSE Found(Slice(Sorted(s.rows, Ascending("investigators", "id")), p))

(* Two searches of one table, without pages; the error of makeIDsFromParams   *)
(* is overwritten.                                                            *)
ManifestWhere ==
  [before |-> Col("manifests", "timestamp", {}), after |-> Col("manifests", "timestamp", {}),
   manifestname |-> Col("manifests", "name", {}), manifestid |-> Col("manifests", "id", {}),
   status |-> Col("manifests", "status", {})]

SearchManifests(p) ==
  LET filters == [k \in Given(p) |-> IF k = "manifestid" THEN MakeIDsFromParams(p, k, DOMAIN db.manifests)
                                     ELSE p.filters[k]]
      s == Select("manifests", {"manifests"}, ManifestWhere, filters)
  IN IF ~s.ok THEN Failed ELSE Found(Sorted(s.rows, Newest("manifests", "timestamp")))

LoaderWhere ==
  [before |-> Col("loaders", "lastseen", {}), after |-> Col("loaders", "lastseen", {}),
   loadername |-> Col("loaders", "loadername", {}), agentname |-> Col("loaders", "name", {}),
   loaderid |-> Col("loaders", "id", {})]

SearchLoaders(p) ==
  LET filters == [k \in Given(p) |-> IF k = "loaderid" THEN MakeIDsFromParams(p, k, DOMAIN db.loaders)
                                     ELSE p.filters[k]]
      s == Select("loaders", {"loaders"}, LoaderWhere, filters)
  IN IF ~s.ok THEN Failed ELSE Found(Sorted(s.rows, Ascending("loaders", "loadername")))

(* The active agents that meet a target, a condition in SQL; of the agents    *)
(* with the same queue one is taken. No answer when it is no condition.       *)
ActiveAgentsByTarget(target) ==
  LET active == {g \in DOMAIN db.agents : db.agents[g].status \in {"online", "idle"} /\ g \in Matches[target]}
      taken == {g \in active : \A h \in active : db.agents[h].queueloc = db.agents[g].queueloc => g <= h}
  IN IF target \notin DOMAIN Matches THEN Failed ELSE Found(Sorted(taken, Ascending("agents", "queueloc")))

(* --- the endpoint ------------------------------------------------------------------ *)

Dispatch(p) ==
  CASE p.type = "action" -> SearchActions(p)
    [] p.type = "agent" -> IF p.target # "" THEN ActiveAgentsByTarget(p.target) ELSE SearchAgents(p)
    [] p.type = "command" -> SearchCommands(p)
    [] p.type = "investigator" -> SearchInvestigators(p)
    [] p.type = "manifest" -> SearchManifests(p)
    [] p.type = "loader" -> SearchLoaders(p)
    [] OTHER -> Failed

(* The loop over the rows leaves after it has added row number limit + 1,     *)
(* counted from 0.                                                            *)
Items(rows, limit) == SubSeq(rows, 1, Min({Len(rows), limit + 2}))

NextPage(p) == IF p.offset > 0 THEN String([p EXCEPT !.offset = @ + p.limit]) ELSE << >>

Respond(parsed, result) ==
  LET answer(s) == IF ~parsed.ok \/ ~s.ok THEN [code |-> 500, items |-> << >>, next |-> << >>]
                   ELSE IF s.rows = << >> THEN [code |-> 404, items |-> << >>, next |-> << >>]
                   ELSE [code |-> 200, items |-> Items(s.rows, parsed.p.limit), next |-> NextPage(parsed.p)]
  IN Apply(answer, result)

Search(q) ==
  LET answer(parsed) == Respond(parsed, Dispatch(parsed.p))
  IN Apply(answer, ParseSearchParameters(q))
================================================================================
