-------------------------------- MODULE Client --------------------------------
(* The programs of an investigator: mig, which makes, launches and follows    *)
(* one action and prints its results, and mig-console with its action         *)
(* launcher, its action reader and its searches. They ask the API, whose      *)
(* answers may fail; meanwhile the scheduler sends and finishes commands, in  *)
(* the steps that CommandLifecycle allows.                                    *)
EXTENDS Searches

CONSTANTS
  Programs,     \* what is started, with its options
  Targets,      \* targets a user types
  Macros,       \* the macros of the configuration: what is typed -> a target
  Files,        \* actions in files
  Texts,        \* what names, targets, modules and keys can be
  MyKey,        \* the key of the user
  KnownKeys,    \* the keys in the API's keyring
  Tables,       \* the database at the start
  Outcomes,     \* how a command ends: [status, founds]
  Period, Grace, MaxAttempts, PageLimit,
  MaxTime, MaxFaults \* bounds of the model

ASSUME ClientBounds ==
  /\ Period \in Nat /\ Grace \in Nat /\ MaxAttempts \in Nat \ {0} /\ PageLimit \in Nat \ {0}
  /\ MaxTime \in Nat /\ MaxFaults \in Nat

(* What a user types, a file or the API holds as an action, and what is       *)
(* signed of it.                                                              *)
Operations == [module : Texts, want : BOOLEAN, compressed : BOOLEAN]
SignedParts == [name : Texts, target : Texts, ops : Seq(Operations), nil : BOOLEAN, from : Int, until : Int]
Actions ==
  [name : Texts, target : Texts, ops : Seq(Operations), nil : BOOLEAN, from : Int, until : Int,
   sigs : Seq([key : Texts, over : SignedParts])]

Zero == -1
NewAction == [name |-> "", target |-> "", ops |-> << >>, nil |-> TRUE, from |-> Zero, until |-> Zero, sigs |-> << >>]

(* mig makes its action of its options or a file; the console starts with an  *)
(* empty action or one of the table.                                          *)
ASSUME InputsAreWellFormed ==
  /\ {"", "mig", "named", "ping", "status='online'", MyKey} \subseteq Texts /\ Targets \subseteq Texts
  /\ \A t \in DOMAIN Macros : Macros[t] \in Texts
  /\ \A f \in DOMAIN Files : Files[f] \in Actions
  /\ \A p \in Programs :
       /\ p.mode = "mig" => p.target \in Texts /\ p.compress \in BOOLEAN /\ p.file \in DOMAIN Files \union {""}
       /\ p.mode = "console" => p.action \in Actions /\ (p.id = 0 => p.action = NewAction)
  /\ {"actions", "signatures", "commands"} \subseteq DOMAIN Tables

(* Commands are numbered, and started at different times, in the past.        *)
Columns == {"actionid", "status", "founds", "starttime"}
Numbered(commands) ==
  LET n == Cardinality(DOMAIN commands) IN
  /\ n \in Nat /\ DOMAIN commands = 1..n
  /\ \A c \in 1..n : Columns \subseteq DOMAIN commands[c] /\ commands[c].starttime \in Int /\ commands[c].starttime <= n
  /\ \A c, d \in 1..n : c # d => commands[c].starttime # commands[d].starttime

ASSUME CommandsAreNumbered == Numbered(Tables.commands)

(* Rows refer to rows, by the foreign keys of the schema, and no two rows of  *)
(* a table have the same value in the column that it is sorted by.            *)
SortedBy == [agents |-> "heartbeattime", commands |-> "starttime", actions |-> "validfrom", investigators |-> "id",
             manifests |-> "timestamp", loaders |-> "loadername"]
SortValue(t, i) == IF SortedBy[t] = "id" THEN i ELSE Tables[t][i][SortedBy[t]]

ASSUME TablesAreConsistent ==
  /\ DOMAIN SortedBy \subseteq DOMAIN Tables
  /\ \A t \in DOMAIN SortedBy :
       /\ IsFiniteSet(DOMAIN Tables[t]) /\ \A i \in DOMAIN Tables[t] : SortValue(t, i) \in Int
       /\ \A i, j \in DOMAIN Tables[t] : i # j => SortValue(t, i) # SortValue(t, j)
  /\ \A c \in DOMAIN Tables.commands :
       Tables.commands[c].actionid \in DOMAIN Tables.actions /\ Tables.commands[c].agentid \in DOMAIN Tables.agents
  /\ \A s \in Tables.signatures : s[1] \in DOMAIN Tables.actions /\ s[2] \in DOMAIN Tables.investigators

(* A search has one of the types, times are zoned in dates only, limits and   *)
(* offsets are numbers; the console reads actions of the table. An action     *)
(* whose operations are not given has none.                                   *)
Kinds == {"action", "command", "agent", "investigator", "manifest", "loader"}

ASSUME RequestsAreWellFormed ==
  /\ DefaultLimit \in Nat
  /\ \A f \in DOMAIN Files : Files[f].nil => Files[f].ops = << >>
  /\ \A p \in Programs :
       /\ p.mode = "search" => p.query.type \in Kinds /\ p.query.zoned \subseteq {"before", "after"}
       /\ p.mode = "api" => \A k \in {"limit", "offset"} \intersect DOMAIN p.query : p.query[k] \in Nat \union {NoNumber}
       /\ p.mode = "console" =>
            /\ p.id \in DOMAIN Tables.actions \union {0} /\ p.orders \in [{"launcher", "reader"} -> Nat]
            /\ p.action.nil => p.action.ops = << >>

(* What a search asks for, and whether one page holds all of any table: so it *)
(* is for the first pages of the searches of SearchIsExact.                   *)
Asks(q, k, default) == IF k \in DOMAIN q THEN q[k] ELSE default
Covers(limit) == \A t \in DOMAIN SortedBy : Cardinality(DOMAIN Tables[t]) <= limit
LimitsCover ==
  /\ Covers(DefaultLimit)
  /\ \A p \in Programs : p.mode = "api" =>
       LET limit == Asks(p.query, "limit", DefaultLimit) IN
       Asks(p.query, "offset", 0) = 0 => limit = NoNumber \/ Covers(limit)

VARIABLES
  program,  \* what was started
  pc,       \* where it is
  a,        \* the action it prepares
  has,      \* launcher: hasTimes, hasSignatures, hasEvaluatedTarget, paramCompression
  id,       \* the action that PostAction returned
  follow,   \* FollowAction: [id, status, attempts, cancel]
  intr,     \* mig: the signal, its goroutine, and the two channels
  fetch,    \* a list of commands being read page by page
  answer,   \* the answer of a search
  now, faults,
  orders,   \* how many orders the user may still give
  seen      \* history: targets shown, and what happened to the action

cvars == <<db, program, pc, a, has, id, follow, intr, fetch, answer, now, faults, orders, seen>>

(* --- requests ------------------------------------------------------------------- *)

Replies == {"answered", "unauthorized", "failed"}

(* Do repeats a request that was not authorized, with a fresh token. The body *)
(* of a POST has then been read already, and the repetition cannot be sent.   *)
Reply(method, first, second) ==
  IF first # "unauthorized" \/ program.conf.apikey THEN first
  ELSE IF method = "POST" THEN "empty" ELSE second

(* A request whose reply is r; each failure is taken from the fault budget.   *)
Do(method, r) ==
  \E first, second \in Replies :
    LET cost == (IF first = "answered" THEN 0 ELSE 1) + (IF second = "answered" THEN 0 ELSE 1) IN
    /\ first # "unauthorized" => second = "answered"
    /\ r = Reply(method, first, second)
    /\ faults' = faults - cost /\ faults' >= 0

(* GetAPIResource: anything but 200 is an error, which holds the message only *)
(* if there was an answer below 500.                                          *)
GetAPIResource(r, answered) ==
  LET error == [code |-> 500, items |-> << >>, next |-> << >>]
      read(page) == IF page.code >= 500 THEN error ELSE page
  IN IF r # "answered" THEN error ELSE Apply(read, answered)

(* --- actions ------------------------------------------------------------------------ *)

(* What a signature is made over: the name, the target, the times and the     *)
(* operations in JSON, which tells no operations from none given.             *)
ActionString(x) == [name |-> x.name, target |-> x.target, ops |-> x.ops, nil |-> x.nil, from |-> x.from, until |-> x.until]

Operation(module, want) == [module |-> module, want |-> want, compressed |-> FALSE]
CompressOperationParam(op) == [op EXCEPT !.compressed = TRUE]
DecompressOperationParam(op) == [op EXCEPT !.compressed = FALSE]

CompressAction(x) ==
  [x EXCEPT !.ops = [i \in DOMAIN @ |-> IF @[i].want /\ ~@[i].compressed THEN CompressOperationParam(@[i]) ELSE @[i]]]

SignAction(x) == [x EXCEPT !.sigs = Append(@, [key |-> MyKey, over |-> ActionString(x)])]

ResolveTargetMacro(t) == IF t \in DOMAIN Macros THEN Macros[t] ELSE t

(* EvaluateAgentTarget searches the agents of the target; none is an error.   *)
EvaluateAgentTarget(t, r) ==
  GetAPIResource(r, Search([k \in {"type", "limit", "target"} |->
    CASE k = "type" -> "agent" [] k = "limit" -> 1000000 [] OTHER -> t]))

(* Mutant: it is not compared what a signature was made over.                 *)
KnownSigners(x) == \A i \in DOMAIN x.sigs : x.sigs[i].key \in KnownKeys

ValidSignatures(x) == \A i \in DOMAIN x.sigs : x.sigs[i].key \in KnownKeys /\ x.sigs[i].over = ActionString(x)

(* createAction: Validate and VerifySignatures (module Access).               *)
CreateActionAccepts(x) ==
  /\ x.name # "" /\ x.target # "" /\ ~x.nil
  /\ ~(x.from > x.until) /\ ~(now > x.until)
  /\ x.sigs # << >> /\ ValidSignatures(x)

(* --- the server side ------------------------------------------------------------------ *)

(* A table with one more row.                                                 *)
With(rows, i, row) == [j \in DOMAIN rows \union {i} |-> IF j = i THEN row ELSE rows[j]]

NewId == 1 + Cardinality(DOMAIN db.actions)

InsertAction(x) ==
  LET row == [name |-> 1, family |-> 1, status |-> "pending", validfrom |-> x.from, expireafter |-> x.until]
  IN db' = [db EXCEPT !.actions = With(@, NewId, row), !.signatures = @ \union {<<NewId, 1>>}]

Ended == pc \in {"exit", "printed", "answered", "killed", "crashed"}

(* What the server does when the program cannot see it is left out.           *)
Watched == pc \in {"follow", "finish", "followed", "print", "list"} \/ (pc = "reader" /\ orders.reader > 0)

(* The scheduler takes the action and, unless it is invalid, completes it.    *)
ActionMoves ==
  /\ pc \in {"follow", "reader"} /\ id \in DOMAIN db.actions
  /\ \E s \in {"inflight", "completed", "invalid"} :
       /\ \/ db.actions[id].status = "pending" /\ s \in {"inflight", "invalid"}
          \/ db.actions[id].status = "inflight" /\ s = "completed"
       /\ db' = [db EXCEPT !.actions[id].status = s]
  /\ UNCHANGED <<program, pc, a, has, id, follow, intr, fetch, answer, now, faults, orders, seen>>

CommandsOf(i) == {c \in DOMAIN db.commands : db.commands[c].actionid = i}

(* Send of CommandLifecycle, for one agent of the target at a time.           *)
CommandSent(g) ==
  LET c == 1 + Cardinality(DOMAIN db.commands)
      row == [actionid |-> id, agentid |-> g, status |-> "sent", founds |-> {}, starttime |-> c]
  IN
  /\ Watched /\ id \in DOMAIN db.actions /\ db.actions[id].status = "inflight"
  /\ \A d \in CommandsOf(id) : db.commands[d].agentid # g
  /\ g \in ToSet(ActiveAgentsByTarget(a.target).rows)
  /\ db' = [db EXCEPT !.commands = With(@, c, row)]
  /\ UNCHANGED <<program, pc, a, has, id, follow, intr, fetch, answer, now, faults, orders, seen>>

(* Finish of CommandLifecycle: a result or the expiration is stored. A        *)
(* command that leaves the list being read makes the rows behind it move up.  *)
CommandFinished(c, o) ==
  LET list == IF fetch.lists = << >> THEN << >> ELSE Head(fetch.lists)
      leaves == "status" \in DOMAIN list /\ db.commands[c].status \in list.status /\ o.status \notin list.status
  IN /\ Watched /\ c \in CommandsOf(id) /\ db.commands[c].status # "success"
     /\ db' = [db EXCEPT !.commands[c].status = o.status, !.commands[c].founds = o.founds]
     /\ fetch' = [fetch EXCEPT !.left = @ \/ leaves]
     /\ UNCHANGED <<program, pc, a, has, id, follow, intr, answer, now, faults, orders, seen>>

(* The bound leaves time for an action that is launched to expire.            *)
Tick ==
  /\ ~Ended /\ pc \notin {"print", "read", "reader", "list"} /\ now < MaxTime /\ now' = now + 1
  /\ id = 0 => now < MaxTime - Period - Grace - 1
  /\ UNCHANGED <<db, program, pc, a, has, id, follow, intr, fetch, answer, faults, orders, seen>>

Sent(i) == Cardinality(CommandsOf(i))
Done(i) == Cardinality({c \in CommandsOf(i) : db.commands[c].status # "sent"})

(* --- the start of a program ------------------------------------------------------- *)

NoFetch == [lists |-> << >>, offset |-> 0, got |-> {}, from |-> {}, left |-> FALSE]

ClientInit ==
  /\ db = Tables
  /\ program \in Programs
  /\ pc = "start" /\ a = NewAction /\ has = {} /\ id = 0
  /\ follow = [id |-> 0, status |-> "", attempts |-> 0, cancel |-> FALSE]
  /\ intr = [signal |-> FALSE, waiting |-> FALSE, stop |-> FALSE, complete |-> FALSE]
  /\ fetch = NoFetch /\ answer = [code |-> 0, items |-> << >>, next |-> << >>]
  /\ now = 0 /\ faults = MaxFaults
  /\ orders = IF program.mode = "console" THEN program.orders ELSE [launcher |-> 0, reader |-> 0]
  /\ seen = [shown |-> {}, blind |-> FALSE, edited |-> FALSE, loaded |-> FALSE, failed |-> FALSE]

Goto(there) == pc' = there

(* MakeConfiguration writes a file for a key of the user's keyring.           *)
MakeConfiguration(c) == [c EXCEPT !.file = c.secring, !.apikey = FALSE]
ReadConfiguration(c) == IF c.file THEN c ELSE MakeConfiguration(c)
Readable(c) == c.file /\ (c.apikey \/ c.secring)

(* A token is made to see whether the private key can be used.                *)
NewClient(c) == c.apikey \/ c.key
CanSign == program.conf.secring /\ program.conf.key

(* --- mig: make, sign and launch ---------------------------------------------------- *)

(* The target is that of the -t flag, a macro, or all agents that are online. *)
TargetFlag == ResolveTargetMacro(IF program.target = "" THEN "status='online'" ELSE program.target)

MigAction ==
  [NewAction EXCEPT !.name = "mig", !.target = TargetFlag, !.ops = <<Operation("ping", program.compress)>>, !.nil = FALSE]

(* With -i the action comes from a file; with -p it is printed, for which no  *)
(* key is needed; the target local runs the module at once.                   *)
MigBuild ==
  LET c == ReadConfiguration(program.conf)
      fromFile == program.file # ""
  IN /\ pc = "start" /\ program.mode = "mig"
     /\ IF (~fromFile /\ program.target = "local") \/ ~Readable(c) \/ ~(NewClient(c) \/ (program.out = "print" /\ ~fromFile))
        THEN Goto("exit") /\ UNCHANGED a
        ELSE /\ a' = IF fromFile THEN Files[program.file] ELSE MigAction
             /\ Goto(IF program.out = "print" THEN "exit" ELSE "sign")
     /\ seen' = [seen EXCEPT !.loaded = fromFile]
     /\ UNCHANGED <<db, program, has, id, follow, intr, fetch, answer, now, faults, orders>>

WithTimes(x) == [x EXCEPT !.from = now, !.until = now + Period]

(* Times that the file has are kept; with -s the signed action is printed.    *)
MigSign ==
  /\ pc = "sign"
  /\ IF CanSign
     THEN /\ a' = SignAction(CompressAction(IF a.from = Zero THEN WithTimes(a) ELSE a))
          /\ Goto(IF program.out = "sign" THEN "exit" ELSE "evaluate")
     ELSE Goto("exit") /\ UNCHANGED a
  /\ UNCHANGED <<db, program, has, id, follow, intr, fetch, answer, now, faults, orders, seen>>

(* The user sees how many agents the target has, and has five seconds to      *)
(* cancel.                                                                    *)
MigEvaluate ==
  \E r \in Replies :
    /\ pc = "evaluate" /\ Do("GET", r)
    /\ \E found \in {EvaluateAgentTarget(a.target, r)} :
         /\ Goto(IF found.code = 200 THEN "countdown" ELSE "exit")
         /\ seen' = [seen EXCEPT !.shown = IF found.code = 200 THEN @ \union {a.target} ELSE @]
    /\ UNCHANGED <<db, program, a, has, id, follow, intr, fetch, answer, now, orders>>

MigCountdown ==
  /\ pc = "countdown" /\ Goto("post")
  /\ UNCHANGED <<db, program, a, has, id, follow, intr, fetch, answer, now, faults, orders, seen>>

(* PostAction of x; accepted is where the program goes on. The answer to a    *)
(* request may be lost after the action was created.                          *)
PostAction(x, accepted, refused) ==
  \E r \in Replies \union {"empty"} :
    /\ Do("POST", r)
    /\ \/ /\ r = "answered" /\ CreateActionAccepts(x)
          /\ InsertAction(x) /\ id' = NewId
          /\ follow' = [id |-> NewId, status |-> "", attempts |-> 0, cancel |-> FALSE]
          /\ Goto(accepted) /\ UNCHANGED seen
       \/ /\ r = "failed" /\ CreateActionAccepts(x)
          /\ InsertAction(x) /\ id' = 0 /\ seen' = [seen EXCEPT !.failed = TRUE]
          /\ Goto(refused) /\ UNCHANGED follow
       \/ /\ r # "answered" \/ ~CreateActionAccepts(x)
          /\ id' = 0 /\ seen' = [seen EXCEPT !.failed = r # "answered"]
          /\ Goto(refused) /\ UNCHANGED <<db, follow>>

MigPost ==
  /\ pc = "post" /\ PostAction(a, "follow", "exit")
  /\ intr' = [intr EXCEPT !.waiting = pc' = "follow"]
  /\ UNCHANGED <<program, a, has, fetch, answer, now, orders>>

(* --- FollowAction ------------------------------------------------------------------ *)

Followed == {"pending", "scheduled", "preparing", "inflight"}

(* FollowAction returns: mig tells its other goroutine, the console goes on   *)
(* to the action reader.                                                      *)
FollowReturns ==
  /\ Goto(IF program.mode = "mig" THEN "followed" ELSE "read")
  /\ intr' = [intr EXCEPT !.complete = program.mode = "mig"]

(* It returns an error: mig panics in a goroutine, which ends the process,    *)
(* the console leaves the launcher.                                           *)
FollowFails == Goto(IF program.mode = "mig" THEN "crashed" ELSE "exit") /\ UNCHANGED intr

(* GetAction fails when the request does, and for an action that is not there.*)
GetAction(i, r) == r = "answered" /\ i \in DOMAIN db.actions

(* Mutant: only commands end the loop.                                        *)
FinishedByCommands(status) ==
  status \notin Followed \/ (Done(follow.id) > 0 /\ Done(follow.id) >= Sent(follow.id))

(* The action has left the states of an action in flight, all commands are    *)
(* done, or it has expired.                                                   *)
FollowFinished(status) ==
  \/ status \notin Followed
  \/ Done(follow.id) > 0 /\ Done(follow.id) >= Sent(follow.id)
  \/ now > db.actions[follow.id].expireafter + Grace

(* One turn of the loop. The status is that of the first turn. A turn that    *)
(* fails leaves a zero action, whose identifier the next turns ask for.       *)
FollowTurn ==
  \E r \in Replies :
    LET status == IF follow.status = "" THEN db.actions[follow.id].status ELSE follow.status
        finished == FollowFinished(status)
    IN /\ pc = "follow" /\ Do("GET", r)
       /\ IF GetAction(follow.id, r)
          THEN /\ follow' = [follow EXCEPT !.status = status]
               /\ \/ finished /\ Goto("finish") /\ UNCHANGED intr
                  \/ ~finished /\ follow.cancel /\ FollowReturns
                  \/ ~finished /\ ~follow.cancel /\ UNCHANGED <<pc, intr>>
          ELSE /\ follow' = [follow EXCEPT !.id = 0, !.attempts = @ + 1]
               /\ \/ follow'.attempts >= MaxAttempts /\ FollowFails
                  \/ follow'.attempts < MaxAttempts /\ UNCHANGED <<pc, intr>>
       /\ UNCHANGED <<db, program, a, has, id, fetch, answer, now, orders, seen>>

(* The counters are read once more; the error of this request is returned.    *)
FollowFinish ==
  \E r \in Replies :
    /\ pc = "finish" /\ Do("GET", r)
    /\ \/ GetAction(follow.id, r) /\ FollowReturns
       \/ ~GetAction(follow.id, r) /\ FollowFails
    /\ UNCHANGED <<db, program, a, has, id, follow, fetch, answer, now, orders, seen>>

(* The goroutine of FollowAction that waits for stop.                         *)
StopFollow ==
  /\ pc \in {"follow", "finish"} /\ intr.stop
  /\ intr' = [intr EXCEPT !.stop = FALSE] /\ follow' = [follow EXCEPT !.cancel = TRUE]
  /\ UNCHANGED <<db, program, pc, a, has, id, fetch, answer, now, faults, orders, seen>>

(* --- mig: interrupts and results ------------------------------------------------ *)

(* The user presses ctrl+c, which ends the process unless it follows.         *)
Interrupt ==
  /\ program.mode = "mig" /\ ~intr.signal
  /\ \/ /\ pc \in {"start", "sign", "evaluate", "countdown", "post"}
        /\ Goto("killed") /\ UNCHANGED intr
     \/ /\ pc \in {"follow", "finish", "followed"}
        /\ intr' = [intr EXCEPT !.signal = TRUE] /\ UNCHANGED pc
  /\ UNCHANGED <<db, program, a, has, id, follow, fetch, answer, now, faults, orders, seen>>

(* The goroutine that selects between the signal and the end of FollowAction. *)
WaitInterrupt ==
  /\ intr.waiting /\ pc \in {"follow", "finish", "followed"}
  /\ \/ intr.signal /\ intr' = [intr EXCEPT !.waiting = FALSE, !.stop = TRUE]
     \/ intr.complete /\ intr' = [intr EXCEPT !.waiting = FALSE]
  /\ UNCHANGED <<db, program, pc, a, has, id, follow, fetch, answer, now, faults, orders, seen>>

(* --- lists of commands, page by page ------------------------------------------- *)

ShowFilter(show) ==
  CASE show = "found" -> [foundanything |-> {TRUE}]
    [] show = "notfound" -> [foundanything |-> {FALSE}]
    [] OTHER -> << >>

Unsuccessful == <<"cancelled", "expired", "failed", "timeout">>

(* PrintActionResults reads one list, and unless it shows all another one for *)
(* each way not to succeed.                                                   *)
PrintActionResults(show) ==
  <<ShowFilter(show)>> \o (IF show = "all" THEN << >> ELSE [i \in 1..4 |-> [status |-> {Unsuccessful[i]}]])

(* The commands that belong on a list.                                        *)
Listed(i, list) ==
  {c \in CommandsOf(i) :
     /\ "foundanything" \in DOMAIN list =>
          db.commands[c].status = "success" /\ db.commands[c].founds \intersect list.foundanything # {}
     /\ "status" \in DOMAIN list => db.commands[c].status \in list.status}

Read(lists) ==
  IF lists = << >> THEN NoFetch
  ELSE [lists |-> lists, offset |-> 0, got |-> {}, from |-> Listed(id, Head(lists)), left |-> FALSE]

PageQuery(list, offset) ==
  [k \in DOMAIN list \union {"type", "limit", "offset", "actionid"} |->
     CASE k = "type" -> "command" [] k = "limit" -> PageLimit [] k = "offset" -> offset
       [] k = "actionid" -> {id} [] OTHER -> list[k]]

(* Mutant: the next page begins one row late.                                 *)
SkippingOffset(offset) == offset + PageLimit + 1

NextOffset(offset) == offset + PageLimit

(* One page of the first list. An answer without commands ends the list, an   *)
(* error the program; after is where it goes when all lists have been read.   *)
FetchPage(there, after, refused) ==
  \E r \in Replies :
    /\ pc = there /\ Do("GET", r)
    /\ UNCHANGED <<db, program, a, has, id, follow, intr, answer, now, orders, seen>>
    /\ \E page \in {GetAPIResource(r, Search(PageQuery(Head(fetch.lists), fetch.offset)))} :
       \/ /\ page.code = 200
          /\ fetch' = [fetch EXCEPT !.got = @ \union ToSet(page.items), !.offset = NextOffset(@)]
          /\ UNCHANGED pc
       \/ /\ page.code = 404
          /\ fetch' = Read(Tail(fetch.lists))
          /\ Goto(IF Len(fetch.lists) = 1 THEN after ELSE there)
       \/ /\ page.code = 500
          /\ fetch' = NoFetch /\ Goto(refused)

(* mig prints once both goroutines have ended.                                *)
MigPrint ==
  /\ pc = "followed" /\ ~intr.waiting
  /\ Goto("print") /\ fetch' = Read(PrintActionResults(program.show))
  /\ UNCHANGED <<db, program, a, has, id, follow, intr, answer, now, faults, orders, seen>>

MigPage == FetchPage("print", "printed", "exit")

(* --- mig-console: the action launcher ------------------------------------------ *)

Launcher ==
  /\ pc = "launcher" /\ orders.launcher > 0 /\ orders' = [orders EXCEPT !.launcher = @ - 1]
  /\ UNCHANGED <<db, program, id, follow, intr, fetch, answer, now>>

(* History: the action changes after it was signed.                           *)
Edits == seen' = [seen EXCEPT !.edited = @ \/ "signatures" \in has]

(* "create action", which starts with an empty action, or "action <id>".      *)
ConsoleStart ==
  /\ pc = "start" /\ program.mode = "console"
  /\ Goto(IF ~(Readable(ReadConfiguration(program.conf)) /\ NewClient(program.conf)) THEN "exit"
          ELSE IF program.id = 0 THEN "launcher" ELSE "read")
  /\ a' = program.action /\ id' = program.id
  /\ UNCHANGED <<db, program, has, follow, intr, fetch, answer, now, faults, orders, seen>>

AddOperation ==
  /\ Launcher
  /\ a' = [a EXCEPT !.ops = Append(@, Operation("ping", "compress" \in has)), !.nil = FALSE]
  /\ Edits /\ UNCHANGED <<pc, has, faults>>

DelOperation(i) ==
  /\ Launcher /\ i \in DOMAIN a.ops
  /\ a' = [a EXCEPT !.ops = RemoveAt(@, i)]
  /\ Edits /\ UNCHANGED <<pc, has, faults>>

(* No compression: what is compressed is restored, and signatures are void.   *)
CompressFalse ==
  /\ Launcher
  /\ a' = [a EXCEPT !.ops = [i \in DOMAIN @ |-> [DecompressOperationParam(@[i]) EXCEPT !.want = FALSE]], !.sigs = << >>]
  /\ has' = has \ {"compress", "signatures"}
  /\ UNCHANGED <<pc, faults, seen>>

CompressTrue ==
  /\ Launcher
  /\ a' = [a EXCEPT !.ops = [i \in DOMAIN @ |-> [@[i] EXCEPT !.want = TRUE]]]
  /\ has' = has \union {"compress"}
  /\ Edits /\ UNCHANGED <<pc, faults>>

SetName ==
  /\ Launcher /\ a' = [a EXCEPT !.name = "named"]
  /\ Edits /\ UNCHANGED <<pc, has, faults>>

(* The target is set also when it cannot be evaluated.                        *)
SetTarget(t) ==
  \E r \in Replies :
    LET target == ResolveTargetMacro(t)
        shown == EvaluateAgentTarget(target, r).code = 200
    IN /\ Launcher /\ Do("GET", r)
       /\ a' = [a EXCEPT !.target = target]
       /\ has' = IF shown THEN has \union {"target"} ELSE has
       /\ seen' = [seen EXCEPT !.shown = IF shown THEN @ \union {target} ELSE @,
                               !.blind = @ \/ (~shown /\ "target" \in has),
                               !.edited = @ \/ "signatures" \in has]
       /\ UNCHANGED pc

(* settimes now; a date is never parsed, and clears the first time.           *)
SetTimes(form) ==
  /\ Launcher
  /\ a' = IF form = "now" THEN WithTimes(a) ELSE [a EXCEPT !.from = Zero]
  /\ has' = IF form = "now" THEN has \union {"times"} ELSE has
  /\ Edits /\ UNCHANGED <<pc, faults>>

(* load replaces the action and nothing else.                                 *)
Load(f) ==
  /\ Launcher /\ a' = Files[f]
  /\ seen' = [seen EXCEPT !.loaded = TRUE, !.blind = @ \/ "target" \in has]
  /\ UNCHANGED <<pc, has, faults>>

Sign ==
  /\ Launcher /\ "times" \in has
  /\ IF CanSign THEN a' = SignAction(CompressAction(a)) /\ has' = has \union {"signatures"} /\ UNCHANGED pc
     ELSE Goto("exit") /\ UNCHANGED <<a, has>>
  /\ UNCHANGED <<faults, seen>>

(* launch, first half: the target is shown unless it has been, and the user   *)
(* agrees or not.                                                             *)
LaunchEvaluate ==
  \E r \in Replies :
    /\ pc = "launcher" /\ a.name # "" /\ a.target # "" /\ "target" \notin has /\ Do("GET", r)
    /\ LET shown == EvaluateAgentTarget(a.target, r).code = 200 IN
         /\ seen' = [seen EXCEPT !.shown = IF shown THEN @ \union {a.target} ELSE @]
         /\ \/ shown /\ (Goto("launch") \/ UNCHANGED pc)
            \/ ~shown /\ Goto("exit")
    /\ UNCHANGED <<db, program, a, has, id, follow, intr, fetch, answer, now, orders>>

(* Mutant: the target is not evaluated.                                       *)
LaunchUnseen ==
  /\ pc = "launcher" /\ a.name # "" /\ a.target # ""
  /\ Goto("launch")
  /\ UNCHANGED <<db, program, a, has, id, follow, intr, fetch, answer, now, faults, orders, seen>>

LaunchAtOnce ==
  /\ pc = "launcher" /\ a.name # "" /\ a.target # "" /\ "target" \in has
  /\ Goto("launch")
  /\ UNCHANGED <<db, program, a, has, id, follow, intr, fetch, answer, now, faults, orders, seen>>

(* launch, second half: times and a signature, unless there are, and          *)
(* PostAction.                                                                *)
Timed(x) == IF "times" \in has THEN x ELSE WithTimes(x)
Launched(x) == IF "signatures" \in has THEN x ELSE SignAction(CompressAction(x))

Launch ==
  LET x == Launched(Timed(a)) IN
  /\ pc = "launch"
  /\ IF CanSign \/ "signatures" \in has
     THEN PostAction(x, IF program.nofollow THEN "read" ELSE "follow", "exit")
     ELSE Goto("exit") /\ UNCHANGED <<db, id, follow, faults, seen>>
  /\ a' = x /\ has' = {}
  /\ UNCHANGED <<program, intr, fetch, answer, now, orders>>

(* --- mig-console: the action reader ---------------------------------------------- *)

(* The reader gets the action, and leaves when it cannot.                     *)
ReaderStart ==
  \E r \in Replies :
    /\ pc = "read" /\ Do("GET", r)
    /\ Goto(IF GetAction(id, r) THEN "reader" ELSE "exit")
    /\ UNCHANGED <<db, program, a, has, id, follow, intr, fetch, answer, now, orders, seen>>

Reader ==
  /\ pc = "reader" /\ orders.reader > 0 /\ orders' = [orders EXCEPT !.reader = @ - 1]
  /\ UNCHANGED <<db, program, id, follow, intr, answer, now, faults>>

(* list reads one list (searchCommands), results what mig prints.             *)
ReaderList(show) ==
  /\ Reader /\ Goto("list") /\ fetch' = Read(<<ShowFilter(show)>>)
  /\ UNCHANGED <<a, has, seen>>

ReaderResults(show) ==
  /\ Reader /\ Goto("list") /\ fetch' = Read(PrintActionResults(show))
  /\ UNCHANGED <<a, has, seen>>

ReaderPage == FetchPage("list", "reader", "exit")

(* copy starts the launcher with the action as its template.                  *)
ReaderCopy ==
  /\ pc = "reader" /\ orders.reader > 0 /\ orders' = [orders EXCEPT !.reader = @ - 1]
  /\ Goto("launcher") /\ has' = {} /\ id' = 0
  /\ a' = [a EXCEPT !.from = Zero, !.until = Zero, !.sigs = << >>]
  /\ seen' = [seen EXCEPT !.blind = FALSE, !.edited = FALSE, !.loaded = FALSE]
  /\ UNCHANGED <<db, program, follow, intr, fetch, answer, now, faults>>

Exit ==
  /\ pc \in {"launcher", "reader"} /\ Goto("exit")
  /\ UNCHANGED <<db, program, a, has, id, follow, intr, fetch, answer, now, faults, orders, seen>>

(* --- searches ------------------------------------------------------------------------ *)

(* What name means depends on the type; for the last two it is ignored.       *)
NameKey == [action |-> "actionname", command |-> "actionname", agent |-> "agentname",
            investigator |-> "investigatorname", manifest |-> "none", loader |-> "none"]

ConsoleKeys == FilterKeys \ {"foundanything", "threatfamily"}

(* parseSearchQuery: keys it does not know, and dates it cannot parse, are    *)
(* errors.                                                                    *)
ParseSearchQuery(t) ==
  LET key(k) == IF k = "name" THEN NameKey[t.type] ELSE k
      keys == {key(k) : k \in DOMAIN t.filters} \ {"none"}
      typed(k) == CHOOSE j \in DOMAIN t.filters : key(j) = k
  IN [ok |-> /\ DOMAIN t.filters # {} /\ DOMAIN t.filters \subseteq ConsoleKeys \union {"name"}
             /\ \A k \in DOMAIN t.filters \intersect {"before", "after"} : t.filters[k] # Malformed,
      p |-> [NewParameters EXCEPT !.type = t.type, !.filters = [k \in keys |-> t.filters[typed(k)]],
                                  !.zoned = t.zoned]]

(* search in the console, and the endpoint as other clients use it.           *)
ConsoleSearch ==
  \E r \in Replies :
    LET parsed == ParseSearchQuery(program.query) IN
    /\ pc = "start" /\ program.mode = "search" /\ parsed.ok
    /\ Do("GET", r)
    /\ answer' = GetAPIResource(r, Search(String(parsed.p)))
    /\ seen' = [seen EXCEPT !.failed = r # "answered"]
    /\ Goto("answered")
    /\ UNCHANGED <<db, program, a, has, id, follow, intr, fetch, now, orders>>

SearchRefused ==
  /\ pc = "start" /\ program.mode = "search" /\ ~ParseSearchQuery(program.query).ok
  /\ Goto("exit")
  /\ UNCHANGED <<db, program, a, has, id, follow, intr, fetch, answer, now, faults, orders, seen>>

ApiSearch ==
  /\ pc = "start" /\ program.mode = "api"
  /\ answer' = Search(program.query)
  /\ Goto("answered")
  /\ UNCHANGED <<db, program, a, has, id, follow, intr, fetch, now, faults, orders, seen>>

(* --- the specification -------------------------------------------------------------- *)

MigStep == MigBuild \/ MigSign \/ MigEvaluate \/ MigCountdown \/ MigPost \/ MigPrint \/ MigPage
FollowStep == FollowTurn \/ FollowFinish
LauncherStep ==
  \/ ConsoleStart \/ AddOperation \/ CompressFalse \/ CompressTrue \/ SetName \/ Sign
  \/ \E i \in DOMAIN a.ops : DelOperation(i)
  \/ \E t \in Targets : SetTarget(t)
  \/ \E form \in {"now", "date"} : SetTimes(form)
  \/ \E f \in DOMAIN Files : Load(f)
  \/ LaunchEvaluate \/ LaunchAtOnce \/ Launch
ReaderStep ==
  \/ ReaderStart \/ ReaderPage \/ ReaderCopy \/ Exit
  \/ \E show \in {"all", "found", "notfound"} : ReaderList(show) \/ ReaderResults(show)
SearchStep == ConsoleSearch \/ SearchRefused \/ ApiSearch
ServerStep ==
  \/ ActionMoves
  \/ \E g \in DOMAIN db.agents : CommandSent(g)
  \/ \E c \in DOMAIN db.commands, o \in Outcomes : CommandFinished(c, o)

ClientNext ==
  \/ MigStep \/ FollowStep \/ StopFollow \/ Interrupt \/ WaitInterrupt
  \/ LauncherStep \/ ReaderStep \/ SearchStep \/ ServerStep \/ Tick

(* The goroutines of mig run and time passes; users and the scheduler need    *)
(* not act.                                                                   *)
ClientSpec ==
  /\ ClientInit /\ [][ClientNext]_cvars
  /\ WF_cvars(MigStep \/ FollowStep) /\ WF_cvars(StopFollow \/ WaitInterrupt) /\ WF_cvars(Tick)

(* --- properties ------------------------------------------------------------------------- *)

(* Every variable has its type.                                               *)
TypeOK ==
  /\ pc \in {"start", "sign", "evaluate", "countdown", "post", "follow", "finish", "followed", "print", "printed",
             "launcher", "launch", "read", "reader", "list", "answered", "exit", "killed", "crashed"}
  /\ a.nil => a.ops = << >>
  /\ has \subseteq {"times", "signatures", "target", "compress"}
  /\ id \in DOMAIN db.actions \union {0} /\ follow.id \in DOMAIN db.actions \union {0}
  /\ fetch.got \subseteq DOMAIN db.commands /\ fetch.from \subseteq DOMAIN db.commands
  /\ now \in 0..MaxTime /\ faults \in 0..MaxFaults /\ orders \in [{"launcher", "reader"} -> Nat]
  /\ answer.code \in {0, 200, 404, 500}

(* What a search is about: an item of its type belongs to the answer when     *)
(* there are an agent, a command, an action and an investigator related to it *)
(* (as far as the filters speak of them) that meet all filters.               *)
Table == [command |-> "commands", action |-> "actions", agent |-> "agents",
          investigator |-> "investigators", manifest |-> "manifests", loader |-> "loaders"]
WhereOf == [command |-> CommandWhere, action |-> ActionWhere, agent |-> AgentWhere,
            investigator |-> InvestigatorWhere, manifest |-> ManifestWhere, loader |-> LoaderWhere]
Meaning(type, filters) ==
  LET base == Table[type]
      where == WhereOf[type]
      related == IF base \in ToSet(Chain)
                 THEN UNION {Joined(ts) : ts \in {x \in SUBSET ToSet(Chain) : base \in x /\ Joinable(x)}}
                 ELSE Joined({base})
  IN {r[base] : r \in {j \in related : \A k \in DOMAIN filters :
        where[k].table \in DOMAIN j /\ Accepts(j, where[k], filters[k])}}

Unsigned == {c \in DOMAIN db.commands : \A s \in db.signatures : s[1] # db.commands[c].actionid}

(* The parameters that were asked for.                                        *)
Asked == IF program.mode = "search" THEN ParseSearchQuery(program.query).p
         ELSE ParseSearchParameters(program.query).p

(* What is found is what the filters mean, except that commands of an action  *)
(* without a stored signature are never found.                                *)
FoundIsMeant ==
  pc = "answered" /\ answer.code # 500 =>
    LET known == DOMAIN WhereOf[Asked.type]
        all == Meaning(Asked.type, [k \in Given(Asked) \intersect known |-> Asked.filters[k]])
        means == IF Asked.type = "command" THEN all \ Unsigned ELSE all
    IN Asked.target = "" /\ BadIds(Asked) = {} =>
         /\ ToSet(answer.items) \subseteq means
         /\ Asked.offset = 0 => means \subseteq ToSet(answer.items)

(* A search fails only for these reasons: a value that is no identifier, date *)
(* or number, a date with a time zone east of Greenwich, no condition that    *)
(* the type of the search knows, the status of an action, or a failed request.*)
FailureIsExplained ==
  pc = "answered" /\ answer.code = 500 =>
    \/ seen.failed \/ BadIds(Asked) # {} \/ Asked.zoned # {}
    \/ program.mode = "api" /\ ~ParseSearchParameters(program.query).ok
    \/ Asked.type \notin DOMAIN Table
    \/ Asked.target # "" /\ Asked.target \notin DOMAIN Matches
    \/ Given(Asked) \intersect DOMAIN WhereOf[Asked.type] = {}
    \/ Asked.type = "action" /\ "status" \in Given(Asked)

(* The link to the next page of an answer is the same search, further on,     *)
(* except that it forgets foundanything and the target of agents.             *)
NextIsSameSearch ==
  pc = "answered" /\ answer.next # << >> =>
    LET next == ParseSearchParameters(answer.next) IN
    /\ next.ok /\ next.p.offset = Asked.offset + Asked.limit
    /\ "foundanything" \notin Given(Asked) /\ Asked.target = "" =>
         [next.p EXCEPT !.offset = Asked.offset] = Asked

(* Whatever filters are combined, a search returns exactly what they mean, or *)
(* fails for a reason that lies in the request: the joins that each parameter *)
(* adds are neither too few (an error or rows that are not related) nor too   *)
(* many (rows lost). The next page goes on with the same search. Programs and *)
(* tables are as TypeOK says.                                                 *)
SearchIsExact == TypeOK /\ FoundIsMeant /\ FailureIsExplained /\ NextIsSameSearch

(* An action is only launched on a target whose agents the user has been      *)
(* shown, unless the launcher had already shown one and another was loaded,   *)
(* or set without being evaluated.                                            *)
LaunchWasShown ==
  [][DOMAIN db.actions' # DOMAIN db.actions => a'.target \in seen.shown \/ seen.blind]_cvars

(* What is launched is what was signed, by the user or, if it was loaded from *)
(* a file, by those who signed the file. And the API refuses an action only   *)
(* if the user changed it after signing it or loaded it, gave it no           *)
(* operations, or let it expire: signing, compressing and setting times in    *)
(* any order leave an action that can be launched.                            *)
LaunchIsSigned ==
  [][/\ DOMAIN db.actions' # DOMAIN db.actions =>
          /\ \A i \in DOMAIN a'.sigs : a'.sigs[i].over = ActionString(a')
          /\ \E i \in DOMAIN a'.sigs : a'.sigs[i].key = MyKey \/ seen.loaded
     /\ CanSign /\ pc \in {"post", "launch"} /\ pc' = "exit" /\ faults' = faults =>
          seen.edited \/ seen.loaded \/ a'.nil \/ now > a'.until]_cvars

(* A list of commands that is read page by page, while the scheduler adds and *)
(* finishes commands, holds all that belonged to it when it was begun, unless *)
(* a command left it meanwhile (an expired one that succeeds late).           *)
PagesMissNothing ==
  [][fetch.lists # << >> /\ fetch'.lists = Tail(fetch.lists) /\ pc' # "exit" =>
       fetch.left \/ fetch.from \subseteq fetch.got]_cvars

(* mig comes to its end, however the action, its commands and the requests    *)
(* turn out and whenever the user interrupts it; when no request fails, the   *)
(* results of an action that it launched are printed in the end.              *)
MigEnds ==
  /\ (program.mode = "mig") ~> Ended
  /\ (program.mode = "mig" /\ id # 0) ~> (pc = "printed" \/ faults < MaxFaults)
================================================================================
