-------------------------------- MODULE Runner --------------------------------
(* mig-runner: the thread that scans the directory of jobs, the goroutine of  *)
(* each job (entity), and the thread that keeps the posted actions in files   *)
(* and fetches their results once they have expired. The runner may end at    *)
(* any point and is started again; the operator adds, changes and removes     *)
(* jobs meanwhile.                                                            *)
EXTENDS Integers, Sequences, FiniteSets

CONSTANTS
  Names,        \* the directories of jobs
  Slots,        \* bound: goroutines of entities that are kept at a time
  MaxActions,   \* bound: actions posted
  MaxConfigs,   \* bound: configurations the operator writes
  MaxFaults,    \* bound: directories removed, crashes and signals
  ResultsCap    \* capacity of the channel Results

ASSUME RunnerBounds ==
  /\ Slots \in Nat \ {0}
  /\ ResultsCap \in Nat \ {0}
  /\ {MaxActions, MaxConfigs, MaxFaults} \subseteq Nat

VARIABLES
  jobs,       \* jobs[n]: the directory of n: Absent, Bare, or its configuration
  inflight,   \* the files inflight/<id>.json: [name, id, whole]
  posted,     \* posted[id]: the action the API knows, [name, expired]
  tried,      \* actions whose results the runner has asked for
  up,         \* the process runs
  table,      \* ctx.Entities: the slot of the entity of n, or 0
  entity,     \* entity[i]: the goroutine in slot i, or Free
  scanner,    \* the thread of runnerScan
  queue,      \* the channel Results
  reslist,    \* the identifiers processResults keeps
  results,    \* the thread of processResults
  budget      \* configurations and faults left

rvars == <<jobs, inflight, posted, tried, up, table, entity, scanner, queue, reslist, results, budget>>
disk == <<jobs, inflight>>
apiSide == <<posted, tried>>
threads == <<table, entity, scanner, queue, reslist, results>>

ActionIds == 1..MaxActions

(* What json.Unmarshal leaves of a file that is not whole: an action without  *)
(* number and name, which expired long ago.                                   *)
Zero == 0

Free == [pc |-> "free"]

(* A directory that does not exist, and one without entity.cfg.               *)
Absent == [rev |-> -1, loads |-> FALSE]
Bare == [rev |-> 0, loads |-> FALSE]

(* rev is the modification time of entity.cfg, loads whether load accepts     *)
(* entity.cfg and action.json.                                                *)
Configs == [rev : 1..MaxConfigs, loads : BOOLEAN]

Entities ==
  [pc : {"new", "waiting", "launching", "sending", "ended"}, name : Names,
   rev : 1..MaxConfigs, act : {0} \union ActionIds,
   abort : {"nil", "open", "closed"}, dead : BOOLEAN]

IdleScanner == [pc |-> "sleep", todo |-> {}, have |-> {}]
IdleResults == [pc |-> "select", cur |-> Zero, todo |-> {}]

(* Files, actions and goroutines that exist, and the capacity of the channel. *)
TypeOK ==
  /\ jobs \in [Names -> {Absent, Bare} \union Configs]
  /\ inflight \subseteq [name : Names, id : ActionIds, whole : BOOLEAN]
  /\ \A id \in DOMAIN posted : posted[id] \in [name : Names, expired : BOOLEAN]
  /\ DOMAIN posted \subseteq ActionIds /\ tried \subseteq DOMAIN posted
  /\ table \in [Names -> 0..Slots]
  /\ entity \in [1..Slots -> {Free} \union Entities]
  /\ scanner \in [pc : {"sleep", "scan"}, todo : SUBSET Names, have : SUBSET Names]
  /\ queue \in Seq(ActionIds) /\ Len(queue) <= ResultsCap
  /\ reslist \subseteq {Zero} \union ActionIds
  /\ results \in [pc : {"select", "create", "write", "scan", "sweep", "complete"},
                  cur : {Zero} \union ActionIds, todo : SUBSET ({Zero} \union ActionIds)]

RunnerInit ==
  /\ jobs = [n \in Names |-> Absent] /\ inflight = {} /\ posted = << >> /\ tried = {}
  /\ up = TRUE
  /\ table = [n \in Names |-> 0]
  /\ entity = [i \in 1..Slots |-> Free]
  /\ scanner = IdleScanner
  /\ queue = << >> /\ reslist = {} /\ results = IdleResults
  /\ budget = [configs |-> MaxConfigs, faults |-> MaxFaults]

HasConfig(n) == jobs[n] \notin {Absent, Bare}

(* --- the operator ---------------------------------------------------------- *)

WriteConfig(n) ==
  /\ budget.configs > 0
  /\ budget' = [budget EXCEPT !.configs = @ - 1]
  /\ \E c \in Configs :
       /\ c.rev = MaxConfigs - budget.configs + 1
       /\ jobs' = [jobs EXCEPT ![n] = c]
  /\ UNCHANGED <<inflight, apiSide, up, threads>>

RemoveJob(n) ==
  /\ budget.faults > 0 /\ jobs[n] # Absent
  /\ budget' = [budget EXCEPT !.faults = @ - 1]
  /\ jobs' = [jobs EXCEPT ![n] = Absent]
  /\ inflight' = {f \in inflight : f.name # n}
  /\ UNCHANGED <<apiSide, up, threads>>

(* os.MkdirAll for the files of a job whose directory is gone.                *)
MkdirAll(n) == jobs' = [jobs EXCEPT ![n] = IF @ = Absent THEN Bare ELSE @]

(* --- the end of the process ------------------------------------------------- *)

(* What is left when the process ends: the disk and the API.                  *)
Gone ==
  /\ up' = FALSE
  /\ table' = [n \in Names |-> 0]
  /\ entity' = [i \in 1..Slots |-> Free]
  /\ scanner' = IdleScanner
  /\ queue' = << >> /\ reslist' = {} /\ results' = IdleResults

(* A crash, or a signal: doExit does not wait for the other goroutines.       *)
End ==
  /\ up /\ budget.faults > 0
  /\ budget' = [budget EXCEPT !.faults = @ - 1]
  /\ Gone
  /\ UNCHANGED <<disk, apiSide>>

Restart ==
  /\ ~up
  /\ up' = TRUE
  /\ UNCHANGED <<disk, apiSide, threads, budget>>

(* --- the scan of the directory ------------------------------------------------ *)

ReadDir ==
  /\ up /\ scanner.pc = "sleep"
  /\ LET have == {n \in Names : jobs[n] # Absent}
     IN scanner' = [pc |-> "scan", todo |-> have, have |-> have]
  /\ UNCHANGED <<disk, apiSide, up, table, entity, queue, reslist, results, budget>>

(* close of abortRun, nil until the goroutine of the entity has run.          *)
CanStop(i) == entity[i].abort # "nil"

NotStopped(i) == entity
Stopped(i) == [entity EXCEPT ![i].abort = "closed"]

(* Slots that neither a goroutine nor the table uses are free.                *)
Collected(ents, tab) ==
  [i \in 1..Slots |->
     IF ents[i].pc = "ended" /\ \A n \in Names : tab[n] # i THEN Free ELSE ents[i]]

Loaded(n) == jobs[n].loads

(* A new entity, or none when its files cannot be loaded.                     *)
Started(n, ents, tab) ==
  IF ~Loaded(n)
  THEN entity' = ents /\ table' = tab
  ELSE LET free == {i \in 1..Slots : ents[i] = Free} IN
       \E i \in free :
         /\ \A j \in free : i <= j
         /\ entity' = [ents EXCEPT ![i] =
                         [pc |-> "new", name |-> n, rev |-> jobs[n].rev, act |-> 0, abort |-> "nil", dead |-> FALSE]]
         /\ table' = [tab EXCEPT ![n] = i]

(* The error of a directory ends the scan, and with it the process.           *)
ProcDir(n) ==
  LET i == table[n] IN
  /\ up /\ scanner.pc = "scan" /\ n \in scanner.todo
  /\ \/ /\ \/ ~HasConfig(n)
           \/ i # 0 /\ entity[i].rev = jobs[n].rev
        /\ scanner' = [scanner EXCEPT !.todo = @ \ {n}]
        /\ UNCHANGED <<up, table, entity, queue, reslist, results>>
     \/ /\ HasConfig(n) /\ i = 0
        /\ Started(n, entity, table)
        /\ scanner' = [scanner EXCEPT !.todo = @ \ {n}]
        /\ UNCHANGED <<up, queue, reslist, results>>
     \/ /\ HasConfig(n) /\ i # 0 /\ entity[i].rev # jobs[n].rev /\ CanStop(i)
        /\ LET tab == [table EXCEPT ![n] = 0] IN Started(n, Collected(Stopped(i), tab), tab)
        /\ scanner' = [scanner EXCEPT !.todo = @ \ {n}]
        /\ UNCHANGED <<up, queue, reslist, results>>
     \/ /\ HasConfig(n) /\ i # 0 /\ entity[i].rev # jobs[n].rev /\ ~CanStop(i)
        /\ Gone
  /\ UNCHANGED <<disk, apiSide, budget>>

Removed == {n \in Names : table[n] # 0 /\ n \notin scanner.have}
Dead == {n \in Names : table[n] # 0 /\ entity[table[n]].dead}

(* procReap stops the entities whose directory is gone, and forgets those     *)
(* whose goroutine has ended with an error.                                   *)
ProcReap ==
  /\ up /\ scanner.pc = "scan" /\ scanner.todo = {}
  /\ \/ /\ \A n \in Removed : CanStop(table[n])
        /\ LET tab == [n \in Names |-> IF n \in Removed \union Dead THEN 0 ELSE table[n]]
               stopped == [i \in 1..Slots |->
                             IF \E n \in Removed : table[n] = i
                             THEN [entity[i] EXCEPT !.abort = "closed"] ELSE entity[i]]
           IN table' = tab /\ entity' = Collected(stopped, tab)
        /\ scanner' = IdleScanner
        /\ UNCHANGED <<up, queue, reslist, results>>
     \/ /\ \E n \in Removed : ~CanStop(table[n])
        /\ Gone
  /\ UNCHANGED <<disk, apiSide, budget>>

(* --- the goroutine of an entity ------------------------------------------------ *)

EntityUnchanged == UNCHANGED <<up, table, scanner, reslist, results, budget>>

Begin(i) ==
  /\ entity[i].pc = "new"
  /\ entity' = [entity EXCEPT ![i].pc = "waiting", ![i].abort = "open"]
  /\ UNCHANGED <<disk, apiSide, queue>> /\ EntityUnchanged

NeverAborted(i) == entity[i].abort = "aborted"
Aborted(i) == entity[i].abort = "closed"

Abort(i) ==
  /\ entity[i].pc = "waiting" /\ Aborted(i)
  /\ entity' = Collected([entity EXCEPT ![i].pc = "ended"], table)
  /\ UNCHANGED <<disk, apiSide, queue>> /\ EntityUnchanged

(* The timer; select may prefer it to a closed abortRun.                      *)
Fire(i) ==
  /\ entity[i].pc = "waiting"
  /\ entity' = [entity EXCEPT ![i].pc = "launching"]
  /\ UNCHANGED <<disk, apiSide, queue>> /\ EntityUnchanged

(* An error before the API has answered; the action may exist all the same.   *)
LaunchFails(i) ==
  /\ entity[i].pc = "launching"
  /\ entity' = Collected([entity EXCEPT ![i].pc = "ended", ![i].dead = TRUE], table)
  /\ UNCHANGED <<disk, apiSide, queue>> /\ EntityUnchanged

(* launchAction reads action.json, signs the action and posts it. When        *)
(* entity.cfg does not load, action.json may: an older entity that is         *)
(* launching does not care. The results of a job with SendOnly are not wanted *)
(* by the runner: its actions get no number here.                             *)
Launch(i) ==
  LET n == entity[i].name
      id == Cardinality(DOMAIN posted) + 1
  IN /\ entity[i].pc = "launching" /\ HasConfig(n)
     /\ \/ /\ id \in ActionIds
           /\ posted' = [k \in 1..id |-> IF k = id THEN [name |-> n, expired |-> FALSE] ELSE posted[k]]
           /\ entity' = [entity EXCEPT ![i].pc = "sending", ![i].act = id]
        \/ /\ entity' = [entity EXCEPT ![i].pc = "waiting"]
           /\ UNCHANGED posted
     /\ UNCHANGED <<disk, tried, queue>> /\ EntityUnchanged

RoomInQueue == Len(queue) < ResultsCap

SendResult(i) ==
  /\ entity[i].pc = "sending" /\ RoomInQueue
  /\ queue' = Append(queue, entity[i].act)
  /\ entity' = [entity EXCEPT ![i].pc = "waiting", ![i].act = 0]
  /\ UNCHANGED <<disk, apiSide>> /\ EntityUnchanged

EntityStep(i) == Begin(i) \/ Abort(i) \/ Fire(i) \/ LaunchFails(i) \/ Launch(i) \/ SendResult(i)

(* --- the thread of processResults ------------------------------------------------ *)

ResultsUnchanged == UNCHANGED <<table, entity, scanner, budget>>

File(id, whole) == [name |-> posted[id].name, id |-> id, whole |-> whole]

TakeResult ==
  /\ up /\ results.pc = "select" /\ queue # << >>
  /\ results' = [results EXCEPT !.pc = "create", !.cur = Head(queue)]
  /\ queue' = Tail(queue)
  /\ UNCHANGED <<disk, apiSide, up, reslist>> /\ ResultsUnchanged

(* actionInFlight: the file is created, then written.                         *)
CreateFile ==
  /\ up /\ results.pc = "create"
  /\ MkdirAll(posted[results.cur].name)
  /\ inflight' = (inflight \ {File(results.cur, TRUE)}) \union {File(results.cur, FALSE)}
  /\ results' = [results EXCEPT !.pc = "write"]
  /\ UNCHANGED <<apiSide, up, queue, reslist>> /\ ResultsUnchanged

(* The directory may have been removed with the file: the data goes nowhere.  *)
WriteFile ==
  LET empty == File(results.cur, FALSE) IN
  /\ up /\ results.pc = "write"
  /\ inflight' = IF empty \in inflight
                 THEN (inflight \ {empty}) \union {File(results.cur, TRUE)} ELSE inflight
  /\ reslist' = reslist \union {results.cur}
  /\ results' = IdleResults
  /\ UNCHANGED <<jobs, apiSide, up, queue>> /\ ResultsUnchanged

(* actionInFlight fails: the action is not monitored, its file may be empty.  *)
RecordFails ==
  /\ up /\ results.pc \in {"create", "write"} /\ budget.faults > 0
  /\ budget' = [budget EXCEPT !.faults = @ - 1]
  /\ results' = IdleResults
  /\ UNCHANGED <<disk, apiSide, up, table, entity, scanner, queue, reslist>>

(* Five seconds without a result.                                             *)
Timeout ==
  /\ up /\ results.pc = "select" /\ queue = << >>
  /\ results' = [results EXCEPT !.pc = "scan"]
  /\ UNCHANGED <<disk, apiSide, up, queue, reslist>> /\ ResultsUnchanged

(* The action a file holds, as scanInFlight reads it.                         *)
NothingRead(f) == Zero
ReadBack(f) == IF f.whole THEN f.id ELSE Zero

ScanInFlight ==
  LET known == reslist \union {ReadBack(f) : f \in inflight} IN
  /\ up /\ results.pc = "scan"
  /\ results' = [results EXCEPT !.pc = "sweep", !.todo = known]
  /\ reslist' = known
  /\ UNCHANGED <<disk, apiSide, up, queue>> /\ ResultsUnchanged

Due(id) == IF id = Zero THEN TRUE ELSE posted[id].expired

SweepEnds ==
  /\ up /\ results.pc = "sweep" /\ ~\E id \in results.todo : Due(id)
  /\ results' = IdleResults
  /\ UNCHANGED <<disk, apiSide, up, queue, reslist>> /\ ResultsUnchanged

(* getResults: whether it succeeds, or stores what it fetched, it was tried.  *)
GetResults ==
  \E id \in results.todo :
    /\ up /\ results.pc = "sweep" /\ Due(id)
    /\ results' = [results EXCEPT !.pc = "complete", !.cur = id, !.todo = @ \ {id}]
    /\ tried' = IF id = Zero THEN tried ELSE tried \union {id}
    /\ \/ id # Zero /\ MkdirAll(posted[id].name)
       \/ UNCHANGED jobs
    /\ UNCHANGED <<inflight, posted, up, queue, reslist>> /\ ResultsUnchanged

HasFile(id) == \E f \in inflight : f.whole /\ f.id = id

NotForgotten(id) == reslist
Forgotten(id) == reslist \ {id}

Completed(id) == inflight \ {File(id, TRUE)}

(* actionComplete removes the file, and panics when there is none.            *)
ActionComplete ==
  LET id == results.cur IN
  /\ up /\ results.pc = "complete"
  /\ \/ /\ HasFile(id)
        /\ inflight' = Completed(id)
        /\ reslist' = Forgotten(id)
        /\ results' = [results EXCEPT !.pc = "sweep", !.cur = Zero]
        /\ UNCHANGED <<up, table, entity, scanner, queue>>
     \/ ~HasFile(id) /\ Gone /\ UNCHANGED inflight
  /\ UNCHANGED <<jobs, apiSide, budget>>

ResultsStep ==
  \/ TakeResult \/ CreateFile \/ WriteFile \/ RecordFails \/ Timeout \/ ScanInFlight
  \/ SweepEnds \/ GetResults \/ ActionComplete

(* Time passes.                                                               *)
ExpireAction(id) ==
  /\ id \in DOMAIN posted /\ ~posted[id].expired
  /\ posted' = [posted EXCEPT ![id].expired = TRUE]
  /\ UNCHANGED <<disk, tried, up, threads, budget>>

RunnerNext ==
  \/ \E n \in Names : WriteConfig(n) \/ RemoveJob(n) \/ ProcDir(n)
  \/ \E i \in 1..Slots : EntityStep(i)
  \/ \E id \in ActionIds : ExpireAction(id)
  \/ ReadDir \/ ProcReap \/ ResultsStep \/ End \/ Restart

(* Goroutines are scheduled, timers fire, time passes, and mig-runner is a    *)
(* service that is started again.                                             *)
RunnerFairness ==
  /\ WF_rvars(ReadDir) /\ WF_rvars(ProcReap) /\ \A n \in Names : WF_rvars(ProcDir(n))
  /\ \A i \in 1..Slots : WF_rvars(EntityStep(i))
  /\ \A i \in 1..Slots : SF_rvars(Abort(i))
  /\ WF_rvars(ResultsStep) /\ WF_rvars(Restart)
  /\ \A id \in ActionIds : WF_rvars(ExpireAction(id))

RunnerSpec == RunnerInit /\ [][RunnerNext]_rvars /\ RunnerFairness

(* --- properties ------------------------------------------------------------- *)

Runs(i) == entity[i].pc \notin {"free", "ended"}

(* A job never has two goroutines that go on launching its action: every one  *)
(* but the one in ctx.Entities has been told to stop (procDir, procReap).     *)
(* Files and goroutines are as TypeOK says.                                   *)
OneEntityPerJob ==
  /\ TypeOK
  /\ \A i \in 1..Slots :
       Runs(i) /\ entity[i].abort # "closed" => table[entity[i].name] = i

Torn == \E f \in inflight : ~f.whole

(* Left to itself the runner goes on: actionComplete always finds the file of *)
(* an action it has fetched, each action is completed once, and the scan does *)
(* not fail. It only ends after a crash or the removal of a directory, when a *)
(* file has been left empty, or when a scan stops an entity that has not      *)
(* begun.                                                                     *)
EndsOnlyAfterFault ==
  [][up /\ ~up' =>
       budget'.faults < MaxFaults \/ Torn \/ \E i \in 1..Slots : entity[i].pc = "new"]_rvars

(* A file only disappears once its results have been asked for, or with the   *)
(* directory of its job (actionComplete, actionInFlight).                     *)
KeptUntilTried ==
  [][\A f \in inflight :
       f.whole /\ f \notin inflight' => f.id \in tried \/ jobs'[f.name] = Absent]_rvars

(* Whatever the runner has recorded in a file is asked for in the end, across *)
(* restarts: the file is kept until then, and does not stay (actionComplete,  *)
(* scanInFlight). A file that a crash has left empty ends processResults, and *)
(* the runner with it, again and again.                                       *)
RecordedIsTried ==
  /\ KeptUntilTried
  /\ \A id \in ActionIds :
       (\E f \in inflight : f.id = id /\ f.whole)
         ~> (id \in tried \/ Torn \/ ~\E f \in inflight : f.id = id)

(* An entity that was told to stop ends, also when it is about to launch; one *)
(* that failed is taken up again by a later scan, as long as its files can be *)
(* loaded (procReap, procDir).                                                *)
EntitiesSettle ==
  /\ \A i \in 1..Slots :
       (Runs(i) /\ entity[i].abort = "closed") ~> ~(Runs(i) /\ entity[i].abort = "closed")
  /\ \A n \in Names :
       (table[n] # 0 /\ entity[table[n]].dead)
         ~> \/ table[n] # 0 /\ Runs(table[n])
            \/ ~HasConfig(n) \/ ~Loaded(n) \/ Torn
================================================================================
