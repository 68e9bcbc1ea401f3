------------------------------- MODULE Scheduler -------------------------------
(******************************************************************************)
(* The life of actions and commands in mig-scheduler.                         *)
(*                                                                            *)
(* An action is a row of the actions table and, in the spool of one of the    *)
(* schedulers, a file in one of the directories New, InFlight, Done and       *)
(* Invalid.  processNewAction turns it into one command per targeted agent;   *)
(* a command is a row of the commands table, a file in Command.InFlight while *)
(* it waits for its result, and a file in Command.Returned once a result (or  *)
(* an expiration) is to be stored.                                            *)
(*                                                                            *)
(* Each scheduler is a process made of goroutines connected by unbuffered     *)
(* channels: the collector, processNewAction, and three batchers (commands    *)
(* ready, commands returned, commands done) which act on a batch when it is   *)
(* full or after a second without input.  Several schedulers may share the    *)
(* database and the relays; the spool directories belong to one scheduler.    *)
(*                                                                            *)
(* Steps are cut where another goroutine, another scheduler or a crash can    *)
(* observe the difference: at each SQL statement, each file write or removal, *)
(* each channel rendezvous and each AMQP operation.                           *)
(******************************************************************************)
EXTENDS Naturals, FiniteSets

CONSTANTS
  Schedulers,     \* the scheduler processes that share the database
  Actions,        \* action ids
  KillActions,    \* those a scheduler issues itself; the others come from the API
  Agents,         \* rows of the agents table, one per agent queue
  Volatile,       \* those that may go offline or be destroyed
  Target,         \* Target[a]: the agents the target string of action a matches
  AgentOutcomes,  \* statuses an agent may return; a command it ran has "success"
  BatchSize,      \* commands in a full batch (1024 in routines.go)
  MaxTries,       \* bound: how often processNewAction may create commands of a
  MaxFaults       \* bound: crashes and I/O errors in a behaviour

ASSUME SchedulerAssumption ==
  /\ KillActions \subseteq Actions
  /\ Volatile \subseteq Agents
  /\ IsFiniteSet(Agents)
  /\ Target \in [Actions -> SUBSET Agents]
  /\ AgentOutcomes \subseteq {"success", "failed", "timeout"}
  /\ BatchSize \in Nat \ {0}
  /\ MaxTries \in Nat \ {0}
  /\ MaxFaults \in Nat

(* GenID numbers commands uniquely; a command is told apart by its action, its *)
(* agent and the run of processNewAction that created it.                      *)
Commands == [action : Actions, agent : Agents, try : 1..MaxTries]

Finished == AgentOutcomes \union {"expired"}

(* The content of a file of Command.Returned or of a message from an agent.   *)
Results == [cmd : Commands, status : Finished]

Dirs == {"New", "InFlight", "Done", "Invalid"}

VARIABLES
  unused,      \* action ids that GenID has not handed out yet
  phase,       \* phase[a]: "early", "valid" or "expired", from ValidFrom and ExpireAfter
  actions,     \* actions[a]: status in the actions table, "none" without a row
  commands,    \* commands[c]: status in the commands table, "none" without a row
  active,      \* agent rows with status online or idle
  spool,       \* spool[s][d]: actions with a file in directory d of scheduler s
  inflight,    \* inflight[s]: commands with a file in Command.InFlight
  returned,    \* returned[s]: files in Command.Returned
  collector,   \* the collector goroutine: stage, files left in it, file at hand
  newAction,   \* the processNewAction goroutine
  sender,      \* the batcher of CommandReady
  returner,    \* the batcher of CommandReturned
  finishing,   \* goroutines of returnCommands before FinishCommand
  doneQueue,   \* goroutines of returnCommands blocked on CommandDone
  updater,     \* the batcher of CommandDone
  toAgents,    \* command messages in the agent queues of the relays
  executed,    \* what agents have returned so far
  results,     \* result messages in the relays
  tries,       \* tries[a]: runs of processNewAction that reached createCommand
  faults       \* crashes and I/O errors so far

dbVars == <<actions, commands, active>>
diskVars == <<spool, inflight, returned>>
returnVars == <<returner, finishing, doneQueue, updater>>
relayVars == <<toAgents, executed, results>>
vars == <<unused, phase, dbVars, diskVars, collector, newAction, sender, returnVars, relayVars, tries, faults>>

(* A goroutine works on one file at a time: its field cur (or act) holds that  *)
(* file, and is empty when there is none.                                      *)
CollectorIdle == [pc |-> "expire", todo |-> {}, cur |-> {}]
NewActionIdle == [pc |-> "idle", act |-> {}, todo |-> {}, created |-> FALSE, next |-> "idle"]
SenderIdle    == [pc |-> "recv", batch |-> {}]
ReturnerIdle  == [pc |-> "recv", batch |-> {}, ctr |-> 0]
UpdaterIdle   == [pc |-> "recv", batch |-> {}, ctr |-> 0, cur |-> {}]

Init ==
  /\ unused = Actions
  /\ phase \in [Actions -> {"early", "valid"}]
  /\ actions = [a \in Actions |-> "none"]
  /\ commands = [c \in Commands |-> "none"]
  /\ active = Agents
  /\ spool = [s \in Schedulers |-> [d \in Dirs |-> {}]]
  /\ inflight = [s \in Schedulers |-> {}]
  /\ returned = [s \in Schedulers |-> {}]
  /\ collector = [s \in Schedulers |-> CollectorIdle]
  /\ newAction = [s \in Schedulers |-> NewActionIdle]
  /\ sender = [s \in Schedulers |-> SenderIdle]
  /\ returner = [s \in Schedulers |-> ReturnerIdle]
  /\ finishing = [s \in Schedulers |-> {}]
  /\ doneQueue = [s \in Schedulers |-> {}]
  /\ updater = [s \in Schedulers |-> UpdaterIdle]
  /\ toAgents = {} /\ executed = {} /\ results = {}
  /\ tries = [a \in Actions |-> 0]
  /\ faults = 0

Fault == faults < MaxFaults /\ faults' = faults + 1

WriteFile(s, d, a) == spool' = [spool EXCEPT ![s][d] = @ \union {a}]
RemoveNothing(s, d, a) == spool' = spool
RemoveFile(s, d, a) == spool' = [spool EXCEPT ![s][d] = @ \ {a}]

--------------------------------------------------------------------------------
(* The environment: time, investigators, agents and relays.                   *)

(* Time reaches ValidFrom, then ExpireAfter, of an action.                    *)
Tick(a) ==
  /\ phase[a] # "expired"
  /\ phase' = [phase EXCEPT ![a] = IF @ = "early" THEN "valid" ELSE "expired"]
  /\ UNCHANGED <<unused, dbVars, diskVars, collector, newAction, sender, returnVars, relayVars, tries, faults>>

(* The API stores a valid action as pending.                                  *)
CreateAction(a) ==
  /\ a \in unused \ KillActions
  /\ phase[a] # "expired"
  /\ unused' = unused \ {a}
  /\ actions' = [actions EXCEPT ![a] = "pending"]
  /\ UNCHANGED <<phase, commands, active, diskVars, collector, newAction, sender,
                 returnVars, relayVars, tries, faults>>

(* issueKillAction: a scheduler writes an action of its own into its spool;    *)
(* the actions table does not know it yet.                                     *)
IssueKillAction(s, a) ==
  /\ a \in unused \intersect KillActions
  /\ phase[a] = "valid"
  /\ unused' = unused \ {a}
  /\ WriteFile(s, "New", a)
  /\ UNCHANGED <<phase, dbVars, inflight, returned, collector, newAction, sender,
                 returnVars, relayVars, tries, faults>>

(* The row of an agent leaves online and idle: MarkOfflineAgents,              *)
(* ReplaceRefreshedAgent (which inserts another row) or MarkAgentDestroyed.     *)
AgentGone(g) ==
  /\ g \in Volatile \intersect active
  /\ active' = active \ {g}
  /\ UNCHANGED <<unused, phase, actions, commands, diskVars, collector, newAction, sender,
                 returnVars, relayVars, tries, faults>>

(* UpdateAgentHeartbeat sets a row online: a destroyed one, or one that went   *)
(* offline after the heartbeat handler had read it.  The heartbeats of an agent *)
(* whose row is offline insert another row.                                     *)
AgentBack(g) ==
  /\ g \in Volatile \ active
  /\ active' = active \union {g}
  /\ UNCHANGED <<unused, phase, actions, commands, diskVars, collector, newAction, sender,
                 returnVars, relayVars, tries, faults>>

(* An agent takes a command, which acknowledges the message, runs it and       *)
(* publishes its status; an agent that dies before that says nothing.          *)
AgentReturn(c, o) ==
  /\ c \in toAgents
  /\ toAgents' = toAgents \ {c}
  /\ executed' = executed \union {[cmd |-> c, status |-> o]}
  /\ results' = results \union {[cmd |-> c, status |-> o]}
  /\ UNCHANGED <<unused, phase, dbVars, diskVars, collector, newAction, sender, returnVars,
                 tries, faults>>

(* A message is also lost when it outlives its expiration in the relay.        *)
CommandLost(c) ==
  /\ c \in toAgents
  /\ toAgents' = toAgents \ {c}
  /\ UNCHANGED <<unused, phase, dbVars, diskVars, collector, newAction, sender, returnVars,
                 executed, results, tries, faults>>

--------------------------------------------------------------------------------
(* collector: one pass runs loadNewActionsFromDB, loadNewActionsFromSpool,     *)
(* loadReturnedCommands and expireCommands.  Each of the last three works on   *)
(* the directory listing it took when it began.                                *)

collectorUnchanged == <<unused, phase, newAction, sender, returnVars, relayVars,
                        tries>>

Runnable == {a \in Actions : actions[a] = "pending" /\ phase[a] = "valid"}

(* The status column after the UPDATE of SetupRunnableActions.                *)
MarkedNothing == actions
MarkedScheduled == [a \in Actions |-> IF a \in Runnable THEN "scheduled" ELSE actions[a]]

(* The rows it returns.                                                        *)
ClaimedTwice == {a \in Actions : actions[a] \in {"pending", "scheduled"} /\ phase[a] = "valid"}
Claimed == Runnable

(* One UPDATE ... RETURNING marks the runnable actions and returns them.       *)
SetupRunnableActions(s) ==
  /\ collector[s].pc = "expire"
  /\ collector[s].todo = {}
  /\ actions' = MarkedScheduled
  /\ collector' = [collector EXCEPT ![s] = [pc |-> "setup", todo |-> Claimed, cur |-> {}]]
  /\ UNCHANGED <<collectorUnchanged, commands, active, diskVars, faults>>

SetupAction(s, a) ==
  /\ collector[s].pc = "setup"
  /\ a \in collector[s].todo
  /\ WriteFile(s, "New", a)
  /\ collector' = [collector EXCEPT ![s].todo = @ \ {a}]
  /\ UNCHANGED <<collectorUnchanged, dbVars, inflight, returned, faults>>

(* The end of a stage, and the directory listing of the next.                 *)
CollectorStage(s) ==
  /\ collector[s].todo = {}
  /\ \/ /\ collector[s].pc = "setup"
        /\ collector' = [collector EXCEPT ![s] = [@ EXCEPT !.pc = "spool", !.todo = spool[s]["New"]]]
     \/ /\ collector[s].pc = "spool"
        /\ collector' = [collector EXCEPT ![s] = [@ EXCEPT !.pc = "returned", !.todo = returned[s]]]
     \/ /\ collector[s].pc = "returned"
        /\ collector' = [collector EXCEPT ![s] = [@ EXCEPT !.pc = "expire", !.todo = inflight[s]]]
  /\ UNCHANGED <<collectorUnchanged, dbVars, diskVars, faults>>

(* A file of New whose action is expired is removed, and the database is not   *)
(* told; one that is valid goes to processNewAction, which must be idle to     *)
(* receive it; one that has gone or is not yet valid is skipped.               *)
LoadNewActionFromSpool(s, a) ==
  /\ collector[s].pc = "spool"
  /\ a \in collector[s].todo
  /\ \/ /\ a \notin spool[s]["New"] \/ phase[a] = "early"
        /\ UNCHANGED <<spool, newAction>>
     \/ /\ a \in spool[s]["New"]
        /\ phase[a] = "expired"
        /\ RemoveFile(s, "New", a)
        /\ UNCHANGED newAction
     \/ /\ a \in spool[s]["New"]
        /\ phase[a] = "valid"
        /\ newAction[s].pc = "idle"
        /\ newAction' = [newAction EXCEPT ![s] = [@ EXCEPT !.pc = "load", !.act = {a}]]
        /\ UNCHANGED spool
  /\ collector' = [collector EXCEPT ![s].todo = @ \ {a}]
  /\ UNCHANGED <<unused, phase, dbVars, inflight, returned, sender, returnVars,
                 relayVars, tries, faults>>

(* A file still in Returned goes to the batcher, whether or not an earlier     *)
(* pass has already queued it.                                                 *)
LoadReturnedCommand(s, r) ==
  /\ collector[s].pc = "returned"
  /\ r \in collector[s].todo
  /\ \/ r \notin returned[s] /\ UNCHANGED returner
     \/ /\ r \in returned[s]
        /\ returner[s].pc = "recv"
        /\ returner' = [returner EXCEPT ![s] =
             [pc    |-> IF @.ctr + 1 >= BatchSize THEN "process" ELSE "recv",
              batch |-> @.batch \union {r},
              ctr   |-> @.ctr + 1]]
  /\ collector' = [collector EXCEPT ![s].todo = @ \ {r}]
  /\ UNCHANGED <<unused, phase, dbVars, diskVars, newAction, sender, finishing,
                 doneQueue, updater, relayVars, tries, faults>>

ExpireAnyTime(s, c) == c \in inflight[s]
ExpireInverted(s, c) == c \in inflight[s] /\ phase[c.action] # "expired"
ExpireDue(s, c) == c \in inflight[s] /\ phase[c.action] = "expired"

(* expireCommands reads an inflight file, ...                                 *)
ExpireCommand(s, c) ==
  /\ collector[s].pc = "expire"
  /\ c \in collector[s].todo
  /\ collector' = [collector EXCEPT ![s] =
       [pc   |-> IF ExpireDue(s, c) THEN "expireMove" ELSE "expire",
        todo |-> @.todo \ {c},
        cur  |-> IF ExpireDue(s, c) THEN {c} ELSE {}]]
  /\ UNCHANGED <<collectorUnchanged, dbVars, diskVars, faults>>

(* ... writes the expired command in Returned and removes it from InFlight.    *)
ExpireMove(s, c) ==
  /\ collector[s].pc = "expireMove"
  /\ c \in collector[s].cur
  /\ returned' = [returned EXCEPT ![s] = @ \union {[cmd |-> c, status |-> "expired"]}]
  /\ inflight' = [inflight EXCEPT ![s] = @ \ {c}]
  /\ collector' = [collector EXCEPT ![s] = [@ EXCEPT !.pc = "expire", !.cur = {}]]
  /\ UNCHANGED <<collectorUnchanged, dbVars, spool, faults>>

(* A panic in a stage that writes files ends the pass: what it still had to do *)
(* is dropped.                                                                 *)
CollectorFails(s) ==
  /\ collector[s].pc \in {"setup", "expireMove"}
  /\ Fault
  /\ collector' = [collector EXCEPT ![s] = CollectorIdle]
  /\ UNCHANGED <<collectorUnchanged, dbVars, diskVars>>

--------------------------------------------------------------------------------
(* processNewAction, for the file that the collector passed to it.            *)

newActionUnchanged == <<unused, phase, active, inflight, returned, collector, returnVars, relayVars>>

(* The file may have gone (ActionFromFile fails and nothing is left to move),  *)
(* and the action may have expired since the collector looked.                 *)
ActionFromFile(s, a) ==
  /\ newAction[s].pc = "load"
  /\ a \in newAction[s].act
  /\ newAction' = [newAction EXCEPT ![s] =
       IF a \notin spool[s]["New"] \/ phase[a] = "early" THEN NewActionIdle
       ELSE [@ EXCEPT !.pc = IF phase[a] = "expired" THEN "invalidMove" ELSE "targets"]]
  /\ UNCHANGED <<newActionUnchanged, actions, commands, spool, sender, tries, faults>>

(* Without target agents the action is invalidated, and processed further all  *)
(* the same.                                                                   *)
ActiveAgentsByTarget(s, a) ==
  /\ newAction[s].pc = "targets"
  /\ a \in newAction[s].act
  /\ LET found == Target[a] \intersect active IN
       newAction' = [newAction EXCEPT ![s] = [@ EXCEPT
         !.pc = IF found = {} THEN "invalidMove" ELSE "store",
         !.todo = found, !.next = "store"]]
  /\ UNCHANGED <<newActionUnchanged, actions, commands, spool, sender, tries, faults>>

InsertOrUpdateAction(s, a) ==
  /\ newAction[s].pc = "store"
  /\ a \in newAction[s].act
  /\ tries[a] < MaxTries
  /\ actions' = [actions EXCEPT ![a] = "preparing"]
  /\ tries' = [tries EXCEPT ![a] = @ + 1]
  /\ newAction' = [newAction EXCEPT ![s] = [@ EXCEPT !.pc = "create", !.next = "idle"]]
  /\ UNCHANGED <<newActionUnchanged, commands, spool, sender, faults>>

(* createCommand numbers the command with GenID.                              *)
NewCommand(a, g) == [action |-> a, agent |-> g, try |-> tries[a]]

(* A new command is handed to the batcher of CommandReady, which must be       *)
(* receiving; a batch that is full is sent at once.                            *)
CreateCommand(s, a, g) ==
  /\ newAction[s].pc = "create"
  /\ a \in newAction[s].act
  /\ g \in newAction[s].todo
  /\ sender[s].pc = "recv"
  /\ LET batch == sender[s].batch \union {NewCommand(a, g)} IN
       sender' = [sender EXCEPT ![s] =
         [pc |-> IF Cardinality(batch) >= BatchSize THEN "insert" ELSE "recv",
          batch |-> batch]]
  /\ newAction' = [newAction EXCEPT ![s] =
       [newAction[s] EXCEPT !.todo = @ \ {g}, !.created = TRUE]]
  /\ UNCHANGED <<newActionUnchanged, actions, commands, spool, tries, faults>>

CreateCommandFails(s, a, g) ==
  /\ newAction[s].pc = "create"
  /\ a \in newAction[s].act
  /\ g \in newAction[s].todo
  /\ Fault
  /\ newAction' = [newAction EXCEPT ![s].todo = @ \ {g}]
  /\ UNCHANGED <<newActionUnchanged, actions, commands, spool, sender, tries>>

CommandsCreated(s) ==
  /\ newAction[s].pc = "create"
  /\ newAction[s].todo = {}
  /\ newAction' = [newAction EXCEPT
       ![s].pc = IF newAction[s].created THEN "flyMove" ELSE "invalidMove"]
  /\ UNCHANGED <<newActionUnchanged, actions, commands, spool, sender, tries, faults>>

(* flyAction and invalidAction write the file in its new directory, remove it  *)
(* from New, and then update the row.  (A crash between the write and the       *)
(* removal leaves the file in New, as does a crash before both.)  UpdateAction  *)
(* of a row that does not exist changes nothing.                                *)
MovedUnwritten(s, a, dir) == [spool EXCEPT ![s]["New"] = @ \ {a}]
Moved(s, a, dir) == [spool EXCEPT ![s]["New"] = @ \ {a}, ![s][dir] = @ \union {a}]

Move(s, a, pc, dir, nextpc) ==
  /\ newAction[s].pc = pc
  /\ a \in newAction[s].act
  /\ spool' = Moved(s, a, dir)
  /\ newAction' = [newAction EXCEPT ![s].pc = nextpc]
  /\ UNCHANGED <<newActionUnchanged, actions, commands, sender, tries, faults>>

FlyMove(s, a) == Move(s, a, "flyMove", "InFlight", "flyUpdate")
InvalidMove(s, a) == Move(s, a, "invalidMove", "Invalid", "invalidUpdate")

FlyUpdate(s, a) ==
  /\ newAction[s].pc = "flyUpdate"
  /\ a \in newAction[s].act
  /\ actions' = [actions EXCEPT ![a] = "inflight"]
  /\ newAction' = [newAction EXCEPT ![s] = NewActionIdle]
  /\ UNCHANGED <<newActionUnchanged, commands, spool, sender, tries, faults>>

InvalidUpdate(s, a) ==
  /\ newAction[s].pc = "invalidUpdate"
  /\ a \in newAction[s].act
  /\ actions' = [actions EXCEPT ![a] = IF @ = "none" THEN "none" ELSE "invalid"]
  /\ newAction' = [newAction EXCEPT ![s] =
       IF @.next = "idle" THEN NewActionIdle ELSE [@ EXCEPT !.pc = newAction[s].next]]
  /\ UNCHANGED <<newActionUnchanged, commands, spool, sender, tries, faults>>

(* Any error in processNewAction: the file, if it is still in New, is renamed  *)
(* into Invalid.  The row keeps its status.                                    *)
NewActionFails(s, a) ==
  /\ newAction[s].pc \notin {"idle", "create"}
  /\ a \in newAction[s].act
  /\ Fault
  /\ spool' = [spool EXCEPT
       ![s]["New"] = @ \ {a},
       ![s]["Invalid"] = IF a \in spool[s]["New"] THEN @ \union {a} ELSE @]
  /\ newAction' = [newAction EXCEPT ![s] = NewActionIdle]
  /\ UNCHANGED <<newActionUnchanged, actions, commands, sender, tries>>

--------------------------------------------------------------------------------
(* sendCommands, on a batch of CommandReady.                                  *)

senderUnchanged == <<unused, phase, actions, active, spool, returned, collector, newAction,
                     returnVars, executed, results, tries>>

SendTimeout(s) ==
  /\ sender[s].pc = "recv"
  /\ sender[s].batch # {}
  /\ sender' = [sender EXCEPT ![s].pc = "insert"]
  /\ UNCHANGED <<senderUnchanged, commands, inflight, toAgents, faults>>

(* One INSERT stores the whole batch.                                         *)
InsertCommands(s) ==
  /\ sender[s].pc = "insert"
  /\ commands' = [c \in Commands |-> IF c \in sender[s].batch THEN "sent" ELSE commands[c]]
  /\ sender' = [sender EXCEPT ![s].pc = "send"]
  /\ UNCHANGED <<senderUnchanged, inflight, toAgents, faults>>

SendCommandPublishedOnly(s, c) ==
  /\ sender[s].pc = "send"
  /\ c \in sender[s].batch
  /\ \/ /\ inflight' = [inflight EXCEPT ![s] = @ \union {c}]
        /\ toAgents' = toAgents \union {c}
     \/ UNCHANGED <<inflight, toAgents>>
  /\ sender' = [sender EXCEPT ![s] =
       [pc |-> IF @.batch = {c} THEN "recv" ELSE "send", batch |-> @.batch \ {c}]]
  /\ UNCHANGED <<senderUnchanged, commands, faults>>

(* The inflight file is written, and a goroutine publishes the message; when   *)
(* publishing fails, or a crash prevents it, no agent ever sees the command.   *)
SendCommand(s, c) ==
  /\ sender[s].pc = "send"
  /\ c \in sender[s].batch
  /\ inflight' = [inflight EXCEPT ![s] = @ \union {c}]
  /\ toAgents' \in {toAgents, toAgents \union {c}}
  /\ sender' = [sender EXCEPT ![s] =
       [pc |-> IF @.batch = {c} THEN "recv" ELSE "send", batch |-> @.batch \ {c}]]
  /\ UNCHANGED <<senderUnchanged, commands, faults>>

(* An error drops what is left of the batch.                                  *)
SendFails(s) ==
  /\ sender[s].pc \in {"insert", "send"}
  /\ Fault
  /\ sender' = [sender EXCEPT ![s] = SenderIdle]
  /\ UNCHANGED <<senderUnchanged, commands, inflight, toAgents>>

--------------------------------------------------------------------------------
(* The results listener: a message is acknowledged on delivery, then written   *)
(* in Returned under a fresh name; it is lost if it cannot be written, or if    *)
(* the scheduler dies in between.                                               *)
ReceiveResult(s, r) ==
  /\ r \in results
  /\ results' = results \ {r}
  /\ returned' \in {returned, [returned EXCEPT ![s] = @ \union {r}]}
  /\ UNCHANGED <<unused, phase, dbVars, spool, inflight, collector, newAction, sender,
                 returnVars, toAgents, executed, tries, faults>>

--------------------------------------------------------------------------------
(* returnCommands, on a batch of CommandReturned.                             *)

returnerUnchanged == <<unused, phase, actions, active, spool, collector, newAction, sender,
                       updater, relayVars, tries, faults>>

(* After a second without input a batcher acts on what it has, if anything.    *)
Waiting(ctr) == ctr > 0

ReturnTimeout(s) ==
  /\ returner[s].pc = "recv"
  /\ Waiting(returner[s].ctr)
  /\ returner' = [returner EXCEPT ![s].pc = "process"]
  /\ UNCHANGED <<returnerUnchanged, commands, inflight, returned, finishing, doneQueue>>

(* A file that has gone is skipped; for another one a goroutine will store the *)
(* result, while the files of the command are removed.                         *)
ReturnCommand(s, r) ==
  /\ returner[s].pc = "process"
  /\ r \in returner[s].batch
  /\ IF r \in returned[s]
     THEN /\ finishing' = [finishing EXCEPT ![s] = @ \union {r}]
          /\ inflight' = [inflight EXCEPT ![s] = @ \ {r.cmd}]
          /\ returned' = [returned EXCEPT ![s] = @ \ {r}]
     ELSE UNCHANGED <<finishing, inflight, returned>>
  /\ returner' = [returner EXCEPT ![s].batch = @ \ {r}]
  /\ UNCHANGED <<returnerUnchanged, commands, doneQueue>>

ReturnDone(s) ==
  /\ returner[s].pc = "process"
  /\ returner[s].batch = {}
  /\ returner' = [returner EXCEPT ![s] = ReturnerIdle]
  /\ UNCHANGED <<returnerUnchanged, commands, inflight, returned, finishing, doneQueue>>

(* The WHERE clause of FinishCommand: no effect on a command that is a success *)
(* or whose agent row is neither online nor idle.                              *)
MayOverwrite(c) == commands[c] # "none" /\ c.agent \in active
MayFinish(c) == commands[c] \notin {"none", "success"} /\ c.agent \in active

(* The goroutine goes on to CommandDone whether or not a row was updated.      *)
FinishCommand(s, r) ==
  /\ r \in finishing[s]
  /\ commands' = [commands EXCEPT ![r.cmd] = IF MayFinish(r.cmd) THEN r.status ELSE @]
  /\ finishing' = [finishing EXCEPT ![s] = @ \ {r}]
  /\ doneQueue' = [doneQueue EXCEPT ![s] = @ \union {r}]
  /\ UNCHANGED <<returnerUnchanged, inflight, returned, returner>>

--------------------------------------------------------------------------------
(* updateAction, on a batch of CommandDone.                                   *)

updaterUnchanged == <<unused, phase, commands, active, inflight, returned, collector,
                      newAction, sender, returner, finishing, relayVars,
                      tries>>

(* Of the finished commands the batch only keeps whose action they belong to. *)
CommandDone(s, r) ==
  /\ r \in doneQueue[s]
  /\ updater[s].pc = "recv"
  /\ doneQueue' = [doneQueue EXCEPT ![s] = @ \ {r}]
  /\ updater' = [updater EXCEPT ![s] =
       [pc    |-> IF @.ctr + 1 >= BatchSize THEN "count" ELSE "recv",
        batch |-> @.batch \union {r.cmd.action},
        ctr   |-> @.ctr + 1,
        cur   |-> {}]]
  /\ UNCHANGED <<updaterUnchanged, actions, spool, faults>>

UpdateTimeout(s) ==
  /\ updater[s].pc = "recv"
  /\ Waiting(updater[s].ctr)
  /\ updater' = [updater EXCEPT ![s].pc = "count"]
  /\ UNCHANGED <<updaterUnchanged, actions, spool, doneQueue, faults>>

Rows(a) == {c \in Commands : c.action = a /\ commands[c] # "none"}

(* GetActionCounters: Done = Sent when no row of the action is still "sent".   *)
AllDone(a) == \A c \in Rows(a) : commands[c] # "sent"

GetActionCounters(s, a) ==
  /\ updater[s].pc = "count"
  /\ a \in updater[s].batch
  /\ updater' = [updater EXCEPT ![s] = [updater[s] EXCEPT
       !.pc = IF AllDone(a) THEN "landMove" ELSE "count",
       !.batch = @ \ {a},
       !.cur = IF AllDone(a) THEN {a} ELSE {}]]
  /\ UNCHANGED <<updaterUnchanged, actions, spool, doneQueue, faults>>

UpdateDone(s) ==
  /\ updater[s].pc = "count"
  /\ updater[s].batch = {}
  /\ updater' = [updater EXCEPT ![s] = UpdaterIdle]
  /\ UNCHANGED <<updaterUnchanged, actions, spool, doneQueue, faults>>

(* landAction writes the file in Done and removes the one in InFlight, ...     *)
LandMove(s, a) ==
  /\ updater[s].pc = "landMove"
  /\ a \in updater[s].cur
  /\ spool' = [spool EXCEPT ![s]["Done"] = @ \union {a}, ![s]["InFlight"] = @ \ {a}]
  /\ updater' = [updater EXCEPT ![s].pc = "landFinish"]
  /\ UNCHANGED <<updaterUnchanged, actions, doneQueue, faults>>

(* ... and updates the row.                                                   *)
LandedAsDone == "done"
LandedStatus == "completed"

FinishAction(s, a) ==
  /\ updater[s].pc = "landFinish"
  /\ a \in updater[s].cur
  /\ actions' = [actions EXCEPT ![a] = LandedStatus]
  /\ updater' = [updater EXCEPT ![s].pc = "landRename"]
  /\ UNCHANGED <<updaterUnchanged, spool, doneQueue, faults>>

(* The rename that follows landAction finds a file only if flyAction wrote it  *)
(* since LandMove.                                                             *)
LandRename(s, a) ==
  /\ updater[s].pc = "landRename"
  /\ a \in updater[s].cur
  /\ RemoveFile(s, "InFlight", a)
  /\ updater' = [updater EXCEPT ![s] = [@ EXCEPT !.pc = "count", !.cur = {}]]
  /\ UNCHANGED <<updaterUnchanged, actions, doneQueue, faults>>

UpdateFails(s) ==
  /\ updater[s].pc # "recv"
  /\ Fault
  /\ updater' = [updater EXCEPT ![s] = UpdaterIdle]
  /\ UNCHANGED <<updaterUnchanged, actions, spool, doneQueue>>

--------------------------------------------------------------------------------
(* A crash loses the goroutines and keeps the spool, the database and the      *)
(* relays; the restarted scheduler begins with a collector pass.               *)
Crash(s) ==
  /\ Fault
  /\ collector' = [collector EXCEPT ![s] = CollectorIdle]
  /\ newAction' = [newAction EXCEPT ![s] = NewActionIdle]
  /\ sender' = [sender EXCEPT ![s] = SenderIdle]
  /\ returner' = [returner EXCEPT ![s] = ReturnerIdle]
  /\ finishing' = [finishing EXCEPT ![s] = {}]
  /\ doneQueue' = [doneQueue EXCEPT ![s] = {}]
  /\ updater' = [updater EXCEPT ![s] = UpdaterIdle]
  /\ UNCHANGED <<unused, phase, dbVars, diskVars, relayVars, tries>>

Environment ==
  \/ \E a \in Actions : Tick(a) \/ CreateAction(a)
  \/ \E s \in Schedulers, a \in Actions : IssueKillAction(s, a)
  \/ \E g \in Agents : AgentGone(g) \/ AgentBack(g)
  \/ \E c \in toAgents : CommandLost(c) \/ \E o \in AgentOutcomes : AgentReturn(c, o)

Collector(s) ==
  \/ SetupRunnableActions(s)
  \/ CollectorStage(s)
  \/ \E a \in Actions : SetupAction(s, a) \/ LoadNewActionFromSpool(s, a)
  \/ \E r \in Results : LoadReturnedCommand(s, r)
  \/ \E c \in Commands : ExpireCommand(s, c) \/ ExpireMove(s, c)

ProcessNewAction(s) ==
  \/ CommandsCreated(s)
  \/ \E a \in Actions :
       \/ ActionFromFile(s, a) \/ ActiveAgentsByTarget(s, a) \/ InsertOrUpdateAction(s, a)
       \/ \E g \in Agents : CreateCommand(s, a, g)
       \/ FlyMove(s, a) \/ FlyUpdate(s, a)
       \/ InvalidMove(s, a) \/ InvalidUpdate(s, a)

SendCommands(s) ==
  \/ SendTimeout(s) \/ InsertCommands(s)
  \/ \E c \in sender[s].batch : SendCommand(s, c)

ReceiveResults(s) == \E r \in results : ReceiveResult(s, r)

ReturnBatch(s) ==
  \/ ReturnTimeout(s) \/ ReturnDone(s)
  \/ \E r \in returner[s].batch : ReturnCommand(s, r)

ReturnCommands(s) == ReturnBatch(s) \/ \E r \in finishing[s] : FinishCommand(s, r)

UpdateAction(s) ==
  \/ UpdateTimeout(s) \/ UpdateDone(s)
  \/ \E r \in doneQueue[s] : CommandDone(s, r)
  \/ \E a \in Actions :
       \/ GetActionCounters(s, a) \/ LandMove(s, a)
       \/ FinishAction(s, a) \/ LandRename(s, a)

Failures(s) ==
  \/ CollectorFails(s) \/ SendFails(s) \/ UpdateFails(s) \/ Crash(s)
  \/ \E a \in Actions : NewActionFails(s, a) \/ \E g \in Agents : CreateCommandFails(s, a, g)

Next ==
  \/ Environment
  \/ \E s \in Schedulers :
       \/ Collector(s) \/ ProcessNewAction(s) \/ SendCommands(s) \/ ReceiveResults(s)
       \/ ReturnCommands(s) \/ UpdateAction(s) \/ Failures(s)

Spec == Init /\ [][Next]_vars

(* Goroutines are scheduled fairly.  Nothing is assumed of agents, relays,     *)
(* investigators and failures.  The goroutines that store results are on their *)
(* own; all the others take their steps one by one.                            *)
Fairness ==
  \A s \in Schedulers :
    /\ WF_vars(Collector(s))
    /\ WF_vars(ProcessNewAction(s))
    /\ WF_vars(SendCommands(s))
    /\ WF_vars(ReturnBatch(s))
    /\ \A r \in Results : WF_vars(FinishCommand(s, r))
    /\ WF_vars(UpdateAction(s))

FairSpec == Spec /\ Fairness

(* Time reaches the ExpireAfter of every action.                              *)
TimedSpec == FairSpec /\ \A a \in Actions : WF_vars(Tick(a))

--------------------------------------------------------------------------------
(* Properties.                                                                 *)

ActionStatuses ==
  {"none", "pending", "scheduled", "preparing", "inflight", "completed", "invalid"}

TablesType ==
  /\ unused \subseteq Actions
  /\ phase \in [Actions -> {"early", "valid", "expired"}]
  /\ actions \in [Actions -> ActionStatuses]
  /\ active \subseteq Agents
  /\ tries \in [Actions -> 0..MaxTries]
  /\ faults \in 0..MaxFaults

CommandsType == commands \in [Commands -> {"none", "sent"} \union Finished]

SpoolType == spool \in [Schedulers -> [Dirs -> SUBSET Actions]]

FilesType ==
  /\ inflight \in [Schedulers -> SUBSET Commands]
  /\ returned \in [Schedulers -> SUBSET Results]

CollectorState ==
  [pc : {"setup", "spool", "returned", "expire", "expireMove"},
   todo : SUBSET (Actions \union Commands \union Results), cur : SUBSET Commands]
NewActionState ==
  [pc : {"idle", "load", "targets", "store", "create", "flyMove", "flyUpdate",
         "invalidMove", "invalidUpdate"},
   act : {{}} \union {{a} : a \in Actions}, todo : SUBSET Agents, created : BOOLEAN, next : {"idle", "store"}]
SenderState == [pc : {"recv", "insert", "send"}, batch : SUBSET Commands]
ReturnerState == [pc : {"recv", "process"}, batch : SUBSET Results, ctr : Nat]
UpdaterState ==
  [pc : {"recv", "count", "landMove", "landFinish", "landRename"},
   batch : SUBSET Actions, ctr : Nat, cur : {{}} \union {{a} : a \in Actions}]

(* What the collector has listed are actions, results or commands, according   *)
(* to the stage it is in.                                                      *)
ListingType ==
  \A s \in Schedulers :
    /\ collector[s].pc \in {"setup", "spool"} => collector[s].todo \subseteq Actions
    /\ collector[s].pc = "returned" => collector[s].todo \subseteq Results
    /\ collector[s].pc \in {"expire", "expireMove"} => collector[s].todo \subseteq Commands

CollectorType == collector \in [Schedulers -> CollectorState] /\ ListingType

NewActionType == newAction \in [Schedulers -> NewActionState]

(* Commands are only created in a run that has been counted.                   *)
TriesType ==
  \A s \in Schedulers : newAction[s].pc = "create" => \A a \in newAction[s].act : tries[a] # 0

SenderType == sender \in [Schedulers -> SenderState]

ReturnerType ==
  /\ returner \in [Schedulers -> ReturnerState]
  /\ finishing \in [Schedulers -> SUBSET Results]
  /\ doneQueue \in [Schedulers -> SUBSET Results]

UpdaterType == updater \in [Schedulers -> UpdaterState]

RelayType ==
  /\ toAgents \subseteq Commands
  /\ executed \subseteq Results
  /\ results \subseteq Results

(* The values each variable can take: in particular which goroutine states and *)
(* which statuses of actions and commands occur.                               *)
TypeOK ==
  /\ TablesType /\ CommandsType /\ SpoolType /\ FilesType /\ CollectorType
  /\ NewActionType /\ TriesType /\ SenderType /\ ReturnerType /\ UpdaterType /\ RelayType

(* The comment of FinishCommand: a command that is a success stays one, even   *)
(* when a late expiration, maybe of another scheduler, or a second result of   *)
(* the same command is stored after it.                                        *)
SuccessIsFinal ==
  [][\A c \in Commands : commands[c] = "success" => commands'[c] = "success"]_vars

(* The commands table, as the abstract specification sees it: a row is          *)
(* inserted once, as sent, and then follows the life of a command.              *)
Lifecycle == INSTANCE CommandLifecycle WITH
  Command <- Commands, Outcomes <- Finished, status <- commands

CommandLifecycleSpec == Lifecycle!Spec

(* What the statuses of a command mean (command.go): one that an agent returns *)
(* was returned by the agent, with this status, and an expired command is one  *)
(* whose action has expired.                                                   *)
OutcomeIsGenuine ==
  \A c \in Commands :
    /\ commands[c] \in AgentOutcomes => [cmd |-> c, status |-> commands[c]] \in executed
    /\ commands[c] = "expired" => phase[c.action] = "expired"

(* Scheduler s has action a in its hands, on its way to being sent.            *)
Holds(s, a) ==
  \/ a \in spool[s]["New"] \union spool[s]["InFlight"] \union spool[s]["Invalid"]
  \/ collector[s].pc \in {"setup", "spool"} /\ a \in collector[s].todo
  \/ a \in newAction[s].act

(* SetupRunnableActions is "designed to run concurrently across multiple        *)
(* schedulers": an action is only ever processed by one of them.                *)
SingleOwner ==
  \A a \in Actions : \A s, t \in Schedulers : Holds(s, a) /\ Holds(t, a) => s = t

(* An action that processNewAction has taken up and that has not expired has a *)
(* file in some directory of some spool, whatever crashes and errors: it can   *)
(* still be processed again, or found among the done and invalid ones.         *)
SpoolKeepsAction ==
  \A a \in Actions :
    actions[a] \in {"preparing", "inflight", "completed", "invalid"} /\ phase[a] # "expired"
      => \E s \in Schedulers, d \in Dirs : a \in spool[s][d]

(* Without faults, an agent is sent at most one command per action, also when  *)
(* several schedulers look for runnable actions.                               *)
OneCommandPerAgent ==
  \A c, d \in Commands :
    /\ commands[c] # "none" /\ commands[d] # "none"
    /\ c.action = d.action /\ c.agent = d.agent
    => c = d

(* Without faults, and while agent rows stay active, a command that the        *)
(* database has as sent is on its way out, has an inflight file (from which it *)
(* can expire), or has a result that is being stored.                          *)
SentIsTracked ==
  \A c \in Commands : commands[c] = "sent" =>
    \E s \in Schedulers :
      \/ sender[s].pc = "send" /\ c \in sender[s].batch
      \/ c \in inflight[s]
      \/ \E r \in returned[s] \union finishing[s] : r.cmd = c

(* While agent rows stay active, every command that is sent is eventually       *)
(* finished, unless a fault occurs: at the latest it expires with its action.   *)
SentIsFinished ==
  \A c \in Commands : commands[c] = "sent" ~> commands[c] \in Finished \/ faults > 0

(* A valid action in New does not stay there, even if the scheduler crashes     *)
(* while it processes it: it is sent or invalidated, or it expires.              *)
NewDrains ==
  \A s \in Schedulers, a \in Actions :
    a \in spool[s]["New"] /\ phase[a] = "valid" ~> a \notin spool[s]["New"]

================================================================================
