------------------------------- MODULE AgentExec -------------------------------
(******************************************************************************)
(* How mig-agent runs commands.                                               *)
(*                                                                            *)
(* Goroutines connected by channels of limited capacity: getCommands (or the    *)
(* loop of runAgentCheckin) takes a message from the relay and acknowledges it; *)
(* parseCommands sends the operations of a command, one by one, to the one      *)
(* goroutine that runs modules, and then starts receiveModuleResults for the    *)
(* command; the results of the modules go there over an unbuffered channel of   *)
(* the command; the answer goes to sendResults.  The map runningOps is shared   *)
(* by these goroutines without a lock.                                          *)
(******************************************************************************)
EXTENDS Naturals, Sequences, Functions

CONSTANTS
  Commands,       \* the commands that the relay holds for the agent
  Width,          \* Width[c]: number of operations of command c
  Rejected,       \* commands that checkActionAuthorization refuses
  NewCommandCap,  \* capacity of the channel NewCommand (7 in context.go)
  RunCap,         \* capacity of the channel RunAgentCommand (5)
  ResultsCap,     \* capacity of the channel Results (5)
  Agents          \* how the agent may be built and started: the operations whose
                  \* modules it does not have, and whether it runs in checkin mode

ASSUME AgentExecAssumption ==
  /\ Width \in [Commands -> Nat]
  /\ Rejected \subseteq Commands
  /\ NewCommandCap \in Nat \ {0} /\ RunCap \in Nat \ {0} /\ ResultsCap \in Nat \ {0}
  /\ Agents \subseteq [missing : SUBSET [cmd : Commands, pos : Nat], checkin : BOOLEAN]

Positions(c) == 1..Width[c]
Operations == UNION {[cmd : {c}, pos : Positions(c)] : c \in Commands}

Statuses == {"success", "failed", "timeout"}

(* A result of a module: of which operation, and how it ended.                *)
Outcomes == [op : Operations, status : Statuses]

VARIABLES
  build,       \* which of Agents it is
  agent,       \* "running", "leaving" (checkin, waiting for modules), or how it ended
  relay,       \* messages not yet acknowledged
  newCommand,  \* channel from getCommands to parseCommands
  parser,      \* the parseCommands goroutine: its command and the next operation
  runQueue,    \* channel from parseCommands to runModule
  runner,      \* the runModule goroutine
  running,     \* entries of runningOps without an error
  failedOps,   \* entries of runningOps with an error; no code removes them
  receiver,    \* receiver[c]: the receiveModuleResults goroutine of command c
  closed,      \* commands whose resultChan is closed
  outgoing,    \* channel from receiveModuleResults to sendResults
  published,   \* answers published to the relay
  lost         \* commands whose answer could not be published

vars == <<build, agent, relay, newCommand, parser, runQueue, runner, running, failedOps,
          receiver, closed, outgoing, published, lost>>

Missing == build.missing
Checkin == build.checkin

ParserIdle == [pc |-> "idle", cmd |-> {}, pos |-> 1]
RunnerIdle == [pc |-> "idle", result |-> {}]

(* cmd.Results starts with empty entries and cmd.Status as success.           *)
ReceiverNew(c) ==
  [pc |-> "none", scan |-> {}, seen |-> {}, status |-> "success", count |-> 0,
   results |-> [i \in Positions(c) |-> {}]]

Init ==
  /\ build \in Agents
  /\ agent = "running"
  /\ relay = Commands
  /\ newCommand = <<>> /\ runQueue = <<>> /\ outgoing = <<>>
  /\ parser = ParserIdle
  /\ runner = RunnerIdle
  /\ running = {} /\ failedOps = {}
  /\ receiver = [c \in Commands |-> ReceiverNew(c)]
  /\ closed = {} /\ published = {} /\ lost = {}

Up == agent \in {"running", "leaving"}

--------------------------------------------------------------------------------
(* getCommands, and the receiving loop of runAgentCheckin.                    *)
GetCommand(c) ==
  /\ agent = "running"
  /\ c \in relay
  /\ Len(newCommand) < NewCommandCap
  /\ relay' = relay \ {c}
  /\ newCommand' = Append(newCommand, c)
  /\ UNCHANGED <<build, agent, parser, runQueue, runner, running, failedOps, receiver, closed,
                 outgoing, published, lost>>

(* In checkin mode, three seconds without a message end the loop, ...          *)
CheckinLeave ==
  /\ Checkin /\ agent = "running"
  /\ agent' = "leaving"
  /\ UNCHANGED <<build, relay, newCommand, parser, runQueue, runner, running, failedOps, receiver,
                 closed, outgoing, published, lost>>

(* ... and the agent exits as soon as runningOps is empty.                     *)
CheckinExit ==
  /\ agent = "leaving"
  /\ running = {} /\ failedOps = {}
  /\ agent' = "exited"
  /\ UNCHANGED <<build, relay, newCommand, parser, runQueue, runner, running, failedOps, receiver,
                 closed, outgoing, published, lost>>

(* The timer of main ends an agent in checkin mode that takes too long.        *)
CheckinTimeout ==
  /\ Checkin /\ Up
  /\ agent' = "expired"
  /\ UNCHANGED <<build, relay, newCommand, parser, runQueue, runner, running, failedOps, receiver,
                 closed, outgoing, published, lost>>

(* The relay closes the channel of messages, or a signal arrives: runAgent      *)
(* receives a termination order and destroys the agent.                         *)
Terminate ==
  /\ ~ Checkin /\ Up
  /\ agent' = "terminated"
  /\ UNCHANGED <<build, relay, newCommand, parser, runQueue, runner, running, failedOps, receiver,
                 closed, outgoing, published, lost>>

--------------------------------------------------------------------------------
(* parseCommands.                                                             *)

parserUnchanged == <<build, agent, relay, runner, closed, published, lost>>

ParseCommand ==
  /\ Up
  /\ parser.pc = "idle"
  /\ newCommand # <<>>
  /\ LET c == Head(newCommand) IN
       parser' = [pc |-> IF c \in Rejected THEN "reject" ELSE "register", cmd |-> {c}, pos |-> 1]
  /\ newCommand' = Tail(newCommand)
  /\ UNCHANGED <<parserUnchanged, runQueue, running, failedOps, receiver, outgoing>>

(* A command that is refused is answered at once, with an error per operation. *)
RejectCommand(c) ==
  /\ Up
  /\ parser.pc = "reject" /\ c \in parser.cmd
  /\ Len(outgoing) < ResultsCap
  /\ outgoing' = Append(outgoing,
       [cmd |-> c, status |-> "failed",
        results |-> [i \in Positions(c) |->
                       {[op |-> [cmd |-> c, pos |-> i], status |-> "failed"]}]])
  /\ parser' = ParserIdle
  /\ UNCHANGED <<parserUnchanged, newCommand, runQueue, running, failedOps, receiver>>

(* An operation is entered in runningOps, with an error if its module is        *)
(* missing; ...                                                                 *)
RegisterOperation(c) ==
  /\ Up
  /\ parser.pc = "register" /\ c \in parser.cmd
  /\ parser.pos <= Width[c]
  /\ LET op == [cmd |-> c, pos |-> parser.pos] IN
       \/ /\ op \in Missing
          /\ failedOps' = failedOps \union {op}
          /\ parser' = [parser EXCEPT !.pos = @ + 1]
          /\ UNCHANGED running
       \/ /\ op \notin Missing
          /\ running' = running \union {op}
          /\ parser' = [parser EXCEPT !.pc = "push"]
          /\ UNCHANGED failedOps
  /\ UNCHANGED <<parserUnchanged, newCommand, runQueue, receiver, outgoing>>

(* ... otherwise it is sent to the channel, once there is room.                *)
PushOperation(c) ==
  /\ Up
  /\ parser.pc = "push" /\ c \in parser.cmd
  /\ Len(runQueue) < RunCap
  /\ runQueue' = Append(runQueue, [cmd |-> c, pos |-> parser.pos])
  /\ parser' = [parser EXCEPT !.pc = "register", !.pos = parser.pos + 1]
  /\ UNCHANGED <<parserUnchanged, newCommand, running, failedOps, receiver, outgoing>>

(* The receiver of the results is started after all operations have been sent. *)
StartReceiver(c) ==
  /\ Up
  /\ parser.pc = "register" /\ c \in parser.cmd
  /\ parser.pos > Width[c]
  /\ receiver' = [receiver EXCEPT ![c].pc = "started"]
  /\ parser' = ParserIdle
  /\ UNCHANGED <<parserUnchanged, newCommand, runQueue, running, failedOps, outgoing>>

--------------------------------------------------------------------------------
(* runModule.                                                                 *)

runnerUnchanged == <<build, relay, newCommand, parser, failedOps, closed, outgoing, published, lost>>

RunModule ==
  /\ Up
  /\ runner.pc = "idle"
  /\ runQueue # <<>>
  /\ runner' = [pc |-> "run", result |-> {[op |-> Head(runQueue), status |-> "success"]}]
  /\ runQueue' = Tail(runQueue)
  /\ UNCHANGED <<runnerUnchanged, agent, running, receiver>>

(* delete(runningOps, op.id)                                                   *)
NothingRemoved(op) == running
Removed(op) == running \ {op}

(* The module exits, fails, or is killed by the timeout; the operation leaves   *)
(* runningOps before its result is sent.                                        *)
ModuleEnds(r, status) ==
  /\ Up
  /\ runner.pc = "run" /\ r \in runner.result
  /\ runner' = [pc |-> "deliver", result |-> {[op |-> r.op, status |-> status]}]
  /\ running' = Removed(r.op)
  /\ UNCHANGED <<runnerUnchanged, agent, runQueue, receiver>>

(* A failure status overrides a success one.                                   *)
LastStatus(old, new) == new
WorstStatus(old, new) == IF old = "success" THEN new ELSE old

EnoughEarly(c, count) == count + 1 >= Width[c]
EnoughLate(c, count) == count > Width[c]
Enough(c, count) == count >= Width[c]

(* The receiver of command c enters a result; it goes on until it has enough.  *)
WithResult(c, i, r, status) ==
  [receiver[c] EXCEPT !.status = status, !.results[i] = {r}, !.count = @ + 1,
                      !.pc = IF Enough(c, receiver[c].count + 1) THEN "finish" ELSE @]

(* receiveModuleResults takes the result: runner and receiver meet.            *)
ReceiveModuleResult(r) ==
  /\ Up
  /\ runner.pc = "deliver" /\ r \in runner.result
  /\ LET c == r.op.cmd IN
       /\ c \notin closed
       /\ receiver[c].pc = "recv"
       /\ receiver' = [receiver EXCEPT ![c] =
            WithResult(c, r.op.pos, r, WorstStatus(receiver[c].status, r.status))]
  /\ runner' = RunnerIdle
  /\ UNCHANGED <<runnerUnchanged, agent, runQueue, running>>

(* The deferred send of runModule panics on a closed channel, after its recover. *)
SendOnClosed(r) ==
  /\ Up
  /\ runner.pc = "deliver" /\ r \in runner.result
  /\ r.op.cmd \in closed
  /\ agent' = "crashed"
  /\ UNCHANGED <<runnerUnchanged, runQueue, runner, running, receiver>>

--------------------------------------------------------------------------------
(* receiveModuleResults.                                                      *)

receiverUnchanged == <<build, relay, newCommand, parser, runQueue, runner, running, failedOps,
                       published, lost>>

(* It first ranges over runningOps, all commands' entries, for the ones that    *)
(* failed; entries added meanwhile may or may not be seen.                      *)
BeginScan(c) ==
  /\ Up
  /\ receiver[c].pc = "started"
  /\ receiver' = [receiver EXCEPT ![c] = [@ EXCEPT !.pc = "scan", !.scan = failedOps]]
  /\ UNCHANGED <<receiverUnchanged, agent, closed, outgoing>>

(* The entry's position may be beyond this command's results: the goroutine     *)
(* panics, recovers and ends.                                                   *)
ScanFailed(c, op) ==
  /\ Up
  /\ receiver[c].pc = "scan"
  /\ op \in failedOps \ receiver[c].seen
  /\ \/ /\ op.pos \in Positions(c)
        /\ receiver' = [receiver EXCEPT ![c] =
             [WithResult(c, op.pos, [op |-> op, status |-> "failed"], "failed") EXCEPT
                !.seen = @ \union {op}]]
     \/ /\ op.pos \notin Positions(c)
        /\ receiver' = [receiver EXCEPT ![c].pc = "dead"]
  /\ UNCHANGED <<receiverUnchanged, agent, closed, outgoing>>

EndScan(c) ==
  /\ Up
  /\ receiver[c].pc = "scan"
  /\ receiver[c].scan \subseteq receiver[c].seen
  /\ receiver' = [receiver EXCEPT ![c].pc = "recv"]
  /\ UNCHANGED <<receiverUnchanged, agent, closed, outgoing>>

(* The runtime aborts a program when it catches a write to a map, by            *)
(* parseCommands or runModule, during an iteration over it.                     *)
MapRace(c) ==
  /\ Up
  /\ receiver[c].pc = "scan"
  /\ parser.pc = "register" \/ runner.pc = "run"
  /\ agent' = "crashed"
  /\ UNCHANGED <<receiverUnchanged, receiver, closed, outgoing>>

ForwardCommand(c) ==
  /\ Up
  /\ receiver[c].pc = "finish"
  /\ Len(outgoing) < ResultsCap
  /\ outgoing' = Append(outgoing, [cmd |-> c, status |-> receiver[c].status,
                                   results |-> receiver[c].results])
  /\ receiver' = [receiver EXCEPT ![c].pc = "close"]
  /\ UNCHANGED <<receiverUnchanged, agent, closed>>

CloseResultChan(c) ==
  /\ Up
  /\ receiver[c].pc = "close"
  /\ closed' = closed \union {c}
  /\ receiver' = [receiver EXCEPT ![c].pc = "done"]
  /\ UNCHANGED <<receiverUnchanged, agent, outgoing>>

--------------------------------------------------------------------------------
(* sendResults and publish.                                                   *)

senderUnchanged == <<build, relay, newCommand, parser, runQueue, runner, running, failedOps,
                     receiver, closed>>

SendResults ==
  /\ Up
  /\ outgoing # <<>>
  /\ published' = published \union {Head(outgoing)}
  /\ outgoing' = Tail(outgoing)
  /\ UNCHANGED <<senderUnchanged, agent, lost>>

(* When all tries fail the answer is dropped and the termination of the agent   *)
(* is ordered; in checkin mode nobody listens to that order.                    *)
PublishFails ==
  /\ Up
  /\ outgoing # <<>>
  /\ lost' = lost \union {Head(outgoing).cmd}
  /\ outgoing' = Tail(outgoing)
  /\ agent' = IF Checkin THEN agent ELSE "terminated"
  /\ UNCHANGED <<senderUnchanged, published>>

--------------------------------------------------------------------------------
Parser ==
  \/ ParseCommand
  \/ \E c \in parser.cmd : \/ RejectCommand(c) \/ RegisterOperation(c)
                           \/ PushOperation(c) \/ StartReceiver(c)

Runner ==
  \/ RunModule
  \/ \E r \in runner.result : \/ ReceiveModuleResult(r) \/ SendOnClosed(r)
                              \/ \E status \in Statuses : ModuleEnds(r, status)

Receiver(c) ==
  \/ BeginScan(c) \/ EndScan(c) \/ ForwardCommand(c) \/ CloseResultChan(c)
  \/ \E op \in failedOps : ScanFailed(c, op)

Next ==
  \/ \E c \in Commands : GetCommand(c) \/ Receiver(c) \/ MapRace(c)
  \/ CheckinLeave \/ CheckinExit \/ CheckinTimeout \/ Terminate
  \/ Parser \/ Runner \/ SendResults \/ PublishFails

Spec == Init /\ [][Next]_vars

(* Goroutines are scheduled fairly, and runModule waits for a module no longer   *)
(* than the timeout.  Nothing is assumed of the relay.                           *)
FairSpec ==
  /\ Spec
  /\ WF_vars(Parser) /\ WF_vars(Runner) /\ WF_vars(SendResults)
  /\ \A c \in Commands : WF_vars(Receiver(c))

--------------------------------------------------------------------------------
(* Properties.                                                                 *)

Answers == {p.cmd : p \in published}

ReceiverState ==
  [pc : {"none", "started", "scan", "recv", "finish", "close", "done", "dead"},
   scan : SUBSET Operations, seen : SUBSET Operations, status : Statuses, count : Nat,
   results : Seq(SUBSET Outcomes)]

AnswerState == [cmd : Commands, status : Statuses, results : Seq(SUBSET Outcomes)]

ParserState ==
  [pc : {"idle", "reject", "register", "push"}, cmd : SUBSET Commands, pos : Nat \ {0}]

RunnerState == [pc : {"idle", "run", "deliver"}, result : SUBSET Outcomes]

ChannelType ==
  /\ newCommand \in Seq(Commands) /\ Len(newCommand) <= NewCommandCap
  /\ runQueue \in Seq(Operations) /\ Len(runQueue) <= RunCap
  /\ outgoing \in Seq(AnswerState) /\ Len(outgoing) <= ResultsCap

AgentType ==
  /\ build \in Agents
  /\ agent \in {"running", "leaving", "exited", "expired", "crashed", "terminated"}
  /\ relay \subseteq Commands /\ closed \subseteq Commands /\ lost \subseteq Commands
  /\ published \subseteq AnswerState

GoroutineType ==
  /\ parser \in ParserState
  /\ runner \in RunnerState
  /\ running \subseteq Operations /\ failedOps \subseteq Operations

ReceiverType ==
  /\ receiver \in [Commands -> ReceiverState]
  /\ \A c \in Commands : Len(receiver[c].results) = Width[c]

(* The states of the goroutines, and the capacities of the channels.          *)
TypeOK == AgentType /\ ChannelType /\ GoroutineType /\ ReceiverType

(* The results of a command at the given positions are those of its own           *)
(* operations, and status is success exactly when all of them are, else the        *)
(* status of one that is not.                                                      *)
OwnResults(c, positions, status, results) ==
  /\ \A i \in positions :
       \E s \in Statuses : results[i] = {[op |-> [cmd |-> c, pos |-> i], status |-> s]}
  /\ status = "success" => \A i \in positions : \A r \in results[i] : r.status = "success"
  /\ status # "success" => \E i \in positions : \E r \in results[i] : r.status = status

(* doc/agent.rst: an answer has the results of all operations of its command,   *)
(* each at the position of its operation, and the status that they make. A       *)
(* missing module is excepted: its error gets into the answers of other          *)
(* commands. A command without operations is only answered when it is refused.   *)
AnswerIsOwn ==
  Missing = {} => \A p \in published :
    IF Positions(p.cmd) = {} THEN p.cmd \in Rejected /\ p.status = "failed"
    ELSE OwnResults(p.cmd, Positions(p.cmd), p.status, p.results)

(* runningOps has exactly the operations that are on their way to or in         *)
(* runModule: checkin mode relies on it to know whether modules are running.    *)
(* Goroutines and channels are as TypeOK says.                                  *)
RunningIsTracked ==
  /\ TypeOK
  /\ Up => running =
       Range(runQueue)
       \union {r.op : r \in IF runner.pc = "run" THEN runner.result ELSE {}}
       \union {[cmd |-> c, pos |-> parser.pos] : c \in IF parser.pc = "push" THEN parser.cmd ELSE {}}

(* A result is never sent on a closed channel, which would crash the agent. It   *)
(* does happen after a missing module, whose error completes other commands.    *)
NoSendOnClosed == Missing = {} => \A r \in runner.result : r.op.cmd \notin closed

(* Every command that the agent has acknowledged is answered, unless the agent  *)
(* stops, the relay fails or modules are missing.                               *)
CommandIsAnswered ==
  \A c \in Commands : (c \notin relay /\ Missing = {}) ~> (c \in Answers \union lost \/ ~ Up)

================================================================================
