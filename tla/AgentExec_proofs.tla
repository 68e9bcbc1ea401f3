---------------------------- MODULE AgentExec_proofs ----------------------------
(******************************************************************************)
(* Theorems about AgentExec, for any commands with any number of operations,   *)
(* any capacities of the channels, and any agent: with or without all modules,  *)
(* in checkin mode or not.                                                      *)
(******************************************************************************)
EXTENDS AgentExec, SequenceTheorems, FiniteSetTheorems, TLAPS

--------------------------------------------------------------------------------
(* The channels of the agent, as sequences.                                    *)

(* What is sent is added to what a channel holds, ...                          *)
LEMMA AppendRange ==
  ASSUME NEW S, NEW q \in Seq(S), NEW x \in S
  PROVE  /\ Append(q, x) \in Seq(S)
         /\ Len(Append(q, x)) = Len(q) + 1
         /\ Range(Append(q, x)) = Range(q) \union {x}
<1> DEFINE p == Append(q, x)
<1>1. /\ p \in Seq(S) /\ Len(p) = Len(q) + 1
      /\ \A i \in 1..Len(q) : p[i] = q[i]
      /\ p[Len(q) + 1] = x
  BY AppendProperties
<1>2. Len(q) \in Nat /\ Range(q) = {q[i] : i \in 1..Len(q)} /\ Range(p) = {p[i] : i \in 1..Len(p)}
  BY <1>1, RangeEquality, LenProperties
<1>3. 1..Len(p) = 1..Len(q) \union {Len(q) + 1}
  BY <1>1, <1>2
<1> HIDE DEF p
<1>4. Range(p) = Range(q) \union {x}
  BY <1>1, <1>2, <1>3
<1> QED
  BY <1>1, <1>4 DEF p

(* ... and is not there twice unless it was sent twice.                        *)
LEMMA AppendInjectiveQueue ==
  ASSUME NEW S, NEW q \in Seq(S), NEW x \in S, IsInjective(q), x \notin Range(q)
  PROVE  IsInjective(Append(q, x))
<1> DEFINE p == Append(q, x)
<1>1. /\ p \in Seq(S) /\ Len(p) = Len(q) + 1
      /\ \A i \in 1..Len(q) : p[i] = q[i]
      /\ p[Len(q) + 1] = x
  BY AppendProperties
<1>2. Len(q) \in Nat /\ DOMAIN q = 1..Len(q) /\ DOMAIN p = 1..Len(p)
  BY <1>1, LenProperties
<1>3. \A i \in 1..Len(q) : q[i] # x
  BY <1>2 DEF Range
<1> HIDE DEF p
<1>4. IsInjective(p)
  BY <1>1, <1>2, <1>3 DEF IsInjective
<1> QED
  BY <1>4 DEF p

(* What is received is taken from what a channel holds, ...                     *)
LEMMA TailRange ==
  ASSUME NEW S, NEW q \in Seq(S), q # <<>>
  PROVE  /\ Head(q) \in S /\ Tail(q) \in Seq(S)
         /\ Len(Tail(q)) = Len(q) - 1 /\ Len(q) \in Nat \ {0}
         /\ Range(q) = {Head(q)} \union Range(Tail(q))
<1> DEFINE p == Tail(q)
<1>1. /\ Head(q) \in S /\ p \in Seq(S) /\ Len(p) = Len(q) - 1 /\ Len(q) \in Nat \ {0}
      /\ \A i \in 1..Len(p) : p[i] = q[i + 1]
      /\ Head(q) = q[1]
  BY HeadTailProperties, EmptySeq
<1>2. Range(q) = {q[i] : i \in 1..Len(q)} /\ Range(p) = {p[i] : i \in 1..Len(p)}
  BY <1>1, RangeEquality, ZenonT(30)
<1> HIDE DEF p
<1>3. \A i \in 1..Len(q) : i = 1 \/ \E j \in 1..Len(p) : i = j + 1
  <2> SUFFICES ASSUME NEW i \in 1..Len(q), i # 1 PROVE \E j \in 1..Len(p) : i = j + 1
    OBVIOUS
  <2>1. i - 1 \in 1..Len(p) /\ i = (i - 1) + 1
    BY <1>1
  <2> QED
    BY <2>1
<1>4. \A j \in 1..Len(p) : j + 1 \in 1..Len(q)
  BY <1>1
<1>5. Range(q) = {Head(q)} \union Range(p)
  <2>1. \A x \in Range(q) : x = Head(q) \/ x \in Range(p)
    <3> SUFFICES ASSUME NEW i \in 1..Len(q) PROVE q[i] = Head(q) \/ q[i] \in Range(p)
      BY <1>2
    <3>1. CASE i = 1
      BY <1>1, <3>1
    <3>2. ASSUME NEW j \in 1..Len(p), i = j + 1 PROVE q[i] \in Range(p)
      <4>1. p[j] = q[i]
        BY <1>1, <3>2
      <4> QED
        BY <1>2, <4>1
    <3> QED
      BY <1>3, <3>1, <3>2
  <2>2. \A x \in Range(p) : x \in Range(q)
    BY <1>1, <1>2, <1>4
  <2>3. Head(q) \in Range(q)
    BY <1>1, <1>2
  <2> QED
    BY <2>1, <2>2, <2>3
<1> QED
  BY <1>1, <1>5 DEF p

(* ... and is not there any more, unless it was sent twice.                      *)
LEMMA TailInjectiveQueue ==
  ASSUME NEW S, NEW q \in Seq(S), q # <<>>, IsInjective(q)
  PROVE  IsInjective(Tail(q)) /\ Head(q) \notin Range(Tail(q))
<1> DEFINE p == Tail(q)
<1>1. /\ p \in Seq(S) /\ Len(p) = Len(q) - 1 /\ Len(q) \in Nat \ {0}
      /\ \A i \in 1..Len(p) : p[i] = q[i + 1]
      /\ Head(q) = q[1]
  BY HeadTailProperties, EmptySeq
<1>2. DOMAIN q = 1..Len(q) /\ DOMAIN p = 1..Len(p)
  BY <1>1, LenProperties
<1> HIDE DEF p
<1>3. IsInjective(p)
  BY <1>1, <1>2, SMTT(30) DEF IsInjective
<1>4. Head(q) \notin Range(p)
  <2> SUFFICES ASSUME NEW i \in 1..Len(p), p[i] = Head(q) PROVE FALSE
    BY <1>2 DEF Range
  <2>1. i + 1 \in 1..Len(q) /\ 1 \in 1..Len(q) /\ i + 1 # 1
    BY <1>1
  <2>2. q[i + 1] = q[1]
    BY <1>1
  <2> QED
    BY <1>2, <2>1, <2>2 DEF IsInjective
<1> QED
  BY <1>3, <1>4 DEF p


(* An operation that parseCommands has sent off: its command has left the relay   *)
(* and the channel, and parseCommands, if it still has it, is further on.          *)
SentOff(op) ==
  /\ op.cmd \notin relay \union Range(newCommand)
  /\ op.cmd \in parser.cmd => op.pos < parser.pos

(* A command is in one place at a time: with the relay, in the channel NewCommand,  *)
(* or with parseCommands, which has at most one.                                     *)
CommandsMove ==
  /\ IsInjective(newCommand) /\ Range(newCommand) \intersect relay = {}
  /\ parser.cmd \intersect (relay \union Range(newCommand)) = {}
  /\ \A c, d \in parser.cmd : c = d
  /\ parser.pc = "idle" => parser.cmd = {}
  /\ parser.pc = "push" => \A c \in parser.cmd : parser.pos <= Width[c]

(* So is an operation: on its way to runModule or, once, in it.                 *)
OperationsMove ==
  /\ IsInjective(runQueue) /\ \A op \in Range(runQueue) : SentOff(op)
  /\ \A r, s \in runner.result : r = s
  /\ runner.pc = "idle" => runner.result = {}
  /\ \A r \in runner.result : SentOff(r.op) /\ r.op \notin Range(runQueue)

Tracked ==
  Up => running =
    Range(runQueue)
    \union {r.op : r \in IF runner.pc = "run" THEN runner.result ELSE {}}
    \union {[cmd |-> c, pos |-> parser.pos] : c \in IF parser.pc = "push" THEN parser.cmd ELSE {}}

(* The commands that have not been parsed yet.                                 *)
Held == relay \union Range(newCommand) \union parser.cmd

(* The positions of a command whose results have been received.                *)
Filled(c) == {i \in Positions(c) : receiver[c].results[i] # {}}

(* receiveModuleResults has, of its command, the results that it has counted.   *)
Collects(c) ==
  /\ receiver[c].count = Cardinality(Filled(c))
  /\ OwnResults(c, Filled(c), receiver[c].status, receiver[c].results)
  /\ receiver[c].pc \in {"finish", "close", "done"} =>
       Filled(c) = Positions(c) /\ Positions(c) # {}
  /\ c \in Held => receiver[c].pc = "none"
  /\ receiver[c].pc = "none" => Filled(c) = {}
  /\ c \in closed => receiver[c].pc = "done"

(* The result of an operation on its way to or in runModule has not been received. *)
Awaited(op) == op.pos \notin Filled(op.cmd)

OwnAnswer(p) ==
  IF Positions(p.cmd) = {} THEN p.cmd \in Rejected /\ p.status = "failed"
  ELSE OwnResults(p.cmd, Positions(p.cmd), p.status, p.results)

Collected ==
  /\ failedOps = {}
  /\ \A c \in Commands : Collects(c)
  /\ \A op \in Range(runQueue) : Awaited(op)
  /\ \A r \in runner.result : Awaited(r.op)
  /\ parser.pc = "reject" => parser.cmd \subseteq Rejected
  /\ \A p \in Range(outgoing) \union published : OwnAnswer(p)

AllCollected == Missing = {} => Collected

--------------------------------------------------------------------------------
(* What operations, positions and results are.                                *)

LEMMA OperationIs ==
  /\ \A c \in Commands, i \in Nat \ {0} : i <= Width[c] => [cmd |-> c, pos |-> i] \in Operations
  /\ \A op \in Operations :
       op.cmd \in Commands /\ op.pos \in Positions(op.cmd) /\ op = [cmd |-> op.cmd, pos |-> op.pos]
  /\ \A c \in Commands : Positions(c) \subseteq Nat \ {0}
<1>1. ASSUME NEW c \in Commands, NEW i \in Nat \ {0}, i <= Width[c]
      PROVE  [cmd |-> c, pos |-> i] \in Operations
  <2>1. i \in Positions(c)
    BY <1>1, AgentExecAssumption DEF Positions
  <2> QED
    BY <2>1 DEF Operations
<1>2. ASSUME NEW op \in Operations
      PROVE  op.cmd \in Commands /\ op.pos \in Positions(op.cmd) /\ op = [cmd |-> op.cmd, pos |-> op.pos]
  <2>1. PICK c \in Commands : op \in [cmd : {c}, pos : Positions(c)]
    BY DEF Operations
  <2> QED
    BY <2>1
<1> QED
  BY <1>1, <1>2 DEF Positions

LEMMA OutcomeIs ==
  /\ \A op \in Operations, s \in Statuses : [op |-> op, status |-> s] \in Outcomes
  /\ \A r \in Outcomes : r.op \in Operations /\ r.status \in Statuses /\ r = [op |-> r.op, status |-> r.status]
BY DEF Outcomes

(* An array of results, one for each operation.                                *)
LEMMA ArrayIs ==
  ASSUME NEW c \in Commands, NEW f \in [Positions(c) -> SUBSET Outcomes]
  PROVE  f \in Seq(SUBSET Outcomes) /\ Len(f) = Width[c]
<1>1. Width[c] \in Nat
  BY AgentExecAssumption
<1>2. f \in Seq(SUBSET Outcomes)
  BY <1>1, SeqDef DEF Positions
<1>3. DOMAIN f = 1..Len(f) /\ Len(f) \in Nat
  BY <1>2, LenProperties
<1> QED
  BY <1>1, <1>3 DEF Positions

LEMMA ReceiverNewIs ==
  ASSUME NEW c \in Commands
  PROVE  /\ ReceiverNew(c) \in ReceiverState
         /\ Len(ReceiverNew(c).results) = Width[c]
         /\ ReceiverNew(c).pc = "none" /\ ReceiverNew(c).count = 0 /\ ReceiverNew(c).status = "success"
         /\ \A i \in Positions(c) : ReceiverNew(c).results[i] = {}
<1> DEFINE f == [i \in Positions(c) |-> {}]
<1>1. f \in Seq(SUBSET Outcomes) /\ Len(f) = Width[c]
  BY ArrayIs
<1>2. \A i \in Positions(c) : f[i] = {}
  OBVIOUS
<1>3. ReceiverNew(c) = [pc |-> "none", scan |-> {}, seen |-> {}, status |-> "success", count |-> 0,
                        results |-> f]
  BY DEF ReceiverNew
<1> HIDE DEF f
<1> QED
  BY <1>1, <1>2, <1>3 DEF ReceiverState, Statuses

--------------------------------------------------------------------------------
(* What the steps of receiveModuleResults do to its state.                    *)

(* Most steps only take it further.                                            *)
LEMMA ReceiverGoes ==
  ASSUME ReceiverType, NEW c \in Commands,
         NEW pc \in {"none", "started", "scan", "recv", "finish", "close", "done", "dead"},
         receiver' = [receiver EXCEPT ![c].pc = pc]
  PROVE  /\ ReceiverType'
         /\ receiver'[c].pc = pc /\ receiver'[c].results = receiver[c].results
         /\ receiver'[c].count = receiver[c].count /\ receiver'[c].status = receiver[c].status
         /\ \A d \in Commands : d # c => receiver'[d] = receiver[d]
<1> DEFINE rec == [receiver[c] EXCEPT !.pc = pc]
<1>1. receiver \in [Commands -> ReceiverState]
  BY DEF ReceiverType
<1>2. /\ rec \in ReceiverState /\ rec.pc = pc /\ rec.results = receiver[c].results
      /\ rec.count = receiver[c].count /\ rec.status = receiver[c].status
  BY <1>1 DEF ReceiverState
<1>3. receiver' = [receiver EXCEPT ![c] = rec]
  OBVIOUS
<1> HIDE DEF rec
<1>4. receiver' \in [Commands -> ReceiverState] /\ receiver'[c] = rec
      /\ \A d \in Commands : d # c => receiver'[d] = receiver[d]
  BY <1>1, <1>2, <1>3
<1> QED
  BY <1>2, <1>4 DEF ReceiverType

LEMMA ScanBegins ==
  ASSUME ReceiverType, NEW c \in Commands, failedOps \subseteq Operations,
         receiver' = [receiver EXCEPT ![c] = [@ EXCEPT !.pc = "scan", !.scan = failedOps]]
  PROVE  /\ ReceiverType'
         /\ receiver'[c].pc = "scan" /\ receiver'[c].results = receiver[c].results
         /\ receiver'[c].count = receiver[c].count /\ receiver'[c].status = receiver[c].status
         /\ \A d \in Commands : d # c => receiver'[d] = receiver[d]
<1> DEFINE rec == [receiver[c] EXCEPT !.pc = "scan", !.scan = failedOps]
<1>1. receiver \in [Commands -> ReceiverState]
  BY DEF ReceiverType
<1>2. /\ rec \in ReceiverState /\ rec.pc = "scan" /\ rec.results = receiver[c].results
      /\ rec.count = receiver[c].count /\ rec.status = receiver[c].status
  BY <1>1 DEF ReceiverState
<1>3. receiver' = [receiver EXCEPT ![c] = rec]
  OBVIOUS
<1> HIDE DEF rec
<1>4. receiver' \in [Commands -> ReceiverState] /\ receiver'[c] = rec
      /\ \A d \in Commands : d # c => receiver'[d] = receiver[d]
  BY <1>1, <1>2, <1>3
<1> QED
  BY <1>2, <1>4 DEF ReceiverType

(* A result is entered at its position.                                        *)
LEMMA ResultEntered ==
  ASSUME ReceiverType, NEW c \in Commands, NEW i \in Positions(c), NEW r \in Outcomes,
         NEW status \in Statuses
  PROVE  LET rec == WithResult(c, i, r, status)
         IN  /\ rec \in ReceiverState /\ Len(rec.results) = Width[c]
             /\ rec.status = status /\ rec.count = receiver[c].count + 1
             /\ rec.seen = receiver[c].seen
             /\ rec.pc = IF Enough(c, receiver[c].count + 1) THEN "finish" ELSE receiver[c].pc
             /\ rec.results[i] = {r}
             /\ \A j \in Positions(c) : j # i => rec.results[j] = receiver[c].results[j]
<1> DEFINE array == [receiver[c].results EXCEPT ![i] = {r}]
           pc == IF Enough(c, receiver[c].count + 1) THEN "finish" ELSE receiver[c].pc
           count == receiver[c].count + 1
           rec == [receiver[c] EXCEPT !.status = status, !.results = array, !.count = count, !.pc = pc]
<1>1. receiver[c] \in ReceiverState /\ Len(receiver[c].results) = Width[c]
  BY DEF ReceiverType
<1>2. receiver[c].results \in Seq(SUBSET Outcomes) /\ i \in 1..Len(receiver[c].results)
  BY <1>1 DEF ReceiverState, Positions
<1>3. /\ array \in Seq(SUBSET Outcomes) /\ Len(array) = Width[c]
      /\ \A j \in Positions(c) : array[j] = IF j = i THEN {r} ELSE receiver[c].results[j]
  BY <1>1, <1>2, ExceptSeq DEF Positions
<1>4. pc \in {"none", "started", "scan", "recv", "finish", "close", "done", "dead"} /\ count \in Nat
  BY <1>1 DEF ReceiverState
<1>5. WithResult(c, i, r, status) = rec
  BY <1>1 DEF WithResult, ReceiverState
<1> HIDE DEF array, pc, count
<1>6. /\ rec \in ReceiverState /\ rec.pc = pc /\ rec.results = array
      /\ rec.count = count /\ rec.status = status /\ rec.seen = receiver[c].seen
  BY <1>1, <1>3, <1>4 DEF ReceiverState
<1> QED
  BY <1>3, <1>5, <1>6 DEF pc, count

LEMMA ReceiverReplaced ==
  ASSUME ReceiverType, NEW c \in Commands, NEW rec \in ReceiverState, Len(rec.results) = Width[c],
         receiver' = [receiver EXCEPT ![c] = rec]
  PROVE  ReceiverType' /\ receiver'[c] = rec /\ \A d \in Commands : d # c => receiver'[d] = receiver[d]
BY DEF ReceiverType

--------------------------------------------------------------------------------
(* The steps that only end the agent, or begin to.                            *)
AgentOnly ==
  /\ agent' \in {"leaving", "exited", "expired", "crashed", "terminated"} /\ Up
  /\ UNCHANGED <<build, relay, newCommand, parser, runQueue, runner, running, failedOps, receiver,
                 closed, outgoing, published, lost>>

LEMMA AgentSteps ==
  ASSUME Next
  PROVE  \/ AgentOnly \/ Parser \/ RunModule \/ SendResults \/ PublishFails
         \/ \E c \in Commands : GetCommand(c) \/ Receiver(c)
         \/ \E r \in runner.result :
              ReceiveModuleResult(r) \/ \E status \in Statuses : ModuleEnds(r, status)
<1>1. ASSUME CheckinLeave \/ CheckinExit \/ CheckinTimeout \/ Terminate PROVE AgentOnly
  BY <1>1 DEF CheckinLeave, CheckinExit, CheckinTimeout, Terminate, AgentOnly, Up
<1>2. ASSUME NEW r \in runner.result, SendOnClosed(r) PROVE AgentOnly
  BY <1>2 DEF SendOnClosed, AgentOnly, runnerUnchanged
<1>3. ASSUME NEW c \in Commands, MapRace(c) PROVE AgentOnly
  BY <1>3 DEF MapRace, AgentOnly, receiverUnchanged
<1> QED
  BY <1>1, <1>2, <1>3 DEF Next, Runner

(* Types, and that a command is in one place at a time: an operation only exists    *)
(* because parseCommands never goes beyond the operations of its command.           *)
LEMMA TypesAndCommands == Spec => [](TypeOK /\ CommandsMove)
<1>1. Init => TypeOK /\ CommandsMove
  <2> SUFFICES ASSUME Init PROVE TypeOK /\ CommandsMove
    OBVIOUS
  <2>1. AgentType /\ GoroutineType
    BY DEF Init, AgentType, GoroutineType, ParserIdle, RunnerIdle, ParserState, RunnerState
  <2>2. ChannelType
    BY AgentExecAssumption DEF Init, ChannelType
  <2>3. ReceiverType
    BY ReceiverNewIs DEF Init, ReceiverType
  <2>4. CommandsMove
    BY DEF Init, CommandsMove, ParserIdle, IsInjective, Range
  <2> QED
    BY <2>1, <2>2, <2>3, <2>4 DEF TypeOK
<1>2. TypeOK /\ CommandsMove /\ [Next]_vars => (TypeOK /\ CommandsMove)'
  <2> SUFFICES ASSUME TypeOK, CommandsMove, [Next]_vars PROVE TypeOK' /\ CommandsMove'
    OBVIOUS
  <2> USE DEF TypeOK
  <2>1. ASSUME NEW c \in Commands, GetCommand(c) PROVE TypeOK' /\ CommandsMove'
    <3>1. AgentType'
      BY <2>1 DEF AgentType, GetCommand
    <3>2. ChannelType'
      <4>1. newCommand \in Seq(Commands) /\ Len(newCommand) < NewCommandCap /\ Len(newCommand) \in Nat
        BY <2>1, LenProperties DEF ChannelType, GetCommand
      <4>2. newCommand' \in Seq(Commands) /\ Len(newCommand') <= NewCommandCap
        BY <2>1, <4>1, AppendRange, AgentExecAssumption DEF GetCommand
      <4> QED
        BY <2>1, <4>2 DEF ChannelType, GetCommand
    <3>3. GoroutineType'
      BY <2>1 DEF GoroutineType, GetCommand
    <3>4. ReceiverType'
      BY <2>1 DEF ReceiverType, GetCommand
    <3>5. CommandsMove'
      <4>1. newCommand \in Seq(Commands) /\ c \in relay /\ c \notin Range(newCommand)
        BY <2>1 DEF ChannelType, GetCommand, CommandsMove
      <4>2. /\ Range(newCommand') = Range(newCommand) \union {c}
            /\ IsInjective(newCommand')
        BY <2>1, <4>1, AppendRange, AppendInjectiveQueue DEF GetCommand, CommandsMove
      <4> QED
        BY <2>1, <4>1, <4>2 DEF CommandsMove, GetCommand
    <3> QED
      BY <3>1, <3>2, <3>3, <3>4, <3>5
  <2>2. CASE AgentOnly
    <3>1. AgentType'
      BY <2>2 DEF AgentType, AgentOnly
    <3>2. ChannelType'
      BY <2>2 DEF ChannelType, AgentOnly
    <3>3. GoroutineType'
      BY <2>2 DEF GoroutineType, AgentOnly
    <3>4. ReceiverType'
      BY <2>2 DEF ReceiverType, AgentOnly
    <3>5. CommandsMove'
      BY <2>2 DEF CommandsMove, AgentOnly
    <3> QED
      BY <3>1, <3>2, <3>3, <3>4, <3>5
  <2>3. CASE ParseCommand
    <3>1. AgentType'
      BY <2>3 DEF AgentType, ParseCommand, parserUnchanged
    <3>2. ChannelType'
      <4>1. newCommand' \in Seq(Commands) /\ Len(newCommand') <= NewCommandCap
        BY <2>3, TailRange, AgentExecAssumption DEF ChannelType, ParseCommand
      <4> QED
        BY <2>3, <4>1 DEF ChannelType, ParseCommand
    <3>3. GoroutineType'
      <4>1. Head(newCommand) \in Commands
        BY <2>3, TailRange DEF ChannelType, ParseCommand
      <4> QED
        BY <2>3, <4>1 DEF GoroutineType, ParserState, ParseCommand, parserUnchanged
    <3>4. ReceiverType'
      BY <2>3 DEF ReceiverType, ParseCommand, parserUnchanged
    <3>5. CommandsMove'
      <4>1. newCommand \in Seq(Commands) /\ newCommand # <<>>
        BY <2>3 DEF ChannelType, ParseCommand
      <4>2. /\ Range(newCommand) = {Head(newCommand)} \union Range(newCommand')
            /\ IsInjective(newCommand') /\ Head(newCommand) \notin Range(newCommand')
        BY <2>3, <4>1, TailRange, TailInjectiveQueue DEF ParseCommand, CommandsMove
      <4>3. relay' = relay /\ parser'.cmd = {Head(newCommand)} /\ parser'.pc \in {"reject", "register"}
        BY <2>3 DEF ParseCommand, parserUnchanged
      <4> QED
        BY <4>2, <4>3 DEF CommandsMove
    <3> QED
      BY <3>1, <3>2, <3>3, <3>4, <3>5
  <2>4. ASSUME NEW c \in parser.cmd, RejectCommand(c) PROVE TypeOK' /\ CommandsMove'
    <3>1. AgentType'
      BY <2>4 DEF AgentType, RejectCommand, parserUnchanged
    <3>2. ChannelType'
      <4> DEFINE array == [i \in Positions(c) |-> {[op |-> [cmd |-> c, pos |-> i], status |-> "failed"]}]
                 answer == [cmd |-> c, status |-> "failed", results |-> array]
      <4>1. c \in Commands
        BY DEF GoroutineType, ParserState
      <4>2. array \in [Positions(c) -> SUBSET Outcomes]
        <5>1. \A i \in Positions(c) : [cmd |-> c, pos |-> i] \in Operations
          BY <4>1, OperationIs, AgentExecAssumption DEF Positions
        <5>2. \A i \in Positions(c) : [op |-> [cmd |-> c, pos |-> i], status |-> "failed"] \in Outcomes
          BY <5>1, OutcomeIs DEF Statuses
        <5> QED
          BY <5>2
      <4>3. array \in Seq(SUBSET Outcomes)
        BY <4>1, <4>2, ArrayIs
      <4> HIDE DEF array
      <4>4. answer \in AnswerState
        BY <4>1, <4>3 DEF AnswerState, Statuses
      <4>5. outgoing' = Append(outgoing, answer) /\ Len(outgoing) < ResultsCap
        BY <2>4 DEF RejectCommand, array
      <4> HIDE DEF answer
      <4>6. outgoing \in Seq(AnswerState) /\ Len(outgoing) \in Nat
        BY LenProperties DEF ChannelType
      <4>7. outgoing' \in Seq(AnswerState) /\ Len(outgoing') <= ResultsCap
        BY <4>4, <4>5, <4>6, AppendRange, AgentExecAssumption
      <4> QED
        BY <2>4, <4>7 DEF ChannelType, RejectCommand
    <3>3. GoroutineType'
      BY <2>4 DEF GoroutineType, ParserState, ParserIdle, RejectCommand, parserUnchanged
    <3>4. ReceiverType'
      BY <2>4 DEF ReceiverType, RejectCommand, parserUnchanged
    <3>5. CommandsMove'
      BY <2>4 DEF CommandsMove, ParserIdle, RejectCommand, parserUnchanged
    <3> QED
      BY <3>1, <3>2, <3>3, <3>4, <3>5
  <2>5. ASSUME NEW c \in parser.cmd, RegisterOperation(c) PROVE TypeOK' /\ CommandsMove'
    <3>1. AgentType'
      BY <2>5 DEF AgentType, RegisterOperation, parserUnchanged
    <3>2. ChannelType'
      BY <2>5 DEF ChannelType, RegisterOperation, parserUnchanged
    <3>3. GoroutineType'
      <4>1. c \in Commands /\ [cmd |-> c, pos |-> parser.pos] \in Operations
        BY <2>5, OperationIs DEF GoroutineType, ParserState, RegisterOperation
      <4>2. running' \subseteq Operations /\ failedOps' \subseteq Operations
        BY <2>5, <4>1 DEF GoroutineType, RegisterOperation
      <4>3. parser' \in ParserState
        BY <2>5 DEF GoroutineType, ParserState, RegisterOperation
      <4> QED
        BY <2>5, <4>2, <4>3 DEF GoroutineType, RegisterOperation, parserUnchanged
    <3>4. ReceiverType'
      BY <2>5 DEF ReceiverType, RegisterOperation, parserUnchanged
    <3>5. CommandsMove'
      <4>1. /\ parser'.cmd = parser.cmd /\ UNCHANGED <<newCommand, relay>>
            /\ parser'.pc \in {"register", "push"}
            /\ parser'.pc = "push" => parser'.pos = parser.pos
        BY <2>5 DEF GoroutineType, ParserState, RegisterOperation, parserUnchanged
      <4> QED
        BY <2>5, <4>1 DEF CommandsMove, RegisterOperation
    <3> QED
      BY <3>1, <3>2, <3>3, <3>4, <3>5
  <2>6. ASSUME NEW c \in parser.cmd, PushOperation(c) PROVE TypeOK' /\ CommandsMove'
    <3>1. AgentType'
      BY <2>6 DEF AgentType, PushOperation, parserUnchanged
    <3>2. ChannelType'
      <4>1. c \in Commands /\ [cmd |-> c, pos |-> parser.pos] \in Operations
        BY <2>6, OperationIs DEF GoroutineType, ParserState, PushOperation, CommandsMove
      <4>2. runQueue \in Seq(Operations) /\ Len(runQueue) \in Nat
        BY LenProperties DEF ChannelType
      <4>3. runQueue' \in Seq(Operations) /\ Len(runQueue') <= RunCap
        BY <2>6, <4>1, <4>2, AppendRange, AgentExecAssumption DEF PushOperation
      <4> QED
        BY <2>6, <4>3 DEF ChannelType, PushOperation
    <3>3. GoroutineType'
      <4>1. parser' \in ParserState
        <5>1. parser \in ParserState /\ parser.pos + 1 \in Nat \ {0}
          BY DEF GoroutineType, ParserState
        <5>2. parser' = [parser EXCEPT !.pc = "register", !.pos = parser.pos + 1]
          BY <2>6 DEF PushOperation
        <5> QED
          BY <5>1, <5>2 DEF ParserState
      <4> QED
        BY <2>6, <4>1 DEF GoroutineType, PushOperation, parserUnchanged
    <3>4. ReceiverType'
      BY <2>6 DEF ReceiverType, PushOperation, parserUnchanged
    <3>5. CommandsMove'
      <4>1. parser'.cmd = parser.cmd /\ parser'.pc = "register" /\ UNCHANGED <<newCommand, relay>>
        BY <2>6 DEF GoroutineType, ParserState, PushOperation, parserUnchanged
      <4> QED
        BY <4>1 DEF CommandsMove
    <3> QED
      BY <3>1, <3>2, <3>3, <3>4, <3>5
  <2>7. ASSUME NEW c \in parser.cmd, StartReceiver(c) PROVE TypeOK' /\ CommandsMove'
    <3>1. AgentType'
      BY <2>7 DEF AgentType, StartReceiver, parserUnchanged
    <3>2. ChannelType'
      BY <2>7 DEF ChannelType, StartReceiver, parserUnchanged
    <3>3. GoroutineType'
      BY <2>7 DEF GoroutineType, ParserState, ParserIdle, StartReceiver, parserUnchanged
    <3>4. ReceiverType'
      <4>1. c \in Commands
        BY DEF GoroutineType, ParserState
      <4> QED
        BY <2>7, <4>1, ReceiverGoes DEF StartReceiver
    <3>5. CommandsMove'
      BY <2>7 DEF CommandsMove, ParserIdle, StartReceiver, parserUnchanged
    <3> QED
      BY <3>1, <3>2, <3>3, <3>4, <3>5
  <2>8. CASE RunModule
    <3>1. AgentType'
      BY <2>8 DEF AgentType, RunModule, runnerUnchanged
    <3>2. ChannelType'
      <4>1. runQueue' \in Seq(Operations) /\ Len(runQueue') <= RunCap
        BY <2>8, TailRange, AgentExecAssumption DEF ChannelType, RunModule
      <4> QED
        BY <2>8, <4>1 DEF ChannelType, RunModule, runnerUnchanged
    <3>3. GoroutineType'
      <4>1. [op |-> Head(runQueue), status |-> "success"] \in Outcomes
        BY <2>8, TailRange, OutcomeIs DEF ChannelType, RunModule, Statuses
      <4> QED
        BY <2>8, <4>1 DEF GoroutineType, RunnerState, RunModule, runnerUnchanged
    <3>4. ReceiverType'
      BY <2>8 DEF ReceiverType, RunModule, runnerUnchanged
    <3>5. CommandsMove'
      BY <2>8 DEF CommandsMove, RunModule, runnerUnchanged
    <3> QED
      BY <3>1, <3>2, <3>3, <3>4, <3>5
  <2>9. ASSUME NEW r \in runner.result, NEW status \in Statuses, ModuleEnds(r, status) PROVE TypeOK' /\ CommandsMove'
    <3>1. AgentType'
      BY <2>9 DEF AgentType, ModuleEnds, runnerUnchanged
    <3>2. ChannelType'
      BY <2>9 DEF ChannelType, ModuleEnds, runnerUnchanged
    <3>3. GoroutineType'
      <4>1. r \in Outcomes
        BY DEF GoroutineType, RunnerState
      <4>2. [op |-> r.op, status |-> status] \in Outcomes
        BY <4>1, OutcomeIs
      <4>3. runner' \in RunnerState
        BY <2>9, <4>2 DEF RunnerState, ModuleEnds
      <4> QED
        BY <2>9, <4>3 DEF GoroutineType, ModuleEnds, Removed, runnerUnchanged
    <3>4. ReceiverType'
      BY <2>9 DEF ReceiverType, ModuleEnds, runnerUnchanged
    <3>5. CommandsMove'
      BY <2>9 DEF CommandsMove, ModuleEnds, runnerUnchanged
    <3> QED
      BY <3>1, <3>2, <3>3, <3>4, <3>5
  <2>10. ASSUME NEW r \in runner.result, ReceiveModuleResult(r) PROVE TypeOK' /\ CommandsMove'
    <3>1. AgentType'
      BY <2>10 DEF AgentType, ReceiveModuleResult, runnerUnchanged
    <3>2. ChannelType'
      BY <2>10 DEF ChannelType, ReceiveModuleResult, runnerUnchanged
    <3>3. GoroutineType'
      BY <2>10 DEF GoroutineType, RunnerState, RunnerIdle, ReceiveModuleResult, runnerUnchanged
    <3>4. ReceiverType'
      <4>1. r \in Outcomes
        BY DEF GoroutineType, RunnerState
      <4>2. PICK c \in Commands : c = r.op.cmd /\ r.op.pos \in Positions(c)
        BY <4>1, OutcomeIs, OperationIs
      <4>3. WorstStatus(receiver[c].status, r.status) \in Statuses
        BY <4>1, OutcomeIs DEF ReceiverType, ReceiverState, WorstStatus
      <4> DEFINE rec == WithResult(c, r.op.pos, r, WorstStatus(receiver[c].status, r.status))
      <4>4. rec \in ReceiverState /\ Len(rec.results) = Width[c]
        BY <4>1, <4>2, <4>3, ResultEntered
      <4>5. receiver' = [receiver EXCEPT ![c] = rec]
        BY <2>10, <4>2 DEF ReceiveModuleResult
      <4> HIDE DEF rec
      <4> QED
        BY <4>4, <4>5, ReceiverReplaced
    <3>5. CommandsMove'
      BY <2>10 DEF CommandsMove, ReceiveModuleResult, runnerUnchanged
    <3> QED
      BY <3>1, <3>2, <3>3, <3>4, <3>5
  <2>11. ASSUME NEW c \in Commands, BeginScan(c) PROVE TypeOK' /\ CommandsMove'
    <3>1. AgentType'
      BY <2>11 DEF AgentType, BeginScan, receiverUnchanged
    <3>2. ChannelType'
      BY <2>11 DEF ChannelType, BeginScan, receiverUnchanged
    <3>3. GoroutineType'
      BY <2>11 DEF GoroutineType, BeginScan, receiverUnchanged
    <3>4. ReceiverType'
      BY <2>11, ScanBegins DEF BeginScan, GoroutineType
    <3>5. CommandsMove'
      BY <2>11 DEF CommandsMove, BeginScan, receiverUnchanged
    <3> QED
      BY <3>1, <3>2, <3>3, <3>4, <3>5
  <2>12. ASSUME NEW c \in Commands, NEW op \in failedOps, ScanFailed(c, op) PROVE TypeOK' /\ CommandsMove'
    <3>1. AgentType'
      BY <2>12 DEF AgentType, ScanFailed, receiverUnchanged
    <3>2. ChannelType'
      BY <2>12 DEF ChannelType, ScanFailed, receiverUnchanged
    <3>3. GoroutineType'
      BY <2>12 DEF GoroutineType, ScanFailed, receiverUnchanged
    <3>4. ReceiverType'
      <4>1. CASE receiver' = [receiver EXCEPT ![c].pc = "dead"]
        BY <4>1, ReceiverGoes
      <4>2. ASSUME op.pos \in Positions(c),
                   receiver' = [receiver EXCEPT ![c] =
                     [WithResult(c, op.pos, [op |-> op, status |-> "failed"], "failed") EXCEPT
                        !.seen = @ \union {op}]]
            PROVE  ReceiverType'
        <5> DEFINE old == WithResult(c, op.pos, [op |-> op, status |-> "failed"], "failed")
                   rec == [old EXCEPT !.seen = old.seen \union {op}]
        <5>1. op \in Operations /\ [op |-> op, status |-> "failed"] \in Outcomes /\ "failed" \in Statuses
          BY OutcomeIs DEF GoroutineType, Statuses
        <5>2. old \in ReceiverState /\ Len(old.results) = Width[c]
          BY <4>2, <5>1, ResultEntered
        <5>3. receiver' = [receiver EXCEPT ![c] = rec]
          BY <4>2
        <5> HIDE DEF old
        <5>4. rec \in ReceiverState /\ Len(rec.results) = Width[c]
          BY <5>1, <5>2 DEF ReceiverState
        <5> HIDE DEF rec
        <5> QED
          BY <5>3, <5>4, ReceiverReplaced
      <4> QED
        BY <2>12, <4>1, <4>2 DEF ScanFailed
    <3>5. CommandsMove'
      BY <2>12 DEF CommandsMove, ScanFailed, receiverUnchanged
    <3> QED
      BY <3>1, <3>2, <3>3, <3>4, <3>5
  <2>13. ASSUME NEW c \in Commands, EndScan(c) PROVE TypeOK' /\ CommandsMove'
    <3>1. AgentType'
      BY <2>13 DEF AgentType, EndScan, receiverUnchanged
    <3>2. ChannelType'
      BY <2>13 DEF ChannelType, EndScan, receiverUnchanged
    <3>3. GoroutineType'
      BY <2>13 DEF GoroutineType, EndScan, receiverUnchanged
    <3>4. ReceiverType'
      BY <2>13, ReceiverGoes DEF EndScan
    <3>5. CommandsMove'
      BY <2>13 DEF CommandsMove, EndScan, receiverUnchanged
    <3> QED
      BY <3>1, <3>2, <3>3, <3>4, <3>5
  <2>14. ASSUME NEW c \in Commands, ForwardCommand(c) PROVE TypeOK' /\ CommandsMove'
    <3>1. AgentType'
      BY <2>14 DEF AgentType, ForwardCommand, receiverUnchanged
    <3>2. ChannelType'
      <4> DEFINE answer == [cmd |-> c, status |-> receiver[c].status, results |-> receiver[c].results]
      <4>1. answer \in AnswerState
        BY DEF AnswerState, ReceiverType, ReceiverState
      <4>2. outgoing' = Append(outgoing, answer) /\ Len(outgoing) < ResultsCap
        BY <2>14 DEF ForwardCommand
      <4> HIDE DEF answer
      <4>3. outgoing \in Seq(AnswerState) /\ Len(outgoing) \in Nat
        BY LenProperties DEF ChannelType
      <4>4. outgoing' \in Seq(AnswerState) /\ Len(outgoing') <= ResultsCap
        BY <4>1, <4>2, <4>3, AppendRange, AgentExecAssumption
      <4> QED
        BY <2>14, <4>4 DEF ChannelType, ForwardCommand, receiverUnchanged
    <3>3. GoroutineType'
      BY <2>14 DEF GoroutineType, ForwardCommand, receiverUnchanged
    <3>4. ReceiverType'
      BY <2>14, ReceiverGoes DEF ForwardCommand
    <3>5. CommandsMove'
      BY <2>14 DEF CommandsMove, ForwardCommand, receiverUnchanged
    <3> QED
      BY <3>1, <3>2, <3>3, <3>4, <3>5
  <2>15. ASSUME NEW c \in Commands, CloseResultChan(c) PROVE TypeOK' /\ CommandsMove'
    <3>1. AgentType'
      BY <2>15 DEF AgentType, CloseResultChan, receiverUnchanged
    <3>2. ChannelType'
      BY <2>15 DEF ChannelType, CloseResultChan, receiverUnchanged
    <3>3. GoroutineType'
      BY <2>15 DEF GoroutineType, CloseResultChan, receiverUnchanged
    <3>4. ReceiverType'
      BY <2>15, ReceiverGoes DEF CloseResultChan
    <3>5. CommandsMove'
      BY <2>15 DEF CommandsMove, CloseResultChan, receiverUnchanged
    <3> QED
      BY <3>1, <3>2, <3>3, <3>4, <3>5
  <2>16. CASE SendResults
    <3>1. AgentType'
      <4>1. Head(outgoing) \in AnswerState
        BY <2>16, TailRange DEF ChannelType, SendResults
      <4> QED
        BY <2>16, <4>1 DEF AgentType, SendResults, senderUnchanged
    <3>2. ChannelType'
      <4>1. outgoing' \in Seq(AnswerState) /\ Len(outgoing') <= ResultsCap
        BY <2>16, TailRange, AgentExecAssumption DEF ChannelType, SendResults
      <4> QED
        BY <2>16, <4>1 DEF ChannelType, SendResults, senderUnchanged
    <3>3. GoroutineType'
      BY <2>16 DEF GoroutineType, SendResults, senderUnchanged
    <3>4. ReceiverType'
      BY <2>16 DEF ReceiverType, SendResults, senderUnchanged
    <3>5. CommandsMove'
      BY <2>16 DEF CommandsMove, SendResults, senderUnchanged
    <3> QED
      BY <3>1, <3>2, <3>3, <3>4, <3>5
  <2>17. CASE PublishFails
    <3>1. AgentType'
      <4>1. Head(outgoing) \in AnswerState
        BY <2>17, TailRange DEF ChannelType, PublishFails
      <4>2. Head(outgoing).cmd \in Commands
        BY <4>1 DEF AnswerState
      <4> QED
        BY <2>17, <4>2 DEF AgentType, PublishFails, senderUnchanged
    <3>2. ChannelType'
      <4>1. outgoing' \in Seq(AnswerState) /\ Len(outgoing') <= ResultsCap
        BY <2>17, TailRange, AgentExecAssumption DEF ChannelType, PublishFails
      <4> QED
        BY <2>17, <4>1 DEF ChannelType, PublishFails, senderUnchanged
    <3>3. GoroutineType'
      BY <2>17 DEF GoroutineType, PublishFails, senderUnchanged
    <3>4. ReceiverType'
      BY <2>17 DEF ReceiverType, PublishFails, senderUnchanged
    <3>5. CommandsMove'
      BY <2>17 DEF CommandsMove, PublishFails, senderUnchanged
    <3> QED
      BY <3>1, <3>2, <3>3, <3>4, <3>5
  <2>18. CASE UNCHANGED vars
    BY <2>18 DEF vars, AgentType, ChannelType, GoroutineType, ReceiverType, CommandsMove
  <2> QED
    BY <2>1, <2>2, <2>3, <2>4, <2>5, <2>6, <2>7, <2>8, <2>9, <2>10, <2>11, <2>12, <2>13, <2>14,
       <2>15, <2>16, <2>17, <2>18, AgentSteps
    DEF Parser, Receiver
<1> QED
  BY <1>1, <1>2, PTL DEF Spec

(* Type correctness of the goroutines and channels of the agent.               *)
THEOREM TypeCorrect == Spec => []TypeOK
BY TypesAndCommands, PTL

--------------------------------------------------------------------------------
(* An operation that has been sent off stays so.                              *)
LEMMA SentOffStays ==
  ASSUME TypeOK, CommandsMove, [Next]_vars, NEW op \in Operations, SentOff(op)
  PROVE  SentOff(op)'
<1> USE DEF TypeOK, SentOff
<1>1. op.cmd \in Commands /\ op.pos \in Nat
  BY OperationIs
<1>2. CASE UNCHANGED <<relay, newCommand, parser>>
  BY <1>2
<1>3. ASSUME NEW c \in Commands, GetCommand(c) PROVE SentOff(op)'
  <2>1. Range(newCommand') = Range(newCommand) \union {c} /\ c \in relay
    BY <1>3, AppendRange DEF GetCommand, ChannelType
  <2> QED
    BY <1>3, <2>1 DEF GetCommand
<1>4. CASE ParseCommand
  <2>1. Range(newCommand) = {Head(newCommand)} \union Range(newCommand')
    BY <1>4, TailRange DEF ParseCommand, ChannelType
  <2>2. relay' = relay /\ parser'.cmd = {Head(newCommand)}
    BY <1>4 DEF ParseCommand, parserUnchanged
  <2> QED
    BY <2>1, <2>2
<1>5. ASSUME NEW c \in parser.cmd, RejectCommand(c) \/ StartReceiver(c) PROVE SentOff(op)'
  BY <1>5 DEF RejectCommand, StartReceiver, ParserIdle, parserUnchanged
<1>6. ASSUME NEW c \in parser.cmd, RegisterOperation(c) \/ PushOperation(c) PROVE SentOff(op)'
  <2>1. /\ UNCHANGED <<relay, newCommand>> /\ parser'.cmd = parser.cmd
        /\ parser'.pos \in {parser.pos, parser.pos + 1} /\ parser.pos \in Nat
    BY <1>6 DEF RegisterOperation, PushOperation, parserUnchanged, GoroutineType, ParserState
  <2> QED
    BY <1>1, <2>1
<1>7. CASE RunModule
  BY <1>2, <1>7 DEF RunModule, runnerUnchanged
<1>8. ASSUME NEW r \in runner.result, ReceiveModuleResult(r) \/ \E s \in Statuses : ModuleEnds(r, s)
      PROVE  SentOff(op)'
  BY <1>2, <1>8 DEF ReceiveModuleResult, ModuleEnds, runnerUnchanged
<1>9. ASSUME NEW c \in Commands, Receiver(c) PROVE SentOff(op)'
  BY <1>2, <1>9 DEF Receiver, BeginScan, EndScan, ForwardCommand, CloseResultChan, ScanFailed,
     receiverUnchanged
<1>10. CASE SendResults \/ PublishFails \/ AgentOnly \/ UNCHANGED vars
  BY <1>2, <1>10 DEF SendResults, PublishFails, senderUnchanged, AgentOnly, vars
<1> QED
  BY <1>3, <1>4, <1>5, <1>6, <1>7, <1>8, <1>9, <1>10, AgentSteps DEF Parser

(* What is in the hands of runModule are results of operations.                *)
LEMMA ResultsInHand ==
  ASSUME TypeOK, NEW r \in runner.result
  PROVE  r \in Outcomes /\ r.op \in Operations /\ r.op.cmd \in Commands /\ r.op.pos \in Positions(r.op.cmd)
BY OperationIs, OutcomeIs DEF TypeOK, GoroutineType, RunnerState

(* The operation that parseCommands is about to send is in no other place.       *)
LEMMA PushedIsNew ==
  ASSUME TypeOK, CommandsMove, OperationsMove, NEW c \in parser.cmd, parser.pc = "push",
         NEW op, op = [cmd |-> c, pos |-> parser.pos]
  PROVE  op \in Operations /\ op \notin Range(runQueue) /\ \A r \in runner.result : r.op # op
<1>1. c \in Commands /\ parser.pos \in Nat \ {0} /\ parser.pos <= Width[c]
  BY DEF TypeOK, GoroutineType, ParserState, CommandsMove
<1>2. op \in Operations /\ op.cmd = c /\ op.pos = parser.pos
  BY <1>1, OperationIs
<1>3. ~ SentOff(op)
  BY <1>1, <1>2 DEF SentOff
<1> QED
  BY <1>2, <1>3 DEF OperationsMove

(* An operation is in one place at a time, so runModule has it once.             *)
LEMMA OperationsMoved == Spec => []OperationsMove
<1>1. Init => OperationsMove
  BY DEF Init, OperationsMove, IsInjective, Range, RunnerIdle
<1>2. OperationsMove /\ TypeOK /\ CommandsMove /\ [Next]_vars => OperationsMove'
  <2> SUFFICES ASSUME OperationsMove, TypeOK, CommandsMove, [Next]_vars PROVE OperationsMove'
    OBVIOUS
  <2>1. \A op \in Operations : SentOff(op) => SentOff(op)'
    BY SentOffStays
  <2>2. runQueue \in Seq(Operations) /\ Range(runQueue) \subseteq Operations
    BY RangeOfSeq DEF TypeOK, ChannelType
  <2>3. \A r \in runner.result : r.op \in Operations
    BY ResultsInHand
  <2>4. CASE UNCHANGED <<runQueue, runner>>
    BY <2>1, <2>2, <2>3, <2>4 DEF OperationsMove
  <2>5. ASSUME NEW c \in parser.cmd, PushOperation(c) PROVE OperationsMove'
    <3>1. PICK op \in Operations :
            /\ op = [cmd |-> c, pos |-> parser.pos] /\ op \notin Range(runQueue)
            /\ \A r \in runner.result : r.op # op
      BY <2>5, PushedIsNew DEF PushOperation
    <3>2. runQueue' = Append(runQueue, op) /\ runner' = runner
      BY <2>5, <3>1 DEF PushOperation, parserUnchanged
    <3>3. Range(runQueue') = Range(runQueue) \union {op} /\ IsInjective(runQueue')
      BY <2>2, <3>1, <3>2, AppendRange, AppendInjectiveQueue DEF OperationsMove
    <3>4. SentOff(op)'
      <4>1. /\ UNCHANGED <<relay, newCommand>> /\ parser'.cmd = parser.cmd
            /\ parser'.pos = parser.pos + 1 /\ parser.pos \in Nat
        BY <2>5 DEF PushOperation, parserUnchanged, TypeOK, GoroutineType, ParserState
      <4>2. op.cmd = c /\ op.cmd \notin relay \union Range(newCommand) /\ op.pos = parser.pos
        BY <3>1 DEF CommandsMove
      <4> QED
        BY <4>1, <4>2 DEF SentOff
    <3> QED
      BY <2>1, <2>2, <2>3, <3>1, <3>2, <3>3, <3>4 DEF OperationsMove
  <2>6. CASE RunModule
    <3>1. /\ Range(runQueue) = {Head(runQueue)} \union Range(runQueue')
          /\ IsInjective(runQueue') /\ Head(runQueue) \notin Range(runQueue')
      BY <2>2, <2>6, TailRange, TailInjectiveQueue DEF RunModule, OperationsMove
    <3>2. runner'.pc = "run" /\ runner'.result = {[op |-> Head(runQueue), status |-> "success"]}
      BY <2>6 DEF RunModule
    <3> QED
      BY <2>1, <2>2, <3>1, <3>2 DEF OperationsMove
  <2>7. ASSUME NEW r \in runner.result, NEW status \in Statuses, ModuleEnds(r, status)
        PROVE  OperationsMove'
    <3>1. /\ runQueue' = runQueue /\ runner'.pc = "deliver"
          /\ runner'.result = {[op |-> r.op, status |-> status]}
      BY <2>7 DEF ModuleEnds
    <3> QED
      BY <2>1, <2>2, <2>3, <3>1 DEF OperationsMove
  <2>8. ASSUME NEW r \in runner.result, ReceiveModuleResult(r) PROVE OperationsMove'
    <3>1. runQueue' = runQueue /\ runner'.pc = "idle" /\ runner'.result = {}
      BY <2>8 DEF ReceiveModuleResult, RunnerIdle
    <3> QED
      BY <2>1, <2>2, <3>1 DEF OperationsMove
  <2>9. CASE AgentOnly \/ ParseCommand \/ SendResults \/ PublishFails \/ UNCHANGED vars
    BY <2>4, <2>9 DEF AgentOnly, ParseCommand, parserUnchanged, SendResults, PublishFails,
       senderUnchanged, vars
  <2>10. ASSUME NEW c \in parser.cmd, RejectCommand(c) \/ RegisterOperation(c) \/ StartReceiver(c)
         PROVE  OperationsMove'
    BY <2>4, <2>10 DEF RejectCommand, RegisterOperation, StartReceiver, parserUnchanged
  <2>11. ASSUME NEW c \in Commands, GetCommand(c) \/ Receiver(c) PROVE OperationsMove'
    BY <2>4, <2>11 DEF GetCommand, Receiver, BeginScan, EndScan, ForwardCommand, CloseResultChan,
       ScanFailed, receiverUnchanged
  <2> QED
    BY <2>5, <2>6, <2>7, <2>8, <2>9, <2>10, <2>11, AgentSteps DEF Parser
<1> QED
  BY <1>1, <1>2, TypesAndCommands, PTL DEF Spec

(* runningOps has exactly the operations that are on their way to or in         *)
(* runModule, although no lock protects it: each is entered before it is sent    *)
(* and removed once, and no other place has it then.                             *)
THEOREM OperationsTracked == Spec => []RunningIsTracked
<1>1. Init => Tracked
  BY DEF Init, Tracked, Range, RunnerIdle, ParserIdle
<1>2. Tracked /\ TypeOK /\ CommandsMove /\ OperationsMove /\ [Next]_vars => Tracked'
  <2> SUFFICES ASSUME Tracked, TypeOK, CommandsMove, OperationsMove, [Next]_vars, Up' PROVE Tracked'
    BY DEF Tracked
  <2>1. runQueue \in Seq(Operations) /\ Range(runQueue) \subseteq Operations
    BY RangeOfSeq DEF TypeOK, ChannelType
  <2>2. CASE Up /\ UNCHANGED <<running, runQueue, runner, parser>>
    BY <2>2 DEF Tracked
  <2>3. CASE ParseCommand
    BY <2>3 DEF ParseCommand, parserUnchanged, Tracked
  <2>4. ASSUME NEW c \in parser.cmd, RejectCommand(c) \/ StartReceiver(c) PROVE Tracked'
    BY <2>4 DEF RejectCommand, StartReceiver, ParserIdle, parserUnchanged, Tracked
  <2>5. ASSUME NEW c \in parser.cmd, RegisterOperation(c) PROVE Tracked'
    <3>1. parser.pc = "register" /\ parser.cmd = {c} /\ Up /\ UNCHANGED <<runQueue, runner>>
      BY <2>5 DEF RegisterOperation, parserUnchanged, CommandsMove
    <3>2. CASE running' = running /\ parser' = [parser EXCEPT !.pos = @ + 1]
      BY <3>1, <3>2 DEF Tracked, TypeOK, GoroutineType, ParserState
    <3>3. CASE /\ running' = running \union {[cmd |-> c, pos |-> parser.pos]}
               /\ parser' = [parser EXCEPT !.pc = "push"]
      <4>1. parser'.pc = "push" /\ parser'.cmd = {c} /\ parser'.pos = parser.pos
        BY <3>1, <3>3 DEF TypeOK, GoroutineType, ParserState
      <4> QED
        BY <3>1, <3>3, <4>1 DEF Tracked
    <3> QED
      BY <2>5, <3>2, <3>3 DEF RegisterOperation
  <2>6. ASSUME NEW c \in parser.cmd, PushOperation(c) PROVE Tracked'
    <3> DEFINE op == [cmd |-> c, pos |-> parser.pos]
    <3>1. /\ parser.pc = "push" /\ parser.cmd = {c} /\ Up /\ UNCHANGED <<running, runner>>
          /\ runQueue' = Append(runQueue, op) /\ parser'.pc = "register"
      BY <2>6 DEF PushOperation, parserUnchanged, CommandsMove, TypeOK, GoroutineType, ParserState
    <3>2. op \in Operations
      BY <3>1, PushedIsNew
    <3>3. Range(runQueue') = Range(runQueue) \union {op}
      BY <2>1, <3>1, <3>2, AppendRange
    <3> QED
      BY <3>1, <3>3 DEF Tracked
  <2>7. CASE RunModule
    <3>1. Range(runQueue) = {Head(runQueue)} \union Range(runQueue')
      BY <2>1, <2>7, TailRange DEF RunModule
    <3>2. /\ runner.pc = "idle" /\ runner'.pc = "run" /\ Up /\ UNCHANGED <<running, parser>>
          /\ runner'.result = {[op |-> Head(runQueue), status |-> "success"]}
      BY <2>7 DEF RunModule, runnerUnchanged
    <3> QED
      BY <3>1, <3>2 DEF Tracked
  <2>8. ASSUME NEW r \in runner.result, NEW status \in Statuses, ModuleEnds(r, status)
        PROVE  Tracked'
    <3>1. /\ runner.pc = "run" /\ runner'.pc = "deliver" /\ Up /\ UNCHANGED <<runQueue, parser>>
          /\ running' = running \ {r.op} /\ runner.result = {r}
      BY <2>8 DEF ModuleEnds, runnerUnchanged, Removed, OperationsMove
    <3>2. r.op \notin Range(runQueue)
      BY DEF OperationsMove
    <3>3. \A c \in parser.cmd : parser.pc = "push" => [cmd |-> c, pos |-> parser.pos] # r.op
      BY PushedIsNew
    <3> QED
      BY <3>1, <3>2, <3>3 DEF Tracked
  <2>9. ASSUME NEW r \in runner.result, ReceiveModuleResult(r) PROVE Tracked'
    <3>1. /\ runner.pc = "deliver" /\ runner'.pc = "idle" /\ Up
          /\ UNCHANGED <<running, runQueue, parser>>
      BY <2>9 DEF ReceiveModuleResult, RunnerIdle, runnerUnchanged
    <3> QED
      BY <3>1 DEF Tracked
  <2>10. CASE AgentOnly \/ SendResults \/ PublishFails \/ UNCHANGED vars
    BY <2>2, <2>10 DEF AgentOnly, SendResults, PublishFails, senderUnchanged, vars, Up
  <2>11. ASSUME NEW c \in Commands, GetCommand(c) \/ Receiver(c) PROVE Tracked'
    BY <2>2, <2>11 DEF GetCommand, Receiver, BeginScan, EndScan, ForwardCommand, CloseResultChan,
       ScanFailed, receiverUnchanged, Up
  <2> QED
    BY <2>3, <2>4, <2>5, <2>6, <2>7, <2>8, <2>9, <2>10, <2>11, AgentSteps DEF Parser
<1>3. TypeOK /\ Tracked => RunningIsTracked
  BY DEF Tracked, RunningIsTracked
<1> QED
  BY <1>1, <1>2, <1>3, TypesAndCommands, OperationsMoved, PTL DEF Spec

--------------------------------------------------------------------------------
(* What receiveModuleResults collects.                                        *)

(* No command comes back to the relay, and build says which agent it is.        *)
LEMMA HeldShrinks ==
  ASSUME TypeOK, [Next]_vars
  PROVE  build' = build /\ Held' \subseteq Held
<1> USE DEF TypeOK, Held
<1>1. ASSUME NEW c \in Commands, GetCommand(c) PROVE build' = build /\ Held' \subseteq Held
  <2>1. Range(newCommand') = Range(newCommand) \union {c} /\ c \in relay
    BY <1>1, AppendRange DEF GetCommand, ChannelType
  <2> QED
    BY <1>1, <2>1 DEF GetCommand
<1>2. CASE ParseCommand
  <2>1. Range(newCommand) = {Head(newCommand)} \union Range(newCommand')
    BY <1>2, TailRange DEF ParseCommand, ChannelType
  <2> QED
    BY <1>2, <2>1 DEF ParseCommand, parserUnchanged
<1>3. ASSUME NEW c \in parser.cmd, \/ RejectCommand(c) \/ RegisterOperation(c)
                                   \/ PushOperation(c) \/ StartReceiver(c)
      PROVE  build' = build /\ Held' \subseteq Held
  <2>1. build' = build /\ UNCHANGED <<relay, newCommand>>
    BY <1>3 DEF RejectCommand, RegisterOperation, PushOperation, StartReceiver, parserUnchanged
  <2>2. CASE RejectCommand(c) \/ StartReceiver(c)
    <3>1. parser'.cmd = {}
      BY <2>2 DEF RejectCommand, StartReceiver, ParserIdle
    <3> QED
      BY <2>1, <3>1
  <2>3. CASE RegisterOperation(c) \/ PushOperation(c)
    <3>1. parser'.cmd = parser.cmd
      BY <2>3 DEF RegisterOperation, PushOperation, GoroutineType, ParserState
    <3> QED
      BY <2>1, <3>1
  <2> QED
    BY <1>3, <2>2, <2>3
<1>4. CASE RunModule \/ SendResults \/ PublishFails \/ AgentOnly \/ UNCHANGED vars
  BY <1>4 DEF RunModule, runnerUnchanged, SendResults, PublishFails, senderUnchanged, AgentOnly, vars
<1>5. ASSUME NEW r \in runner.result, ReceiveModuleResult(r) \/ \E s \in Statuses : ModuleEnds(r, s)
      PROVE  build' = build /\ Held' \subseteq Held
  BY <1>5 DEF ReceiveModuleResult, ModuleEnds, runnerUnchanged
<1>6. ASSUME NEW c \in Commands, Receiver(c) PROVE build' = build /\ Held' \subseteq Held
  BY <1>6 DEF Receiver, BeginScan, EndScan, ForwardCommand, CloseResultChan, ScanFailed,
     receiverUnchanged
<1> QED
  BY <1>1, <1>2, <1>3, <1>4, <1>5, <1>6, AgentSteps DEF Parser

(* A receiver that only goes on keeps what it has collected.                   *)
LEMMA CollectsStays ==
  ASSUME NEW c \in Commands, Collects(c),
         receiver'[c].results = receiver[c].results, receiver'[c].count = receiver[c].count,
         receiver'[c].status = receiver[c].status,
         c \in Held' => receiver'[c].pc = "none",
         receiver'[c].pc = "none" => receiver[c].pc = "none",
         receiver'[c].pc \in {"finish", "close", "done"} => receiver[c].pc \in {"finish", "close", "done"},
         c \in closed' => receiver'[c].pc = "done"
  PROVE  Collects(c)' /\ Filled(c)' = Filled(c)
<1>1. Filled(c)' = Filled(c)
  BY DEF Filled
<1>2. OwnResults(c, Filled(c), receiver[c].status, receiver[c].results)'
      = OwnResults(c, Filled(c), receiver[c].status, receiver[c].results)
  BY <1>1 DEF OwnResults
<1> QED
  BY <1>1, <1>2 DEF Collects

(* The result of an operation that was awaited is counted once; with the last one    *)
(* every position has its result.                                                   *)
LEMMA CollectsResult ==
  ASSUME ReceiverType, NEW c \in Commands, NEW i \in Positions(c), NEW s \in Statuses,
         NEW r, r = [op |-> [cmd |-> c, pos |-> i], status |-> s], r \in Outcomes,
         Collects(c), i \notin Filled(c), c \notin Held', c \notin closed', receiver[c].pc = "recv",
         receiver' = [receiver EXCEPT ![c] = WithResult(c, i, r, WorstStatus(receiver[c].status, s))]
  PROVE  Collects(c)' /\ Filled(c)' = Filled(c) \union {i}
<1> DEFINE status == WorstStatus(receiver[c].status, s)
           rec == WithResult(c, i, r, status)
<1>1. status \in Statuses /\ receiver[c].status \in Statuses
  BY DEF WorstStatus, ReceiverType, ReceiverState
<1>2. /\ rec \in ReceiverState /\ Len(rec.results) = Width[c]
      /\ rec.status = status /\ rec.count = receiver[c].count + 1
      /\ rec.pc = IF Enough(c, receiver[c].count + 1) THEN "finish" ELSE receiver[c].pc
      /\ rec.results[i] = {r}
      /\ \A j \in Positions(c) : j # i => rec.results[j] = receiver[c].results[j]
  BY <1>1, ResultEntered
<1>3. receiver'[c] = rec
  BY <1>2, ReceiverReplaced
<1> HIDE DEF rec
<1>4. Filled(c)' = Filled(c) \union {i}
  BY <1>2, <1>3 DEF Filled
<1>5. IsFiniteSet(Positions(c)) /\ Cardinality(Positions(c)) = Width[c] /\ Width[c] \in Nat
  BY FS_Interval, AgentExecAssumption DEF Positions
<1>6. IsFiniteSet(Filled(c)) /\ IsFiniteSet(Filled(c) \union {i}) /\ Filled(c) \union {i} \subseteq Positions(c)
  BY <1>5, FS_Subset, FS_AddElement DEF Filled
<1>7. receiver'[c].count = Cardinality(Filled(c)')
  BY <1>2, <1>3, <1>4, <1>6, FS_AddElement DEF Collects
<1>8. receiver'[c].pc = "finish" => Filled(c)' = Positions(c)
  <2> SUFFICES ASSUME receiver'[c].pc = "finish" PROVE Filled(c)' = Positions(c)
    OBVIOUS
  <2>1. receiver[c].count + 1 >= Width[c]
    BY <1>2, <1>3 DEF Enough
  <2>2. Cardinality(Filled(c)') >= Width[c]
    BY <1>2, <1>3, <1>7, <2>1
  <2>3. Cardinality(Filled(c)') <= Width[c] /\ Cardinality(Filled(c)') \in Nat
    BY <1>4, <1>5, <1>6, FS_Subset, FS_CardinalityType
  <2> QED
    BY <1>4, <1>5, <1>6, <2>2, <2>3, FS_Subset
<1>9. OwnResults(c, Filled(c)', receiver'[c].status, receiver'[c].results)
  <2> HIDE DEF status
  <2>1. OwnResults(c, Filled(c), receiver[c].status, receiver[c].results)
    BY DEF Collects
  <2>2. \A j \in Filled(c) : j # i /\ rec.results[j] = receiver[c].results[j]
    BY <1>2 DEF Filled
  <2>3. \A j \in Filled(c) \union {i} :
          \E t \in Statuses : rec.results[j] = {[op |-> [cmd |-> c, pos |-> j], status |-> t]}
    BY <1>2, <2>1, <2>2 DEF OwnResults
  <2>4. status = "success" => receiver[c].status = "success" /\ s = "success"
    BY DEF status, WorstStatus
  <2>5. status = "success" => \A j \in Filled(c) \union {i} : \A q \in rec.results[j] : q.status = "success"
    BY <1>2, <2>1, <2>2, <2>4 DEF OwnResults
  <2>6. status # "success" => \E j \in Filled(c) \union {i} : \E q \in rec.results[j] : q.status = status
    <3>1. CASE receiver[c].status = "success"
      <4>1. status = s /\ r \in rec.results[i] /\ r.status = s
        BY <1>2, <3>1 DEF status, WorstStatus
      <4> QED
        BY <4>1
    <3>2. CASE receiver[c].status # "success"
      <4>1. status = receiver[c].status
        BY <3>2 DEF status, WorstStatus
      <4>2. PICK j \in Filled(c) : \E q \in receiver[c].results[j] : q.status = receiver[c].status
        BY <2>1, <3>2 DEF OwnResults
      <4> QED
        BY <2>2, <4>1, <4>2
    <3> QED
      BY <3>1, <3>2
  <2> QED
    BY <1>2, <1>3, <1>4, <2>3, <2>5, <2>6 DEF OwnResults
<1>10. receiver'[c].pc \in {"recv", "finish"}
  BY <1>2, <1>3
<1> QED
  BY <1>4, <1>7, <1>8, <1>9, <1>10 DEF Collects

(* The answer to a command that is refused is of that command.                  *)
LEMMA RefusalIsOwn ==
  ASSUME NEW c \in Rejected
  PROVE  OwnAnswer([cmd |-> c, status |-> "failed",
                    results |-> [i \in Positions(c) |->
                                   {[op |-> [cmd |-> c, pos |-> i], status |-> "failed"]}]])
<1> DEFINE f == [i \in Positions(c) |-> {[op |-> [cmd |-> c, pos |-> i], status |-> "failed"]}]
           p == [cmd |-> c, status |-> "failed", results |-> f]
<1>1. \A i \in Positions(c) : f[i] = {[op |-> [cmd |-> c, pos |-> i], status |-> "failed"]}
  OBVIOUS
<1> HIDE DEF f
<1>2. p.cmd = c /\ p.status = "failed" /\ p.results = f
  OBVIOUS
<1>3. OwnResults(c, Positions(c), "failed", f) \/ Positions(c) = {}
  <2> SUFFICES ASSUME Positions(c) # {} PROVE OwnResults(c, Positions(c), "failed", f)
    OBVIOUS
  <2>1. \E i \in Positions(c) : \E r \in f[i] : r.status = "failed"
    <3>1. PICK i \in Positions(c) : TRUE
      OBVIOUS
    <3>2. [op |-> [cmd |-> c, pos |-> i], status |-> "failed"] \in f[i]
      BY <1>1
    <3> QED
      BY <3>2
  <2> QED
    BY <1>1, <2>1 DEF OwnResults, Statuses
<1>4. OwnAnswer(p)
  BY <1>2, <1>3 DEF OwnAnswer
<1> QED
  BY <1>4 DEF f

(* Without missing modules, every operation is sent to runModule once, and      *)
(* receiveModuleResults takes its result once: it has all results of its own     *)
(* command, and nothing else, when it has counted enough of them.                *)
LEMMA ResultsAreCollected == Spec => []AllCollected
<1>1. Init => AllCollected
  <2> SUFFICES ASSUME Init PROVE Collected
    BY DEF AllCollected
  <2>1. ASSUME NEW c \in Commands PROVE Collects(c)
    <3>1. /\ receiver[c].pc = "none" /\ receiver[c].count = 0 /\ receiver[c].status = "success"
          /\ \A i \in Positions(c) : receiver[c].results[i] = {}
      BY ReceiverNewIs DEF Init
    <3>2. Filled(c) = {}
      BY <3>1 DEF Filled
    <3>3. Cardinality({}) = 0
      BY FS_EmptySet
    <3>4. OwnResults(c, {}, "success", receiver[c].results)
      BY DEF OwnResults
    <3>5. c \notin closed
      BY DEF Init
    <3> QED
      BY <3>1, <3>2, <3>3, <3>4, <3>5 DEF Collects
  <2>2. /\ Range(runQueue) = {} /\ Range(outgoing) = {} /\ runner.result = {} /\ published = {}
        /\ failedOps = {} /\ parser.pc = "idle"
    BY DEF Init, Range, RunnerIdle, ParserIdle
  <2> QED
    BY <2>1, <2>2 DEF Collected
<1>2. TypeOK /\ CommandsMove /\ OperationsMove /\ AllCollected /\ [Next]_vars => AllCollected'
  <2> SUFFICES ASSUME TypeOK, CommandsMove, OperationsMove, AllCollected, [Next]_vars, Missing' = {}
               PROVE  Collected'
    BY DEF AllCollected
  <2>1. Held' \subseteq Held /\ Missing = {} /\ Collected
    BY HeldShrinks DEF AllCollected, Missing
  <2>2. /\ runQueue \in Seq(Operations) /\ Range(runQueue) \subseteq Operations
        /\ outgoing \in Seq(AnswerState) /\ ReceiverType
    BY RangeOfSeq DEF TypeOK, ChannelType
  <2>3. \A r \in runner.result : r \in Outcomes /\ r.op \in Operations
    BY ResultsInHand
  <2>4. \A op \in Operations : op.cmd \in Commands /\ op.pos \in Positions(op.cmd)
    BY OperationIs
  <2>5. \A c \in Commands : Collects(c) /\ (c \in Held' => receiver[c].pc = "none")
    BY <2>1 DEF Collected, Collects
  <2>6. ASSUME NEW c \in Commands, receiver'[c] = receiver[c], c \in closed' => c \in closed
        PROVE  Collects(c)' /\ Filled(c)' = Filled(c)
    <3>1. c \in Held' => receiver'[c].pc = "none"
      BY <2>5, <2>6
    <3>2. c \in closed' => receiver'[c].pc = "done"
      BY <2>5, <2>6 DEF Collects
    <3> QED
      BY <2>5, <2>6, <3>1, <3>2, CollectsStays
  \* A step that takes a receiver further, or none, and receives no result.
  <2>7. ASSUME \A c \in Commands : Collects(c)' /\ Filled(c)' = Filled(c),
               failedOps' = {},
               \A op \in Range(runQueue') : op \in Operations /\ Awaited(op),
               \A r \in runner'.result : r.op \in Operations /\ Awaited(r.op),
               parser'.pc = "reject" => parser'.cmd \subseteq Rejected,
               \A p \in Range(outgoing') \union published' : OwnAnswer(p)
        PROVE  Collected'
    <3>1. \A op \in Operations : Awaited(op) => Awaited(op)'
      BY <2>4, <2>7 DEF Awaited
    <3> QED
      BY <2>7, <3>1 DEF Collected, OwnAnswer, OwnResults
  <2>8. CASE UNCHANGED <<receiver, closed, failedOps, runQueue, runner, parser, outgoing, published>>
    <3>1. \A c \in Commands : Collects(c)' /\ Filled(c)' = Filled(c)
      BY <2>6, <2>8
    <3> QED
      BY <2>1, <2>2, <2>3, <2>7, <2>8, <3>1 DEF Collected
  <2>9. CASE ParseCommand
    <3>1. \A c \in Commands : Collects(c)' /\ Filled(c)' = Filled(c)
      BY <2>6, <2>9 DEF ParseCommand, parserUnchanged
    <3>2. parser'.pc = "reject" => parser'.cmd \subseteq Rejected
      BY <2>9 DEF ParseCommand
    <3> QED
      BY <2>1, <2>2, <2>3, <2>7, <2>9, <3>1, <3>2 DEF Collected, ParseCommand, parserUnchanged
  <2>10. ASSUME NEW c \in parser.cmd, RejectCommand(c) PROVE Collected'
    <3>1. \A d \in Commands : Collects(d)' /\ Filled(d)' = Filled(d)
      BY <2>6, <2>10 DEF RejectCommand, parserUnchanged
    <3>2. c \in Rejected /\ c \in Commands
      BY <2>1, <2>10, AgentExecAssumption DEF Collected, RejectCommand
    <3>3. PICK p \in AnswerState : outgoing' = Append(outgoing, p) /\ OwnAnswer(p)
      <4> DEFINE f == [i \in Positions(c) |-> {[op |-> [cmd |-> c, pos |-> i], status |-> "failed"]}]
                 p == [cmd |-> c, status |-> "failed", results |-> f]
      <4>1. \A i \in Positions(c) : [op |-> [cmd |-> c, pos |-> i], status |-> "failed"] \in Outcomes
        <5>1. \A i \in Positions(c) : i \in Nat \ {0} /\ i <= Width[c]
          BY <3>2, AgentExecAssumption DEF Positions
        <5>2. \A i \in Positions(c) : [cmd |-> c, pos |-> i] \in Operations
          BY <3>2, <5>1, OperationIs
        <5> QED
          BY <5>2, OutcomeIs DEF Statuses
      <4>2. f \in [Positions(c) -> SUBSET Outcomes]
        BY <4>1
      <4>3. f \in Seq(SUBSET Outcomes)
        BY <3>2, <4>2, ArrayIs
      <4>4. OwnAnswer(p)
        BY <3>2, RefusalIsOwn
      <4>5. outgoing' = Append(outgoing, p)
        BY <2>10 DEF RejectCommand
      <4> HIDE DEF f
      <4>6. p \in AnswerState
        BY <3>2, <4>3 DEF AnswerState, Statuses
      <4> QED
        BY <4>4, <4>5, <4>6
    <3>4. Range(outgoing') = Range(outgoing) \union {p}
      BY <2>2, <3>3, AppendRange
    <3>5. parser'.pc = "idle" /\ UNCHANGED <<failedOps, runQueue, runner, published>>
      BY <2>10 DEF RejectCommand, ParserIdle, parserUnchanged
    <3> QED
      BY <2>1, <2>2, <2>3, <2>7, <3>1, <3>3, <3>4, <3>5 DEF Collected
  <2>11. ASSUME NEW c \in parser.cmd, RegisterOperation(c) PROVE Collected'
    <3>1. \A d \in Commands : Collects(d)' /\ Filled(d)' = Filled(d)
      BY <2>6, <2>11 DEF RegisterOperation, parserUnchanged
    <3>2. /\ parser'.pc \in {"register", "push"} /\ failedOps' = failedOps
          /\ UNCHANGED <<runQueue, runner, outgoing, published>>
      BY <2>1, <2>11 DEF RegisterOperation, parserUnchanged, TypeOK, GoroutineType, ParserState
    <3> QED
      BY <2>1, <2>2, <2>3, <2>7, <3>1, <3>2 DEF Collected
  <2>12. ASSUME NEW c \in parser.cmd, PushOperation(c) PROVE Collected'
    <3> DEFINE op == [cmd |-> c, pos |-> parser.pos]
    <3>1. \A d \in Commands : Collects(d)' /\ Filled(d)' = Filled(d)
      BY <2>6, <2>12 DEF PushOperation, parserUnchanged
    <3>2. /\ parser.pc = "push" /\ parser'.pc = "register" /\ UNCHANGED <<failedOps, runner, outgoing, published>>
          /\ runQueue' = Append(runQueue, op)
      BY <2>12 DEF PushOperation, parserUnchanged, TypeOK, GoroutineType, ParserState
    <3>3. op \in Operations
      BY <3>2, PushedIsNew
    <3>4. Range(runQueue') = Range(runQueue) \union {op}
      BY <2>2, <3>2, <3>3, AppendRange
    <3>5. Awaited(op)
      <4>1. c \in Commands /\ c \in Held
        BY DEF TypeOK, GoroutineType, ParserState, Held
      <4>2. Filled(c) = {}
        BY <2>5, <4>1 DEF Collects
      <4> QED
        BY <4>2 DEF Awaited
    <3> QED
      BY <2>1, <2>2, <2>3, <2>7, <3>1, <3>2, <3>3, <3>4, <3>5 DEF Collected
  <2>13. ASSUME NEW c \in parser.cmd, StartReceiver(c) PROVE Collected'
    <3>1. /\ c \in Commands /\ parser'.pc = "idle" /\ parser'.cmd = {}
          /\ UNCHANGED <<relay, newCommand, closed, failedOps, runQueue, runner, outgoing, published>>
          /\ receiver' = [receiver EXCEPT ![c].pc = "started"]
      BY <2>13 DEF StartReceiver, ParserIdle, parserUnchanged, TypeOK, GoroutineType, ParserState
    <3>2. c \notin Held'
      BY <3>1 DEF Held, CommandsMove
    <3>3. /\ receiver'[c].pc = "started" /\ receiver'[c].results = receiver[c].results
          /\ receiver'[c].count = receiver[c].count /\ receiver'[c].status = receiver[c].status
          /\ \A d \in Commands : d # c => receiver'[d] = receiver[d]
      BY <2>2, <3>1, ReceiverGoes
    <3>4. receiver[c].pc = "none" /\ c \notin closed'
      BY <2>5, <3>1 DEF Collects, Held
    <3>5. Collects(c)' /\ Filled(c)' = Filled(c)
      BY <2>5, <3>1, <3>2, <3>3, <3>4, CollectsStays
    <3>6. \A d \in Commands : Collects(d)' /\ Filled(d)' = Filled(d)
      BY <2>6, <3>1, <3>3, <3>5
    <3> QED
      BY <2>1, <2>2, <2>3, <2>7, <3>1, <3>6 DEF Collected
  <2>14. CASE RunModule
    <3>1. \A d \in Commands : Collects(d)' /\ Filled(d)' = Filled(d)
      BY <2>6, <2>14 DEF RunModule, runnerUnchanged
    <3>2. /\ Range(runQueue) = {Head(runQueue)} \union Range(runQueue')
          /\ runner'.result = {[op |-> Head(runQueue), status |-> "success"]}
          /\ UNCHANGED <<failedOps, parser, outgoing, published>>
      BY <2>2, <2>14, TailRange DEF RunModule, runnerUnchanged
    <3> QED
      BY <2>1, <2>2, <2>7, <3>1, <3>2 DEF Collected
  <2>15. ASSUME NEW r \in runner.result, NEW status \in Statuses, ModuleEnds(r, status)
         PROVE  Collected'
    <3>1. \A d \in Commands : Collects(d)' /\ Filled(d)' = Filled(d)
      BY <2>6, <2>15 DEF ModuleEnds, runnerUnchanged
    <3>2. /\ runner'.result = {[op |-> r.op, status |-> status]}
          /\ UNCHANGED <<failedOps, runQueue, parser, outgoing, published>>
      BY <2>15 DEF ModuleEnds, runnerUnchanged
    <3> QED
      BY <2>1, <2>2, <2>3, <2>7, <3>1, <3>2 DEF Collected
  <2>16. ASSUME NEW r \in runner.result, ReceiveModuleResult(r) PROVE Collected'
    <3>1. PICK c \in Commands : \E j \in Positions(c), t \in Statuses :
            r = [op |-> [cmd |-> c, pos |-> j], status |-> t] /\ r \in Outcomes
      BY <2>3, <2>4, OperationIs, OutcomeIs
    <3>0. PICK i \in Positions(c), s \in Statuses :
            r = [op |-> [cmd |-> c, pos |-> i], status |-> s] /\ r \in Outcomes
      BY <3>1
    <3>2. r.op.cmd = c /\ r.op.pos = i /\ r.status = s
      BY <3>0
    <3>3. /\ receiver[c].pc = "recv" /\ c \notin closed /\ runner'.result = {}
          /\ receiver' = [receiver EXCEPT ![c] =
                            WithResult(c, i, r, WorstStatus(receiver[c].status, s))]
          /\ UNCHANGED <<closed, failedOps, runQueue, parser, outgoing, published>>
      BY <2>16, <3>2 DEF ReceiveModuleResult, RunnerIdle, runnerUnchanged
    <3>4. i \notin Filled(c)
      BY <2>1, <3>2 DEF Collected, Awaited
    <3>5. c \notin Held' /\ c \notin closed'
      BY <2>5, <3>3
    <3>6. Collects(c)' /\ Filled(c)' = Filled(c) \union {i}
      BY <2>2, <2>5, <3>0, <3>3, <3>4, <3>5, CollectsResult
    <3>7. WorstStatus(receiver[c].status, s) \in Statuses
      BY <2>2 DEF WorstStatus, ReceiverType, ReceiverState
    <3>8. \A d \in Commands : d # c => receiver'[d] = receiver[d]
      BY <2>2, <3>3
    <3>9. \A d \in Commands : d # c => Collects(d)' /\ Filled(d)' = Filled(d)
      BY <2>6, <3>3, <3>8
    <3>10. ASSUME NEW op \in Range(runQueue) PROVE Awaited(op)'
      <4>1. op \in Operations /\ op.cmd \in Commands /\ op = [cmd |-> op.cmd, pos |-> op.pos] /\ Awaited(op)
        BY <2>1, <2>2, OperationIs DEF Collected
      <4>2. op # [cmd |-> c, pos |-> i]
        BY <3>0 DEF OperationsMove
      <4>3. op.cmd = c => op.pos # i
        BY <4>1, <4>2
      <4> QED
        BY <3>6, <3>9, <4>1, <4>3 DEF Awaited
    <3> QED
      BY <2>1, <3>3, <3>6, <3>9, <3>10 DEF Collected, OwnAnswer, OwnResults
  <2>17. ASSUME NEW c \in Commands, Receiver(c) PROVE Collected'
    \* Without failed entries of runningOps the receiver only goes on.
    <3>1. ASSUME NEW pc, receiver'[c].pc = pc, pc # "none",
                 receiver'[c].results = receiver[c].results,
                 receiver'[c].count = receiver[c].count, receiver'[c].status = receiver[c].status,
                 \A d \in Commands : d # c => receiver'[d] = receiver[d],
                 receiver[c].pc # "none",
                 pc \in {"finish", "close", "done"} => receiver[c].pc \in {"finish", "close", "done"},
                 closed' = IF pc = "done" THEN closed \union {c} ELSE closed,
                 receiver[c].pc # "done",
                 UNCHANGED <<failedOps, runQueue, runner, parser, published>>,
                 \A p \in Range(outgoing') : OwnAnswer(p)
          PROVE  Collected'
      <4>1. c \notin Held'
        BY <2>5, <3>1
      <4>2. c \in closed' => pc = "done"
        BY <2>5, <3>1 DEF Collects
      <4>3. Collects(c)' /\ Filled(c)' = Filled(c)
        BY <2>5, <3>1, <4>1, <4>2, CollectsStays
      <4>4. ASSUME NEW d \in Commands, d # c PROVE Collects(d)' /\ Filled(d)' = Filled(d)
        <5>1. d \in closed' => d \in closed
          BY <3>1, <4>4
        <5> QED
          BY <2>6, <3>1, <4>4, <5>1
      <4>5. \A d \in Commands : Collects(d)' /\ Filled(d)' = Filled(d)
        BY <4>3, <4>4
      <4> QED
        BY <2>1, <2>2, <2>3, <2>7, <3>1, <4>5 DEF Collected
    <3>2. CASE BeginScan(c)
      <4>1. /\ receiver[c].pc = "started"
            /\ receiver' = [receiver EXCEPT ![c] = [@ EXCEPT !.pc = "scan", !.scan = failedOps]]
            /\ UNCHANGED <<closed, failedOps, runQueue, runner, parser, outgoing, published>>
        BY <3>2 DEF BeginScan, receiverUnchanged
      <4>2. failedOps \subseteq Operations
        BY DEF TypeOK, GoroutineType
      <4>3. /\ receiver'[c].pc = "scan" /\ receiver'[c].results = receiver[c].results
            /\ receiver'[c].count = receiver[c].count /\ receiver'[c].status = receiver[c].status
            /\ \A d \in Commands : d # c => receiver'[d] = receiver[d]
        BY <2>2, <4>1, <4>2, ScanBegins
      <4> QED
        BY <2>1, <3>1, <4>1, <4>3 DEF Collected
    <3>3. CASE EndScan(c)
      <4>1. /\ receiver[c].pc = "scan" /\ receiver' = [receiver EXCEPT ![c].pc = "recv"]
            /\ UNCHANGED <<closed, failedOps, runQueue, runner, parser, outgoing, published>>
        BY <3>3 DEF EndScan, receiverUnchanged
      <4>2. /\ receiver'[c].pc = "recv" /\ receiver'[c].results = receiver[c].results
            /\ receiver'[c].count = receiver[c].count /\ receiver'[c].status = receiver[c].status
            /\ \A d \in Commands : d # c => receiver'[d] = receiver[d]
        BY <2>2, <4>1, ReceiverGoes
      <4> QED
        BY <2>1, <3>1, <4>1, <4>2 DEF Collected
    <3>4. CASE ForwardCommand(c)
      <4> DEFINE p == [cmd |-> c, status |-> receiver[c].status, results |-> receiver[c].results]
      <4>1. /\ receiver[c].pc = "finish" /\ receiver' = [receiver EXCEPT ![c].pc = "close"]
            /\ outgoing' = Append(outgoing, p)
            /\ UNCHANGED <<closed, failedOps, runQueue, runner, parser, published>>
        BY <3>4 DEF ForwardCommand, receiverUnchanged
      <4>2. /\ receiver'[c].pc = "close" /\ receiver'[c].results = receiver[c].results
            /\ receiver'[c].count = receiver[c].count /\ receiver'[c].status = receiver[c].status
            /\ \A d \in Commands : d # c => receiver'[d] = receiver[d]
        BY <2>2, <4>1, ReceiverGoes
      <4>3. OwnResults(c, Positions(c), receiver[c].status, receiver[c].results) /\ Positions(c) # {}
        BY <2>5, <4>1 DEF Collects
      <4>4. p.cmd = c /\ p.status = receiver[c].status /\ p.results = receiver[c].results
        OBVIOUS
      <4>5. p \in AnswerState
        BY <2>2 DEF AnswerState, ReceiverType, ReceiverState
      <4> HIDE DEF p
      <4>6. OwnAnswer(p)
        BY <4>3, <4>4 DEF OwnAnswer
      <4>7. Range(outgoing') = Range(outgoing) \union {p}
        BY <2>2, <4>1, <4>5, AppendRange
      <4>8. \A q \in Range(outgoing') : OwnAnswer(q)
        BY <2>1, <4>6, <4>7 DEF Collected
      <4> QED
        BY <3>1, <4>1, <4>2, <4>8
    <3>5. CASE CloseResultChan(c)
      <4>1. /\ receiver[c].pc = "close" /\ receiver' = [receiver EXCEPT ![c].pc = "done"]
            /\ closed' = closed \union {c}
            /\ UNCHANGED <<failedOps, runQueue, runner, parser, outgoing, published>>
        BY <3>5 DEF CloseResultChan, receiverUnchanged
      <4>2. /\ receiver'[c].pc = "done" /\ receiver'[c].results = receiver[c].results
            /\ receiver'[c].count = receiver[c].count /\ receiver'[c].status = receiver[c].status
            /\ \A d \in Commands : d # c => receiver'[d] = receiver[d]
        BY <2>2, <4>1, ReceiverGoes
      <4> QED
        BY <2>1, <3>1, <4>1, <4>2 DEF Collected
    <3>6. ASSUME NEW op \in failedOps PROVE FALSE
      BY <2>1, <3>6 DEF Collected
    <3> QED
      BY <2>17, <3>2, <3>3, <3>4, <3>5, <3>6 DEF Receiver
  <2>18. CASE SendResults \/ PublishFails
    <3>1. \A d \in Commands : Collects(d)' /\ Filled(d)' = Filled(d)
      BY <2>6, <2>18 DEF SendResults, PublishFails, senderUnchanged
    <3>2. /\ Range(outgoing) = {Head(outgoing)} \union Range(outgoing')
          /\ published' \subseteq published \union {Head(outgoing)}
          /\ UNCHANGED <<failedOps, runQueue, runner, parser>>
      BY <2>2, <2>18, TailRange DEF SendResults, PublishFails, senderUnchanged
    <3> QED
      BY <2>1, <2>2, <2>3, <2>7, <3>1, <3>2 DEF Collected
  <2>19. ASSUME NEW c \in Commands, GetCommand(c) PROVE Collected'
    BY <2>8, <2>19 DEF GetCommand
  <2>20. CASE AgentOnly \/ UNCHANGED vars
    BY <2>8, <2>20 DEF AgentOnly, vars
  <2> QED
    BY <2>9, <2>10, <2>11, <2>12, <2>13, <2>14, <2>15, <2>16, <2>17, <2>18, <2>19, <2>20, AgentSteps
       DEF Parser
<1> QED
  BY <1>1, <1>2, TypesAndCommands, OperationsMoved, PTL DEF Spec

(* An agent with all its modules answers a command with the results of all its    *)
(* operations, each at its position, whatever the order in which parseCommands,   *)
(* runModule and the receivers of other commands run: doc/agent.rst.              *)
THEOREM AnswersAreOwn == Spec => []AnswerIsOwn
<1>1. AllCollected => AnswerIsOwn
  BY DEF AllCollected, Collected, OwnAnswer, AnswerIsOwn
<1> QED
  BY <1>1, ResultsAreCollected, PTL

(* Such an agent never crashes because runModule sends on a channel that           *)
(* receiveModuleResults has closed.                                                *)
THEOREM NeverSendsOnClosed == Spec => []NoSendOnClosed
<1>1. TypeOK /\ AllCollected => NoSendOnClosed
  <2> SUFFICES ASSUME TypeOK, AllCollected, Missing = {}, NEW r \in runner.result, r.op.cmd \in closed
               PROVE  FALSE
    BY DEF NoSendOnClosed
  <2>1. r.op.cmd \in Commands /\ r.op.pos \in Positions(r.op.cmd)
    BY ResultsInHand
  <2>2. Collects(r.op.cmd) /\ Awaited(r.op)
    BY <2>1 DEF AllCollected, Collected
  <2> QED
    BY <2>1, <2>2 DEF Collects, Awaited
<1> QED
  BY <1>1, ResultsAreCollected, TypesAndCommands, PTL

================================================================================
