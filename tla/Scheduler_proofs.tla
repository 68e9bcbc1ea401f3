---------------------------- MODULE Scheduler_proofs ----------------------------
(******************************************************************************)
(* Theorems about Scheduler, for any number of schedulers, actions and agents *)
(* and any number of faults.                                                  *)
(******************************************************************************)
EXTENDS Scheduler, TLAPS

(* Type correctness of the scheduler model.                                   *)
THEOREM TypeCorrect == Spec => []TypeOK
<1> USE SchedulerAssumption
<1> USE DEF ActionStatuses, dbVars, diskVars, returnVars, relayVars
<1>1. Init => TypeOK
  BY DEF Init, TypeOK, CollectorState, NewActionState, SenderState, ReturnerState, UpdaterState,
      ListingType, CollectorIdle, NewActionIdle, SenderIdle, ReturnerIdle, UpdaterIdle,
    TablesType, CommandsType, SpoolType, FilesType, CollectorType, NewActionType, TriesType,
        SenderType, ReturnerType, UpdaterType, RelayType
<1>2. TypeOK /\ [Next]_vars => TypeOK'
  <2> SUFFICES ASSUME TypeOK, [Next]_vars PROVE TypeOK'
    OBVIOUS
  <2>1. ASSUME NEW a \in Actions, Tick(a) PROVE TypeOK'
    <3>1. TablesType'
      BY <2>1 DEF TypeOK, TablesType, Tick
    <3> QED
      BY <2>1, <3>1 DEF TypeOK, Tick, CommandsType, SpoolType, FilesType, CollectorType,
          NewActionType, TriesType, SenderType, ReturnerType, UpdaterType, RelayType, ListingType
  <2>2. ASSUME NEW a \in Actions, CreateAction(a) PROVE TypeOK'
    <3>1. TablesType'
      BY <2>2 DEF TypeOK, TablesType, CreateAction
    <3> QED
      BY <2>2, <3>1 DEF TypeOK, CreateAction, CommandsType, SpoolType, FilesType, CollectorType,
          NewActionType, TriesType, SenderType, ReturnerType, UpdaterType, RelayType, ListingType
  <2>3. ASSUME NEW s \in Schedulers, NEW a \in Actions, IssueKillAction(s, a) PROVE TypeOK'
    <3>1. TablesType'
      BY <2>3 DEF TypeOK, TablesType, IssueKillAction, WriteFile, Dirs
    <3>2. SpoolType'
      BY <2>3 DEF TypeOK, SpoolType, IssueKillAction, WriteFile, Dirs
    <3> QED
      BY <2>3, <3>1, <3>2 DEF TypeOK, IssueKillAction, CommandsType, FilesType, CollectorType,
          NewActionType, TriesType, SenderType, ReturnerType, UpdaterType, RelayType, ListingType
  <2>4. ASSUME NEW g \in Agents, AgentGone(g) PROVE TypeOK'
    <3>1. TablesType'
      BY <2>4 DEF TypeOK, TablesType, AgentGone
    <3> QED
      BY <2>4, <3>1 DEF TypeOK, AgentGone, CommandsType, SpoolType, FilesType, CollectorType,
          NewActionType, TriesType, SenderType, ReturnerType, UpdaterType, RelayType, ListingType
  <2>5. ASSUME NEW g \in Agents, AgentBack(g) PROVE TypeOK'
    <3>1. TablesType'
      BY <2>5 DEF TypeOK, TablesType, AgentBack
    <3> QED
      BY <2>5, <3>1 DEF TypeOK, AgentBack, CommandsType, SpoolType, FilesType, CollectorType,
          NewActionType, TriesType, SenderType, ReturnerType, UpdaterType, RelayType, ListingType
  <2>6. ASSUME NEW c \in toAgents, CommandLost(c) PROVE TypeOK'
    <3>1. RelayType'
      BY <2>6 DEF TypeOK, RelayType, CommandLost
    <3> QED
      BY <2>6, <3>1 DEF TypeOK, CommandLost, TablesType, CommandsType, SpoolType, FilesType,
          CollectorType, NewActionType, TriesType, SenderType, ReturnerType, UpdaterType,
          ListingType
  <2>7. ASSUME NEW c \in toAgents, NEW o \in AgentOutcomes, AgentReturn(c, o) PROVE TypeOK'
    <3>1. RelayType'
      BY <2>7 DEF TypeOK, RelayType, AgentReturn, Results, Finished
    <3> QED
      BY <2>7, <3>1 DEF TypeOK, AgentReturn, TablesType, CommandsType, SpoolType, FilesType,
          CollectorType, NewActionType, TriesType, SenderType, ReturnerType, UpdaterType,
          ListingType
  <2>8. ASSUME NEW s \in Schedulers, SetupRunnableActions(s) PROVE TypeOK'
    <3>1. TablesType'
      BY <2>8 DEF TypeOK, TablesType, SetupRunnableActions, MarkedScheduled, Claimed, Runnable,
          collectorUnchanged
    <3>2. CollectorType'
      BY <2>8 DEF TypeOK, CollectorType, CollectorState, ListingType, SetupRunnableActions,
          MarkedScheduled, Claimed, Runnable
    <3> QED
      BY <2>8, <3>1, <3>2 DEF TypeOK, SetupRunnableActions, collectorUnchanged, CommandsType,
          SpoolType, FilesType, NewActionType, TriesType, SenderType, ReturnerType, UpdaterType,
          RelayType
  <2>9. ASSUME NEW s \in Schedulers, NEW a \in Actions, SetupAction(s, a) PROVE TypeOK'
    <3>1. SpoolType'
      BY <2>9 DEF TypeOK, SpoolType, CollectorType, SetupAction, WriteFile, Dirs
    <3>2. CollectorType'
      BY <2>9 DEF TypeOK, CollectorType, CollectorState, ListingType, SetupAction, WriteFile, Dirs
    <3> QED
      BY <2>9, <3>1, <3>2 DEF TypeOK, SetupAction, collectorUnchanged, TablesType, CommandsType,
          FilesType, NewActionType, TriesType, SenderType, ReturnerType, UpdaterType, RelayType
  <2>10. ASSUME NEW s \in Schedulers, CollectorStage(s) PROVE TypeOK'
    <3>1. CollectorType'
      <4>1. collector \in [Schedulers -> CollectorState]
        BY DEF TypeOK, CollectorType
      <4>2. PICK pc \in {"spool", "returned", "expire"},
                 todo \in SUBSET (Actions \union Commands \union Results) :
              /\ collector' = [collector EXCEPT ![s] = [@ EXCEPT !.pc = pc, !.todo = todo]]
              /\ pc = "spool" => todo \subseteq Actions
              /\ pc = "returned" => todo \subseteq Results
              /\ pc = "expire" => todo \subseteq Commands
        <5>1. spool[s]["New"] \subseteq Actions
          BY DEF TypeOK, SpoolType, Dirs
        <5>2. returned[s] \subseteq Results /\ inflight[s] \subseteq Commands
          BY DEF TypeOK, FilesType
        <5> QED
          BY <2>10, <5>1, <5>2 DEF CollectorStage
      <4> DEFINE rec == [collector[s] EXCEPT !.pc = pc, !.todo = todo]
      <4>3. rec \in CollectorState /\ rec.pc = pc /\ rec.todo = todo
        BY <4>1 DEF CollectorState
      <4>4. collector' = [collector EXCEPT ![s] = rec]
        BY <4>2
      <4>5. ListingType'
        BY <4>1, <4>2, <4>3, <4>4 DEF TypeOK, CollectorType, ListingType
      <4> QED
        BY <4>1, <4>3, <4>4, <4>5 DEF CollectorType
    <3> QED
      BY <2>10, <3>1 DEF TypeOK, CollectorStage, collectorUnchanged, TablesType, CommandsType,
          SpoolType, FilesType, NewActionType, TriesType, SenderType, ReturnerType, UpdaterType,
          RelayType
  <2>11. ASSUME NEW s \in Schedulers, NEW a \in Actions, LoadNewActionFromSpool(s, a) PROVE TypeOK'
    <3>1. SpoolType'
      BY <2>11 DEF TypeOK, SpoolType, LoadNewActionFromSpool, RemoveFile, Dirs
    <3>2. CollectorType'
      BY <2>11 DEF TypeOK, CollectorType, CollectorState, ListingType, LoadNewActionFromSpool,
          RemoveFile, Dirs
    <3>3. NewActionType'
      <4> DEFINE rec == [newAction[s] EXCEPT !.pc = "load", !.act = {a}]
      <4>1. newAction \in [Schedulers -> NewActionState]
        BY DEF TypeOK, NewActionType
      <4>2. rec \in NewActionState
        BY <4>1 DEF NewActionState
      <4>3. newAction' = newAction \/ newAction' = [newAction EXCEPT ![s] = rec]
        BY <2>11 DEF LoadNewActionFromSpool
      <4> QED
        BY <4>1, <4>2, <4>3 DEF NewActionType
    <3>4. TriesType'
      <4> DEFINE rec == [newAction[s] EXCEPT !.pc = "load", !.act = {a}]
      <4>1. newAction \in [Schedulers -> NewActionState]
        BY DEF TypeOK, NewActionType
      <4>2. newAction' = newAction \/ newAction' = [newAction EXCEPT ![s] = rec]
        BY <2>11 DEF LoadNewActionFromSpool
      <4>3. rec.pc = "load"
        BY <4>1 DEF NewActionState
      <4>4. tries' = tries
        BY <2>11 DEF LoadNewActionFromSpool
      <4> QED
        BY <4>1, <4>2, <4>3, <4>4 DEF TypeOK, TriesType
    <3> QED
      BY <2>11, <3>1, <3>2, <3>3, <3>4 DEF TypeOK, LoadNewActionFromSpool, TablesType,
          CommandsType, FilesType, SenderType, ReturnerType, UpdaterType, RelayType
  <2>12. ASSUME NEW s \in Schedulers, NEW r \in Results, LoadReturnedCommand(s, r) PROVE TypeOK'
    <3>1. CollectorType'
      BY <2>12 DEF TypeOK, CollectorType, CollectorState, ListingType, FilesType,
          LoadReturnedCommand
    <3>2. ReturnerType'
      BY <2>12 DEF TypeOK, ReturnerType, ReturnerState, CollectorType, LoadReturnedCommand
    <3> QED
      BY <2>12, <3>1, <3>2 DEF TypeOK, LoadReturnedCommand, TablesType, CommandsType, SpoolType,
          FilesType, NewActionType, TriesType, SenderType, UpdaterType, RelayType
  <2>13. ASSUME NEW s \in Schedulers, NEW c \in Commands, ExpireCommand(s, c) PROVE TypeOK'
    <3>1. CollectorType'
      BY <2>13 DEF TypeOK, CollectorType, CollectorState, ListingType, ExpireCommand, ExpireDue
    <3> QED
      BY <2>13, <3>1 DEF TypeOK, ExpireCommand, collectorUnchanged, TablesType, CommandsType,
          SpoolType, FilesType, NewActionType, TriesType, SenderType, ReturnerType, UpdaterType,
          RelayType
  <2>14. ASSUME NEW s \in Schedulers, NEW c \in Commands, ExpireMove(s, c) PROVE TypeOK'
    <3>1. FilesType'
      BY <2>14 DEF TypeOK, FilesType, CollectorType, Commands, ExpireMove, Results, Finished,
          collectorUnchanged
    <3>2. CollectorType'
      <4> DEFINE rec == [collector[s] EXCEPT !.pc = "expire", !.cur = {}]
      <4>1. collector \in [Schedulers -> CollectorState] /\ ListingType
        BY DEF TypeOK, CollectorType
      <4>2. /\ rec \in CollectorState /\ rec.pc = "expire" /\ rec.todo = collector[s].todo
            /\ collector[s].pc = "expireMove"
        BY <2>14, <4>1 DEF CollectorState, ExpireMove
      <4>3. collector' = [collector EXCEPT ![s] = rec]
        BY <2>14 DEF ExpireMove
      <4> HIDE DEF rec
      <4> QED
        BY <4>1, <4>2, <4>3 DEF CollectorType, ListingType
    <3> QED
      BY <2>14, <3>1, <3>2 DEF TypeOK, ExpireMove, collectorUnchanged, TablesType, CommandsType,
          SpoolType, NewActionType, TriesType, SenderType, ReturnerType, UpdaterType, RelayType
  <2>15. ASSUME NEW s \in Schedulers, CollectorFails(s) PROVE TypeOK'
    <3>1. TablesType'
      BY <2>15 DEF TypeOK, TablesType, CollectorFails, CollectorIdle, Fault, collectorUnchanged
    <3>2. CollectorType'
      BY <2>15 DEF TypeOK, CollectorType, CollectorState, ListingType, CollectorFails,
          CollectorIdle, Fault
    <3> QED
      BY <2>15, <3>1, <3>2 DEF TypeOK, CollectorFails, collectorUnchanged, CommandsType,
          SpoolType, FilesType, NewActionType, TriesType, SenderType, ReturnerType, UpdaterType,
          RelayType
  <2>16. ASSUME NEW s \in Schedulers, NEW a \in Actions, ActionFromFile(s, a) PROVE TypeOK'
    <3>1. NewActionType'
      BY <2>16 DEF TypeOK, NewActionType, NewActionState, ActionFromFile, NewActionIdle
    <3>2. TriesType'
      BY <2>16 DEF TypeOK, TriesType, NewActionType, NewActionState, TablesType, ActionFromFile,
          NewActionIdle
    <3> QED
      BY <2>16, <3>1, <3>2 DEF TypeOK, ActionFromFile, newActionUnchanged, TablesType,
          CommandsType, SpoolType, FilesType, CollectorType, SenderType, ReturnerType,
          UpdaterType, RelayType, ListingType
  <2>17. ASSUME NEW s \in Schedulers, NEW a \in Actions, ActiveAgentsByTarget(s, a) PROVE TypeOK'
    <3>1. NewActionType'
      <4> DEFINE found == Target[a] \intersect active
                 rec == [newAction[s] EXCEPT
                           !.pc = IF found = {} THEN "invalidMove" ELSE "store",
                           !.todo = found, !.next = "store"]
      <4>1. newAction \in [Schedulers -> NewActionState]
        BY DEF TypeOK, NewActionType
      <4>2. rec \in NewActionState
        BY <4>1 DEF NewActionState
      <4>3. newAction' = [newAction EXCEPT ![s] = rec]
        BY <2>17 DEF ActiveAgentsByTarget
      <4> QED
        BY <4>1, <4>2, <4>3 DEF NewActionType
    <3>2. TriesType'
      BY <2>17 DEF TypeOK, TriesType, NewActionType, NewActionState, TablesType,
          ActiveAgentsByTarget
    <3> QED
      BY <2>17, <3>1, <3>2 DEF TypeOK, ActiveAgentsByTarget, newActionUnchanged, TablesType,
          CommandsType, SpoolType, FilesType, CollectorType, SenderType, ReturnerType,
          UpdaterType, RelayType, ListingType
  <2>18. ASSUME NEW s \in Schedulers, NEW a \in Actions, InsertOrUpdateAction(s, a) PROVE TypeOK'
    <3>1. TablesType'
      BY <2>18 DEF TypeOK, TablesType, InsertOrUpdateAction, newActionUnchanged
    <3>2. NewActionType'
      <4> DEFINE rec == [newAction[s] EXCEPT !.pc = "create", !.next = "idle"]
      <4>1. newAction \in [Schedulers -> NewActionState]
        BY DEF TypeOK, NewActionType
      <4>2. rec \in NewActionState
        BY <4>1 DEF NewActionState
      <4>3. newAction' = [newAction EXCEPT ![s] = rec]
        BY <2>18 DEF InsertOrUpdateAction
      <4> HIDE DEF rec
      <4> QED
        BY <4>1, <4>2, <4>3 DEF NewActionType
    <3>3. TriesType'
      <4> DEFINE rec == [newAction[s] EXCEPT !.pc = "create", !.next = "idle"]
      <4>1. newAction \in [Schedulers -> NewActionState]
        BY DEF TypeOK, NewActionType
      <4>2. newAction' = [newAction EXCEPT ![s] = rec]
        BY <2>18 DEF InsertOrUpdateAction
      <4>3. rec.act = newAction[s].act
        BY <4>1 DEF NewActionState
      <4>4. tries \in [Actions -> 0..MaxTries] /\ tries' = [tries EXCEPT ![a] = @ + 1]
        BY <2>18 DEF TypeOK, TablesType, InsertOrUpdateAction
      <4>5. \A b \in Actions : tries[b] # 0 => tries'[b] # 0
        BY <4>4
      <4>6. tries'[a] # 0
        BY <4>4
      <4>7. newAction[s].act = {a}
        BY <4>1, <2>18 DEF NewActionState, InsertOrUpdateAction
      <4> QED
        BY <4>1, <4>2, <4>3, <4>5, <4>6, <4>7 DEF TypeOK, TriesType, NewActionType, NewActionState
    <3> QED
      BY <2>18, <3>1, <3>2, <3>3 DEF TypeOK, InsertOrUpdateAction, newActionUnchanged,
          CommandsType, SpoolType, FilesType, CollectorType, SenderType, ReturnerType,
          UpdaterType, RelayType, ListingType
  <2>19. ASSUME NEW s \in Schedulers, NEW a \in Actions, NEW g \in Agents, CreateCommand(s, a, g)
      PROVE TypeOK'
    <3>1. NewActionType'
      <4> DEFINE rec == [newAction[s] EXCEPT !.todo = @ \ {g}, !.created = TRUE]
      <4>1. newAction \in [Schedulers -> NewActionState]
        BY DEF TypeOK, NewActionType
      <4>2. rec \in NewActionState
        BY <4>1 DEF NewActionState
      <4>3. newAction' = [newAction EXCEPT ![s] = rec]
        BY <2>19 DEF CreateCommand
      <4> QED
        BY <4>1, <4>2, <4>3 DEF NewActionType
    <3>2. SenderType'
      <4>1. NewCommand(a, g) \in Commands
        BY <2>19 DEF TypeOK, TablesType, TriesType, Commands, CreateCommand, NewCommand
      <4>2. sender \in [Schedulers -> SenderState]
        BY DEF TypeOK, SenderType
      <4> DEFINE batch == sender[s].batch \union {NewCommand(a, g)}
                 rec == [pc |-> IF Cardinality(batch) >= BatchSize THEN "insert" ELSE "recv",
                         batch |-> batch]
      <4>3. rec \in SenderState
        BY <4>1, <4>2 DEF SenderState
      <4>4. sender' = [sender EXCEPT ![s] = rec]
        BY <2>19 DEF CreateCommand
      <4> QED
        BY <4>2, <4>3, <4>4 DEF SenderType
    <3>3. TriesType'
      BY <2>19 DEF TypeOK, TriesType, NewActionType, NewActionState, TablesType, CreateCommand,
          NewCommand
    <3> QED
      BY <2>19, <3>1, <3>2, <3>3 DEF TypeOK, CreateCommand, newActionUnchanged, TablesType,
          CommandsType, SpoolType, FilesType, CollectorType, ReturnerType, UpdaterType, RelayType,
          ListingType
  <2>20. ASSUME NEW s \in Schedulers, NEW a \in Actions, NEW g \in Agents, CreateCommandFails(s,
      a, g) PROVE TypeOK'
    <3>1. TablesType'
      BY <2>20 DEF TypeOK, TablesType, CreateCommandFails, Fault, newActionUnchanged
    <3>2. NewActionType'
      BY <2>20 DEF TypeOK, NewActionType, NewActionState, CreateCommandFails, Fault
    <3>3. TriesType'
      BY <2>20 DEF TypeOK, TriesType, NewActionType, NewActionState, TablesType,
          CreateCommandFails, Fault
    <3> QED
      BY <2>20, <3>1, <3>2, <3>3 DEF TypeOK, CreateCommandFails, newActionUnchanged, CommandsType,
          SpoolType, FilesType, CollectorType, SenderType, ReturnerType, UpdaterType, RelayType,
          ListingType
  <2>21. ASSUME NEW s \in Schedulers, CommandsCreated(s) PROVE TypeOK'
    <3>1. NewActionType'
      BY <2>21 DEF TypeOK, NewActionType, NewActionState, CommandsCreated
    <3>2. TriesType'
      BY <2>21 DEF TypeOK, TriesType, NewActionType, NewActionState, TablesType, CommandsCreated
    <3> QED
      BY <2>21, <3>1, <3>2 DEF TypeOK, CommandsCreated, newActionUnchanged, TablesType,
          CommandsType, SpoolType, FilesType, CollectorType, SenderType, ReturnerType,
          UpdaterType, RelayType, ListingType
  <2>22. ASSUME NEW s \in Schedulers, NEW a \in Actions, FlyMove(s, a) PROVE TypeOK'
    <3>1. SpoolType'
      BY <2>22 DEF TypeOK, SpoolType, FlyMove, Move, Moved, Dirs
    <3>2. NewActionType'
      BY <2>22 DEF TypeOK, NewActionType, NewActionState, FlyMove, Move, Moved, Dirs
    <3>3. TriesType'
      BY <2>22 DEF TypeOK, TriesType, NewActionType, NewActionState, TablesType, FlyMove, Move,
          Moved, Dirs
    <3> QED
      BY <2>22, <3>1, <3>2, <3>3 DEF TypeOK, FlyMove, Move, newActionUnchanged, TablesType,
          CommandsType, FilesType, CollectorType, SenderType, ReturnerType, UpdaterType,
          RelayType, ListingType
  <2>23. ASSUME NEW s \in Schedulers, NEW a \in Actions, InvalidMove(s, a) PROVE TypeOK'
    <3>1. SpoolType'
      BY <2>23 DEF TypeOK, SpoolType, InvalidMove, Move, Moved, Dirs
    <3>2. NewActionType'
      BY <2>23 DEF TypeOK, NewActionType, NewActionState, InvalidMove, Move, Moved, Dirs
    <3>3. TriesType'
      BY <2>23 DEF TypeOK, TriesType, NewActionType, NewActionState, TablesType, InvalidMove,
          Move, Moved, Dirs
    <3> QED
      BY <2>23, <3>1, <3>2, <3>3 DEF TypeOK, InvalidMove, Move, newActionUnchanged, TablesType,
          CommandsType, FilesType, CollectorType, SenderType, ReturnerType, UpdaterType,
          RelayType, ListingType
  <2>24. ASSUME NEW s \in Schedulers, NEW a \in Actions, FlyUpdate(s, a) PROVE TypeOK'
    <3>1. TablesType'
      BY <2>24 DEF TypeOK, TablesType, FlyUpdate, NewActionIdle, newActionUnchanged
    <3>2. NewActionType'
      BY <2>24 DEF TypeOK, NewActionType, NewActionState, FlyUpdate, NewActionIdle
    <3>3. TriesType'
      BY <2>24 DEF TypeOK, TriesType, NewActionType, NewActionState, TablesType, FlyUpdate,
          NewActionIdle
    <3> QED
      BY <2>24, <3>1, <3>2, <3>3 DEF TypeOK, FlyUpdate, newActionUnchanged, CommandsType,
          SpoolType, FilesType, CollectorType, SenderType, ReturnerType, UpdaterType, RelayType,
          ListingType
  <2>25. ASSUME NEW s \in Schedulers, NEW a \in Actions, InvalidUpdate(s, a) PROVE TypeOK'
    <3>1. TablesType'
      BY <2>25 DEF TypeOK, TablesType, InvalidUpdate, NewActionIdle, newActionUnchanged
    <3>2. NewActionType'
      BY <2>25 DEF TypeOK, NewActionType, NewActionState, InvalidUpdate, NewActionIdle
    <3>3. TriesType'
      BY <2>25 DEF TypeOK, TriesType, NewActionType, NewActionState, TablesType, InvalidUpdate,
          NewActionIdle
    <3> QED
      BY <2>25, <3>1, <3>2, <3>3 DEF TypeOK, InvalidUpdate, newActionUnchanged, CommandsType,
          SpoolType, FilesType, CollectorType, SenderType, ReturnerType, UpdaterType, RelayType,
          ListingType
  <2>26. ASSUME NEW s \in Schedulers, NEW a \in Actions, NewActionFails(s, a) PROVE TypeOK'
    <3>1. TablesType'
      BY <2>26 DEF TypeOK, TablesType, NewActionFails, NewActionIdle, Fault, Dirs,
          newActionUnchanged
    <3>2. SpoolType'
      BY <2>26 DEF TypeOK, SpoolType, NewActionFails, NewActionIdle, Fault, Dirs
    <3>3. NewActionType'
      BY <2>26 DEF TypeOK, NewActionType, NewActionState, NewActionFails, NewActionIdle, Fault, Dirs
    <3>4. TriesType'
      BY <2>26 DEF TypeOK, TriesType, NewActionType, NewActionState, TablesType, NewActionFails,
          NewActionIdle, Fault, Dirs
    <3> QED
      BY <2>26, <3>1, <3>2, <3>3, <3>4 DEF TypeOK, NewActionFails, newActionUnchanged,
          CommandsType, FilesType, CollectorType, SenderType, ReturnerType, UpdaterType,
          RelayType, ListingType
  <2>27. ASSUME NEW s \in Schedulers, SendTimeout(s) PROVE TypeOK'
    <3>1. SenderType'
      BY <2>27 DEF TypeOK, SenderType, SenderState, SendTimeout
    <3> QED
      BY <2>27, <3>1 DEF TypeOK, SendTimeout, senderUnchanged, TablesType, CommandsType,
          SpoolType, FilesType, CollectorType, NewActionType, TriesType, ReturnerType,
          UpdaterType, RelayType, ListingType
  <2>28. ASSUME NEW s \in Schedulers, InsertCommands(s) PROVE TypeOK'
    <3>1. CommandsType'
      BY <2>28 DEF TypeOK, CommandsType, SenderType, InsertCommands
    <3>2. SenderType'
      BY <2>28 DEF TypeOK, SenderType, SenderState, InsertCommands
    <3> QED
      BY <2>28, <3>1, <3>2 DEF TypeOK, InsertCommands, senderUnchanged, TablesType, SpoolType,
          FilesType, CollectorType, NewActionType, TriesType, ReturnerType, UpdaterType,
          RelayType, ListingType
  <2>29. ASSUME NEW s \in Schedulers, NEW c \in sender[s].batch, SendCommand(s, c) PROVE TypeOK'
    <3>1. FilesType'
      BY <2>29 DEF TypeOK, FilesType, SenderType, SenderState, SendCommand, SenderIdle,
          senderUnchanged
    <3>2. SenderType'
      BY <2>29 DEF TypeOK, SenderType, SenderState, SendCommand, SenderIdle
    <3>3. RelayType'
      BY <2>29 DEF TypeOK, RelayType, SenderType, SenderState, SendCommand, SenderIdle,
          senderUnchanged
    <3> QED
      BY <2>29, <3>1, <3>2, <3>3 DEF TypeOK, SendCommand, senderUnchanged, TablesType,
          CommandsType, SpoolType, CollectorType, NewActionType, TriesType, ReturnerType,
          UpdaterType, ListingType
  <2>30. ASSUME NEW s \in Schedulers, SendFails(s) PROVE TypeOK'
    <3>1. TablesType'
      BY <2>30 DEF TypeOK, TablesType, SendFails, SenderIdle, Fault, senderUnchanged
    <3>2. SenderType'
      BY <2>30 DEF TypeOK, SenderType, SenderState, SendFails, SenderIdle, Fault
    <3> QED
      BY <2>30, <3>1, <3>2 DEF TypeOK, SendFails, senderUnchanged, CommandsType, SpoolType,
          FilesType, CollectorType, NewActionType, TriesType, ReturnerType, UpdaterType,
          RelayType, ListingType
  <2>31. ASSUME NEW s \in Schedulers, NEW r \in results, ReceiveResult(s, r) PROVE TypeOK'
    <3>1. FilesType'
      BY <2>31 DEF TypeOK, FilesType, RelayType, ReceiveResult
    <3>2. RelayType'
      BY <2>31 DEF TypeOK, RelayType, ReceiveResult
    <3> QED
      BY <2>31, <3>1, <3>2 DEF TypeOK, ReceiveResult, TablesType, CommandsType, SpoolType,
          CollectorType, NewActionType, TriesType, SenderType, ReturnerType, UpdaterType,
          ListingType
  <2>32. ASSUME NEW s \in Schedulers, ReturnTimeout(s) PROVE TypeOK'
    <3>1. ReturnerType'
      BY <2>32 DEF TypeOK, ReturnerType, ReturnerState, ReturnTimeout, returnerUnchanged
    <3> QED
      BY <2>32, <3>1 DEF TypeOK, ReturnTimeout, returnerUnchanged, TablesType, CommandsType,
          SpoolType, FilesType, CollectorType, NewActionType, TriesType, SenderType, UpdaterType,
          RelayType, ListingType
  <2>33. ASSUME NEW s \in Schedulers, ReturnDone(s) PROVE TypeOK'
    <3>1. ReturnerType'
      BY <2>33 DEF TypeOK, ReturnerType, ReturnerState, ReturnDone, ReturnerIdle, returnerUnchanged
    <3> QED
      BY <2>33, <3>1 DEF TypeOK, ReturnDone, returnerUnchanged, TablesType, CommandsType,
          SpoolType, FilesType, CollectorType, NewActionType, TriesType, SenderType, UpdaterType,
          RelayType, ListingType
  <2>34. ASSUME NEW s \in Schedulers, NEW r \in returner[s].batch, ReturnCommand(s, r) PROVE TypeOK'
    <3>1. FilesType'
      BY <2>34 DEF TypeOK, FilesType, ReturnCommand, Results, returnerUnchanged
    <3>2. ReturnerType'
      <4>1. finishing' = finishing \/ finishing' = [finishing EXCEPT ![s] = @ \union {r}]
        BY <2>34 DEF ReturnCommand
      <4>2. /\ returner' = [returner EXCEPT ![s].batch = @ \ {r}]
            /\ doneQueue' = doneQueue
        BY <2>34 DEF ReturnCommand
      <4>3. r \in Results
        BY <2>34 DEF TypeOK, ReturnerType, ReturnerState
      <4>4. (returner \in [Schedulers -> ReturnerState])'
        BY <4>2 DEF TypeOK, ReturnerType, ReturnerState
      <4> QED
        BY <4>1, <4>2, <4>3, <4>4 DEF TypeOK, ReturnerType
    <3> QED
      BY <2>34, <3>1, <3>2 DEF TypeOK, ReturnCommand, returnerUnchanged, TablesType, CommandsType,
          SpoolType, CollectorType, NewActionType, TriesType, SenderType, UpdaterType, RelayType,
          ListingType
  <2>35. ASSUME NEW s \in Schedulers, NEW r \in finishing[s], FinishCommand(s, r) PROVE TypeOK'
    <3>1. CommandsType'
      BY <2>35 DEF TypeOK, CommandsType, ReturnerType, Finished, FinishCommand, Results
    <3>2. ReturnerType'
      BY <2>35 DEF TypeOK, ReturnerType, ReturnerState, FinishCommand, Results, returnerUnchanged
    <3> QED
      BY <2>35, <3>1, <3>2 DEF TypeOK, FinishCommand, returnerUnchanged, TablesType, SpoolType,
          FilesType, CollectorType, NewActionType, TriesType, SenderType, UpdaterType, RelayType,
          ListingType
  <2>36. ASSUME NEW s \in Schedulers, NEW r \in doneQueue[s], CommandDone(s, r) PROVE TypeOK'
    <3>1. ReturnerType'
      BY <2>36 DEF TypeOK, ReturnerType, ReturnerState, CommandDone, Results, Commands,
          updaterUnchanged
    <3>2. UpdaterType'
      <4> DEFINE rec == [pc    |-> IF updater[s].ctr + 1 >= BatchSize THEN "count" ELSE "recv",
                         batch |-> updater[s].batch \union {r.cmd.action},
                         ctr   |-> updater[s].ctr + 1,
                         cur   |-> {}]
      <4>1. updater \in [Schedulers -> UpdaterState] /\ r.cmd.action \in Actions
        BY <2>36 DEF TypeOK, UpdaterType, ReturnerType, Results, Commands
      <4>2. rec \in UpdaterState
        BY <4>1 DEF UpdaterState
      <4>3. updater' = [updater EXCEPT ![s] = rec]
        BY <2>36 DEF CommandDone
      <4> QED
        BY <4>1, <4>2, <4>3 DEF UpdaterType
    <3> QED
      BY <2>36, <3>1, <3>2 DEF TypeOK, CommandDone, updaterUnchanged, TablesType, CommandsType,
          SpoolType, FilesType, CollectorType, NewActionType, TriesType, SenderType, RelayType,
          ListingType
  <2>37. ASSUME NEW s \in Schedulers, UpdateTimeout(s) PROVE TypeOK'
    <3>1. UpdaterType'
      BY <2>37 DEF TypeOK, UpdaterType, UpdaterState, UpdateTimeout
    <3> QED
      BY <2>37, <3>1 DEF TypeOK, UpdateTimeout, updaterUnchanged, TablesType, CommandsType,
          SpoolType, FilesType, CollectorType, NewActionType, TriesType, SenderType, ReturnerType,
          RelayType, ListingType
  <2>38. ASSUME NEW s \in Schedulers, UpdateDone(s) PROVE TypeOK'
    <3>1. UpdaterType'
      BY <2>38 DEF TypeOK, UpdaterType, UpdaterState, UpdateDone, UpdaterIdle
    <3> QED
      BY <2>38, <3>1 DEF TypeOK, UpdateDone, updaterUnchanged, TablesType, CommandsType,
          SpoolType, FilesType, CollectorType, NewActionType, TriesType, SenderType, ReturnerType,
          RelayType, ListingType
  <2>39. ASSUME NEW s \in Schedulers, NEW a \in Actions, GetActionCounters(s, a) PROVE TypeOK'
    <3>1. UpdaterType'
      <4> DEFINE rec == [updater[s] EXCEPT
                           !.pc = IF AllDone(a) THEN "landMove" ELSE "count",
                           !.batch = @ \ {a}, !.cur = IF AllDone(a) THEN {a} ELSE {}]
      <4>1. updater \in [Schedulers -> UpdaterState]
        BY DEF TypeOK, UpdaterType
      <4>2. rec \in UpdaterState
        BY <4>1 DEF UpdaterState
      <4>3. updater' = [updater EXCEPT ![s] = rec]
        BY <2>39 DEF GetActionCounters
      <4> QED
        BY <4>1, <4>2, <4>3 DEF UpdaterType
    <3> QED
      BY <2>39, <3>1 DEF TypeOK, GetActionCounters, updaterUnchanged, TablesType, CommandsType,
          SpoolType, FilesType, CollectorType, NewActionType, TriesType, SenderType, ReturnerType,
          RelayType, ListingType
  <2>40. ASSUME NEW s \in Schedulers, NEW a \in Actions, LandMove(s, a) PROVE TypeOK'
    <3>1. SpoolType'
      BY <2>40 DEF TypeOK, SpoolType, LandMove, Dirs
    <3>2. UpdaterType'
      BY <2>40 DEF TypeOK, UpdaterType, UpdaterState, LandMove, Dirs
    <3> QED
      BY <2>40, <3>1, <3>2 DEF TypeOK, LandMove, updaterUnchanged, TablesType, CommandsType,
          FilesType, CollectorType, NewActionType, TriesType, SenderType, ReturnerType, RelayType,
          ListingType
  <2>41. ASSUME NEW s \in Schedulers, NEW a \in Actions, FinishAction(s, a) PROVE TypeOK'
    <3>1. TablesType'
      BY <2>41 DEF TypeOK, TablesType, FinishAction, LandedStatus, updaterUnchanged
    <3>2. UpdaterType'
      BY <2>41 DEF TypeOK, UpdaterType, UpdaterState, FinishAction, LandedStatus
    <3> QED
      BY <2>41, <3>1, <3>2 DEF TypeOK, FinishAction, updaterUnchanged, CommandsType, SpoolType,
          FilesType, CollectorType, NewActionType, TriesType, SenderType, ReturnerType, RelayType,
          ListingType
  <2>42. ASSUME NEW s \in Schedulers, NEW a \in Actions, LandRename(s, a) PROVE TypeOK'
    <3>1. SpoolType'
      BY <2>42 DEF TypeOK, SpoolType, LandRename, RemoveFile, Dirs
    <3>2. UpdaterType'
      BY <2>42 DEF TypeOK, UpdaterType, UpdaterState, LandRename, RemoveFile, Dirs
    <3> QED
      BY <2>42, <3>1, <3>2 DEF TypeOK, LandRename, updaterUnchanged, TablesType, CommandsType,
          FilesType, CollectorType, NewActionType, TriesType, SenderType, ReturnerType, RelayType,
          ListingType
  <2>43. ASSUME NEW s \in Schedulers, UpdateFails(s) PROVE TypeOK'
    <3>1. TablesType'
      BY <2>43 DEF TypeOK, TablesType, UpdateFails, UpdaterIdle, Fault, updaterUnchanged
    <3>2. UpdaterType'
      BY <2>43 DEF TypeOK, UpdaterType, UpdaterState, UpdateFails, UpdaterIdle, Fault
    <3> QED
      BY <2>43, <3>1, <3>2 DEF TypeOK, UpdateFails, updaterUnchanged, CommandsType, SpoolType,
          FilesType, CollectorType, NewActionType, TriesType, SenderType, ReturnerType, RelayType,
          ListingType
  <2>44. ASSUME NEW s \in Schedulers, Crash(s) PROVE TypeOK'
    <3>1. TablesType'
      BY <2>44 DEF TypeOK, TablesType, Crash, CollectorIdle, NewActionIdle, SenderIdle,
          ReturnerIdle, UpdaterIdle, Fault
    <3>2. CollectorType'
      BY <2>44 DEF TypeOK, CollectorType, CollectorState, ListingType, Crash, CollectorIdle,
          NewActionIdle, SenderIdle, ReturnerIdle, UpdaterIdle, Fault
    <3>3. NewActionType'
      BY <2>44 DEF TypeOK, NewActionType, NewActionState, Crash, CollectorIdle, NewActionIdle,
          SenderIdle, ReturnerIdle, UpdaterIdle, Fault
    <3>4. SenderType'
      BY <2>44 DEF TypeOK, SenderType, SenderState, Crash, CollectorIdle, NewActionIdle,
          SenderIdle, ReturnerIdle, UpdaterIdle, Fault
    <3>5. ReturnerType'
      BY <2>44 DEF TypeOK, ReturnerType, ReturnerState, Crash, CollectorIdle, NewActionIdle,
          SenderIdle, ReturnerIdle, UpdaterIdle, Fault
    <3>6. UpdaterType'
      BY <2>44 DEF TypeOK, UpdaterType, UpdaterState, Crash, CollectorIdle, NewActionIdle,
          SenderIdle, ReturnerIdle, UpdaterIdle, Fault
    <3>7. TriesType'
      BY <2>44 DEF TypeOK, TriesType, NewActionType, NewActionState, TablesType, Crash,
          CollectorIdle, NewActionIdle, SenderIdle, ReturnerIdle, UpdaterIdle, Fault
    <3> QED
      BY <2>44, <3>1, <3>2, <3>3, <3>4, <3>5, <3>6, <3>7 DEF TypeOK, Crash, CommandsType,
          SpoolType, FilesType, RelayType
  <2>45. CASE UNCHANGED vars
    BY <2>45 DEF vars, TypeOK, ListingType, TablesType, CommandsType, SpoolType, FilesType,
        CollectorType, NewActionType, TriesType, SenderType, ReturnerType, UpdaterType, RelayType
  <2> QED
    BY <2>1, <2>2, <2>3, <2>4, <2>5, <2>6, <2>7, <2>8, <2>9, <2>10, <2>11, <2>12, <2>13, <2>14,
        <2>15, <2>16, <2>17, <2>18, <2>19, <2>20, <2>21, <2>22, <2>23, <2>24, <2>25, <2>26, <2>27,
        <2>28, <2>29, <2>30, <2>31, <2>32, <2>33, <2>34, <2>35, <2>36, <2>37, <2>38, <2>39, <2>40,
        <2>41, <2>42, <2>43, <2>44, <2>45 DEF Next,
      Environment, Collector, ProcessNewAction, SendCommands, ReceiveResults,
      ReturnBatch, ReturnCommands, UpdateAction, Failures
<1>3. QED
  BY <1>1, <1>2, PTL DEF Spec

--------------------------------------------------------------------------------
(* A stored outcome is genuine because every record on its way to the table is: *)
(* the agent has returned it, or its action has expired.                        *)
Genuine(r) ==
  /\ r.status \in AgentOutcomes => r \in executed
  /\ r.status = "expired" => phase[r.cmd.action] = "expired"

ResultsGenuine ==
  /\ results \subseteq executed
  /\ \A r \in executed : r.status \in AgentOutcomes

FilesGenuine ==
  \A s \in Schedulers : \A r \in returned[s] \union finishing[s] : Genuine(r)

ExpiringGenuine ==
  \A s \in Schedulers : \A c \in collector[s].cur : phase[c.action] = "expired"

GenuineInv == OutcomeIsGenuine /\ ResultsGenuine /\ FilesGenuine /\ ExpiringGenuine

genuineVars == <<phase, commands, executed, results, returned, finishing, collector>>

(* Whatever crashes, losses and reorderings, and for any number of schedulers: *)
(* an outcome in the commands table was returned by the agent, or the action    *)
(* has expired.                                                                 *)
THEOREM GenuineOutcomes == Spec => []OutcomeIsGenuine
<1> USE SchedulerAssumption
<1> USE DEF dbVars, diskVars, returnVars, relayVars
<1>1. Init => GenuineInv
  BY DEF Init, GenuineInv, OutcomeIsGenuine, ResultsGenuine, FilesGenuine, ExpiringGenuine,
    Genuine, CollectorIdle
<1>2. ASSUME TypeOK, GenuineInv, [Next]_vars PROVE GenuineInv'
  <2>1. ASSUME UNCHANGED genuineVars PROVE GenuineInv'
    BY <1>2, <2>1 DEF genuineVars, GenuineInv, OutcomeIsGenuine, ResultsGenuine, FilesGenuine,
        ExpiringGenuine, Genuine
  <2>2. ASSUME NEW a \in Actions, Tick(a) PROVE GenuineInv'
    <3>1. OutcomeIsGenuine'
      BY <1>2, <2>2 DEF GenuineInv, OutcomeIsGenuine, Genuine, Tick, TypeOK, TablesType, Commands
    <3>2. FilesGenuine'
      BY <1>2, <2>2 DEF GenuineInv, FilesGenuine, Genuine, Tick, TypeOK, TablesType
    <3>3. ExpiringGenuine'
      BY <1>2, <2>2 DEF GenuineInv, ExpiringGenuine, Genuine, Tick, TypeOK, TablesType
    <3> QED
      BY <1>2, <2>2, <3>1, <3>2, <3>3 DEF GenuineInv, Tick, ResultsGenuine, Genuine
  <2>3. ASSUME NEW a \in Actions, CreateAction(a) PROVE GenuineInv'
    BY <2>1, <2>3 DEF genuineVars, CreateAction
  <2>4. ASSUME NEW s \in Schedulers, NEW a \in Actions, IssueKillAction(s, a) PROVE GenuineInv'
    BY <2>1, <2>4 DEF genuineVars, IssueKillAction
  <2>5. ASSUME NEW g \in Agents, AgentGone(g) PROVE GenuineInv'
    BY <2>1, <2>5 DEF genuineVars, AgentGone
  <2>6. ASSUME NEW g \in Agents, AgentBack(g) PROVE GenuineInv'
    BY <2>1, <2>6 DEF genuineVars, AgentBack
  <2>7. ASSUME NEW c \in toAgents, CommandLost(c) PROVE GenuineInv'
    BY <2>1, <2>7 DEF genuineVars, CommandLost
  <2>8. ASSUME NEW c \in toAgents, NEW o \in AgentOutcomes, AgentReturn(c, o) PROVE GenuineInv'
    <3>1. OutcomeIsGenuine'
      BY <1>2, <2>8 DEF GenuineInv, OutcomeIsGenuine, Genuine, AgentReturn, Results, Finished
    <3>2. ResultsGenuine'
      BY <1>2, <2>8 DEF GenuineInv, ResultsGenuine, Genuine, AgentReturn, Results, Finished
    <3>3. FilesGenuine'
      BY <1>2, <2>8 DEF GenuineInv, FilesGenuine, Genuine, AgentReturn, Results, Finished
    <3> QED
      BY <1>2, <2>8, <3>1, <3>2, <3>3 DEF GenuineInv, AgentReturn, ExpiringGenuine, Genuine
  <2>9. ASSUME NEW s \in Schedulers, SetupRunnableActions(s) PROVE GenuineInv'
    <3>1. ExpiringGenuine'
      BY <1>2, <2>9 DEF GenuineInv, ExpiringGenuine, Genuine, SetupRunnableActions,
          MarkedScheduled, Claimed, Runnable, collectorUnchanged, TypeOK, CollectorType,
          CollectorState
    <3> QED
      BY <1>2, <2>9, <3>1 DEF GenuineInv, SetupRunnableActions, collectorUnchanged,
          OutcomeIsGenuine, ResultsGenuine, FilesGenuine, Genuine
  <2>10. ASSUME NEW s \in Schedulers, NEW a \in Actions, SetupAction(s, a) PROVE GenuineInv'
    <3>1. ExpiringGenuine'
      BY <1>2, <2>10 DEF GenuineInv, ExpiringGenuine, Genuine, SetupAction, WriteFile,
          collectorUnchanged, Dirs, TypeOK, CollectorType, CollectorState
    <3> QED
      BY <1>2, <2>10, <3>1 DEF GenuineInv, SetupAction, collectorUnchanged, OutcomeIsGenuine,
          ResultsGenuine, FilesGenuine, Genuine
  <2>11. ASSUME NEW s \in Schedulers, CollectorStage(s) PROVE GenuineInv'
    <3>1. ExpiringGenuine'
      <4>1. PICK pc, todo : collector' = [collector EXCEPT ![s] = [@ EXCEPT !.pc = pc, !.todo =
          todo]]
        BY <2>11 DEF CollectorStage
      <4>2. collector \in [Schedulers -> CollectorState]
        BY <1>2 DEF TypeOK, CollectorType
      <4>3. \A t \in Schedulers : collector'[t].cur = collector[t].cur
        BY <4>1, <4>2 DEF CollectorState
      <4> QED
        BY <1>2, <2>11, <4>3 DEF GenuineInv, ExpiringGenuine, CollectorStage, collectorUnchanged
    <3> QED
      BY <1>2, <2>11, <3>1 DEF GenuineInv, CollectorStage, collectorUnchanged, OutcomeIsGenuine,
          ResultsGenuine, FilesGenuine, Genuine
  <2>12. ASSUME NEW s \in Schedulers, NEW a \in Actions, LoadNewActionFromSpool(s, a) PROVE
      GenuineInv'
    <3>1. ExpiringGenuine'
      BY <1>2, <2>12 DEF GenuineInv, ExpiringGenuine, Genuine, LoadNewActionFromSpool, RemoveFile,
          Dirs, TypeOK, CollectorType, CollectorState
    <3> QED
      BY <1>2, <2>12, <3>1 DEF GenuineInv, LoadNewActionFromSpool, OutcomeIsGenuine,
          ResultsGenuine, FilesGenuine, Genuine
  <2>13. ASSUME NEW s \in Schedulers, NEW r \in Results, LoadReturnedCommand(s, r) PROVE GenuineInv'
    <3>1. ExpiringGenuine'
      BY <1>2, <2>13 DEF GenuineInv, ExpiringGenuine, Genuine, LoadReturnedCommand, TypeOK,
          CollectorType, CollectorState
    <3> QED
      BY <1>2, <2>13, <3>1 DEF GenuineInv, LoadReturnedCommand, OutcomeIsGenuine, ResultsGenuine,
          FilesGenuine, Genuine
  <2>14. ASSUME NEW s \in Schedulers, NEW c \in Commands, ExpireCommand(s, c) PROVE GenuineInv'
    <3>1. ExpiringGenuine'
      BY <1>2, <2>14 DEF GenuineInv, ExpiringGenuine, Genuine, ExpireCommand, ExpireDue,
          collectorUnchanged, TypeOK, CollectorType, CollectorState
    <3> QED
      BY <1>2, <2>14, <3>1 DEF GenuineInv, ExpireCommand, collectorUnchanged, OutcomeIsGenuine,
          ResultsGenuine, FilesGenuine, Genuine
  <2>15. ASSUME NEW s \in Schedulers, NEW c \in Commands, ExpireMove(s, c) PROVE GenuineInv'
    <3>1. FilesGenuine'
      <4> DEFINE r == [cmd |-> c, status |-> "expired"]
      <4>1. Genuine(r)
        BY <1>2, <2>15 DEF GenuineInv, ExpiringGenuine, Genuine, ExpireMove
      <4>2. /\ returned' = [returned EXCEPT ![s] = @ \union {r}]
            /\ UNCHANGED <<finishing, executed, phase>>
        BY <2>15 DEF ExpireMove, collectorUnchanged
      <4>3. \A t \in Schedulers : returned'[t] \subseteq returned[t] \union {r}
        BY <1>2, <4>2 DEF TypeOK, FilesType
      <4>4. \A q : Genuine(q) => Genuine(q)'
        BY <4>2 DEF Genuine
      <4> QED
        BY <1>2, <4>1, <4>2, <4>3, <4>4 DEF GenuineInv, FilesGenuine
    <3>2. ExpiringGenuine'
      BY <1>2, <2>15 DEF GenuineInv, ExpiringGenuine, Genuine, ExpireMove, collectorUnchanged,
          Results, Finished, TypeOK, CollectorType, CollectorState
    <3> QED
      BY <1>2, <2>15, <3>1, <3>2 DEF GenuineInv, ExpireMove, collectorUnchanged, OutcomeIsGenuine,
          ResultsGenuine, Genuine
  <2>16. ASSUME NEW s \in Schedulers, CollectorFails(s) PROVE GenuineInv'
    <3>1. ExpiringGenuine'
      BY <1>2, <2>16 DEF GenuineInv, ExpiringGenuine, Genuine, CollectorFails, CollectorIdle,
          Fault, collectorUnchanged, TypeOK, CollectorType, CollectorState
    <3> QED
      BY <1>2, <2>16, <3>1 DEF GenuineInv, CollectorFails, collectorUnchanged, OutcomeIsGenuine,
          ResultsGenuine, FilesGenuine, Genuine
  <2>17. ASSUME NEW s \in Schedulers, NEW a \in Actions, ActionFromFile(s, a) PROVE GenuineInv'
    BY <2>1, <2>17 DEF genuineVars, ActionFromFile, newActionUnchanged
  <2>18. ASSUME NEW s \in Schedulers, NEW a \in Actions, ActiveAgentsByTarget(s, a) PROVE
      GenuineInv'
    BY <2>1, <2>18 DEF genuineVars, ActiveAgentsByTarget, newActionUnchanged
  <2>19. ASSUME NEW s \in Schedulers, NEW a \in Actions, InsertOrUpdateAction(s, a) PROVE
      GenuineInv'
    BY <2>1, <2>19 DEF genuineVars, InsertOrUpdateAction, newActionUnchanged
  <2>20. ASSUME NEW s \in Schedulers, NEW a \in Actions, NEW g \in Agents, CreateCommand(s, a, g)
      PROVE GenuineInv'
    BY <2>1, <2>20 DEF genuineVars, CreateCommand, newActionUnchanged
  <2>21. ASSUME NEW s \in Schedulers, NEW a \in Actions, NEW g \in Agents, CreateCommandFails(s,
      a, g) PROVE GenuineInv'
    BY <2>1, <2>21 DEF genuineVars, CreateCommandFails, newActionUnchanged
  <2>22. ASSUME NEW s \in Schedulers, CommandsCreated(s) PROVE GenuineInv'
    BY <2>1, <2>22 DEF genuineVars, CommandsCreated, newActionUnchanged
  <2>23. ASSUME NEW s \in Schedulers, NEW a \in Actions, FlyMove(s, a) PROVE GenuineInv'
    BY <2>1, <2>23 DEF genuineVars, FlyMove, Move, newActionUnchanged
  <2>24. ASSUME NEW s \in Schedulers, NEW a \in Actions, InvalidMove(s, a) PROVE GenuineInv'
    BY <2>1, <2>24 DEF genuineVars, InvalidMove, Move, newActionUnchanged
  <2>25. ASSUME NEW s \in Schedulers, NEW a \in Actions, FlyUpdate(s, a) PROVE GenuineInv'
    BY <2>1, <2>25 DEF genuineVars, FlyUpdate, newActionUnchanged
  <2>26. ASSUME NEW s \in Schedulers, NEW a \in Actions, InvalidUpdate(s, a) PROVE GenuineInv'
    BY <2>1, <2>26 DEF genuineVars, InvalidUpdate, newActionUnchanged
  <2>27. ASSUME NEW s \in Schedulers, NEW a \in Actions, NewActionFails(s, a) PROVE GenuineInv'
    BY <2>1, <2>27 DEF genuineVars, NewActionFails, newActionUnchanged
  <2>28. ASSUME NEW s \in Schedulers, SendTimeout(s) PROVE GenuineInv'
    BY <2>1, <2>28 DEF genuineVars, SendTimeout, senderUnchanged
  <2>29. ASSUME NEW s \in Schedulers, InsertCommands(s) PROVE GenuineInv'
    <3>1. OutcomeIsGenuine'
      BY <1>2, <2>29 DEF GenuineInv, OutcomeIsGenuine, Genuine, InsertCommands, senderUnchanged,
          TypeOK, SenderType, SenderState, Finished
    <3> QED
      BY <1>2, <2>29, <3>1 DEF GenuineInv, InsertCommands, senderUnchanged, ResultsGenuine,
          FilesGenuine, ExpiringGenuine, Genuine
  <2>30. ASSUME NEW s \in Schedulers, NEW c \in sender[s].batch, SendCommand(s, c) PROVE GenuineInv'
    BY <2>1, <2>30 DEF genuineVars, SendCommand, senderUnchanged
  <2>31. ASSUME NEW s \in Schedulers, SendFails(s) PROVE GenuineInv'
    BY <2>1, <2>31 DEF genuineVars, SendFails, senderUnchanged
  <2>32. ASSUME NEW s \in Schedulers, NEW r \in results, ReceiveResult(s, r) PROVE GenuineInv'
    <3>1. ResultsGenuine'
      BY <1>2, <2>32 DEF GenuineInv, ResultsGenuine, Genuine, ReceiveResult
    <3>2. FilesGenuine'
      <4>1. Genuine(r)
        BY <1>2, <2>32 DEF GenuineInv, ResultsGenuine, Genuine
      <4>2. /\ returned' = returned \/ returned' = [returned EXCEPT ![s] = @ \union {r}]
            /\ UNCHANGED <<finishing, executed, phase>>
        BY <2>32 DEF ReceiveResult
      <4>3. \A t \in Schedulers : returned'[t] \subseteq returned[t] \union {r}
        BY <1>2, <4>2 DEF TypeOK, FilesType
      <4>4. \A q : Genuine(q) => Genuine(q)'
        BY <4>2 DEF Genuine
      <4> QED
        BY <1>2, <4>1, <4>2, <4>3, <4>4 DEF GenuineInv, FilesGenuine
    <3> QED
      BY <1>2, <2>32, <3>1, <3>2 DEF GenuineInv, ReceiveResult, OutcomeIsGenuine, ExpiringGenuine,
          Genuine
  <2>33. ASSUME NEW s \in Schedulers, ReturnTimeout(s) PROVE GenuineInv'
    BY <2>1, <2>33 DEF genuineVars, ReturnTimeout, returnerUnchanged
  <2>34. ASSUME NEW s \in Schedulers, ReturnDone(s) PROVE GenuineInv'
    BY <2>1, <2>34 DEF genuineVars, ReturnDone, returnerUnchanged
  <2>35. ASSUME NEW s \in Schedulers, NEW r \in returner[s].batch, ReturnCommand(s, r) PROVE
      GenuineInv'
    <3>1. FilesGenuine'
      BY <1>2, <2>35 DEF GenuineInv, FilesGenuine, Genuine, ReturnCommand, returnerUnchanged,
          Results, TypeOK, FilesType, ReturnerType
    <3> QED
      BY <1>2, <2>35, <3>1 DEF GenuineInv, ReturnCommand, returnerUnchanged, OutcomeIsGenuine,
          ResultsGenuine, ExpiringGenuine, Genuine
  <2>36. ASSUME NEW s \in Schedulers, NEW r \in finishing[s], FinishCommand(s, r) PROVE GenuineInv'
    <3>1. OutcomeIsGenuine'
      <4>1. r \in Results /\ r.cmd \in Commands /\ r = [cmd |-> r.cmd, status |-> r.status]
        BY <1>2, <2>36 DEF TypeOK, ReturnerType, Results
      <4>2. Genuine(r)
        BY <1>2, <2>36 DEF GenuineInv, FilesGenuine
      <4>3. commands \in [Commands -> {"none", "sent"} \union Finished]
        BY <1>2 DEF TypeOK, CommandsType
      <4>4. \/ commands' = commands
            \/ commands' = [commands EXCEPT ![r.cmd] = r.status]
        BY <2>36, <4>3 DEF FinishCommand
      <4>5. UNCHANGED <<executed, phase>>
        BY <2>36 DEF FinishCommand, returnerUnchanged
      <4>6. CASE commands' = commands
        BY <1>2, <4>5, <4>6 DEF GenuineInv, OutcomeIsGenuine
      <4>7. CASE commands' = [commands EXCEPT ![r.cmd] = r.status]
        <5> SUFFICES ASSUME NEW c \in Commands
                     PROVE  /\ commands'[c] \in AgentOutcomes
                               => [cmd |-> c, status |-> commands'[c]] \in executed
                            /\ commands'[c] = "expired" => phase[c.action] = "expired"
          BY <4>5 DEF OutcomeIsGenuine
        <5>1. CASE c = r.cmd
          BY <4>1, <4>2, <4>3, <4>7, <5>1 DEF Genuine
        <5>2. CASE c # r.cmd
          BY <1>2, <4>3, <4>7, <5>2 DEF GenuineInv, OutcomeIsGenuine
        <5> QED
          BY <5>1, <5>2
      <4> QED
        BY <4>4, <4>6, <4>7
    <3>2. FilesGenuine'
      BY <1>2, <2>36 DEF GenuineInv, FilesGenuine, Genuine, FinishCommand, returnerUnchanged,
          Results, TypeOK, ReturnerType
    <3> QED
      BY <1>2, <2>36, <3>1, <3>2 DEF GenuineInv, FinishCommand, returnerUnchanged, ResultsGenuine,
          ExpiringGenuine, Genuine
  <2>37. ASSUME NEW s \in Schedulers, NEW r \in doneQueue[s], CommandDone(s, r) PROVE GenuineInv'
    BY <2>1, <2>37 DEF genuineVars, CommandDone, updaterUnchanged
  <2>38. ASSUME NEW s \in Schedulers, UpdateTimeout(s) PROVE GenuineInv'
    BY <2>1, <2>38 DEF genuineVars, UpdateTimeout, updaterUnchanged
  <2>39. ASSUME NEW s \in Schedulers, UpdateDone(s) PROVE GenuineInv'
    BY <2>1, <2>39 DEF genuineVars, UpdateDone, updaterUnchanged
  <2>40. ASSUME NEW s \in Schedulers, NEW a \in Actions, GetActionCounters(s, a) PROVE GenuineInv'
    BY <2>1, <2>40 DEF genuineVars, GetActionCounters, updaterUnchanged
  <2>41. ASSUME NEW s \in Schedulers, NEW a \in Actions, LandMove(s, a) PROVE GenuineInv'
    BY <2>1, <2>41 DEF genuineVars, LandMove, updaterUnchanged
  <2>42. ASSUME NEW s \in Schedulers, NEW a \in Actions, FinishAction(s, a) PROVE GenuineInv'
    BY <2>1, <2>42 DEF genuineVars, FinishAction, updaterUnchanged
  <2>43. ASSUME NEW s \in Schedulers, NEW a \in Actions, LandRename(s, a) PROVE GenuineInv'
    BY <2>1, <2>43 DEF genuineVars, LandRename, updaterUnchanged
  <2>44. ASSUME NEW s \in Schedulers, UpdateFails(s) PROVE GenuineInv'
    BY <2>1, <2>44 DEF genuineVars, UpdateFails, updaterUnchanged
  <2>45. ASSUME NEW s \in Schedulers, Crash(s) PROVE GenuineInv'
    <3>1. FilesGenuine'
      BY <1>2, <2>45 DEF GenuineInv, FilesGenuine, Genuine, Crash, CollectorIdle, NewActionIdle,
          SenderIdle, ReturnerIdle, UpdaterIdle, Fault, TypeOK, ReturnerType
    <3>2. ExpiringGenuine'
      BY <1>2, <2>45 DEF GenuineInv, ExpiringGenuine, Genuine, Crash, CollectorIdle,
          NewActionIdle, SenderIdle, ReturnerIdle, UpdaterIdle, Fault, TypeOK, CollectorType,
          CollectorState
    <3> QED
      BY <1>2, <2>45, <3>1, <3>2 DEF GenuineInv, Crash, OutcomeIsGenuine, ResultsGenuine, Genuine
  <2>46. CASE UNCHANGED vars
    BY <2>1, <2>46 DEF vars, genuineVars
  <2> QED
    BY <1>2, <2>1, <2>2, <2>3, <2>4, <2>5, <2>6, <2>7, <2>8, <2>9, <2>10, <2>11, <2>12, <2>13,
        <2>14, <2>15, <2>16, <2>17, <2>18, <2>19, <2>20, <2>21, <2>22, <2>23, <2>24, <2>25, <2>26,
        <2>27, <2>28, <2>29, <2>30, <2>31, <2>32, <2>33, <2>34, <2>35, <2>36, <2>37, <2>38, <2>39,
        <2>40, <2>41, <2>42, <2>43, <2>44, <2>45, <2>46 DEF Next,
      Environment, Collector, ProcessNewAction, SendCommands, ReceiveResults,
      ReturnBatch, ReturnCommands, UpdateAction, Failures
<1>3. GenuineInv => OutcomeIsGenuine
  BY DEF GenuineInv
<1> QED
  BY <1>1, <1>2, <1>3, TypeCorrect, PTL DEF Spec

--------------------------------------------------------------------------------
(* An action has one owner because it has none before it is claimed, and a      *)
(* scheduler only passes on what it already holds.                              *)
Unclaimed == \A a \in Actions : a \in unused => actions[a] # "pending"

Unheld ==
  \A a \in Actions : \A s \in Schedulers :
    a \in unused \/ actions[a] = "pending" => ~ Holds(s, a)

OwnerInv == Unclaimed /\ Unheld /\ SingleOwner

(* What all steps but the ones that acquire an action have in common.           *)
NoneAcquired ==
  /\ unused' = unused
  /\ \A a \in Actions : actions'[a] = "pending" => actions[a] = "pending"
  /\ \A a \in Actions : \A s \in Schedulers : Holds(s, a)' => Holds(s, a)

(* Any number of schedulers may look for runnable actions at the same time, and *)
(* crash: an action is held by at most one of them.                             *)
THEOREM OwnedOnce == Spec => []OwnerInv
<1> USE SchedulerAssumption
<1> USE DEF dbVars, diskVars, returnVars, relayVars
<1>1. Init => OwnerInv
  BY DEF Init, OwnerInv, Unclaimed, Unheld, SingleOwner, Holds, CollectorIdle, NewActionIdle, Dirs
<1>2. ASSUME TypeOK, OwnerInv, [Next]_vars PROVE OwnerInv'
  <2>1. ASSUME NoneAcquired PROVE OwnerInv'
    BY <1>2, <2>1 DEF OwnerInv, Unclaimed, Unheld, SingleOwner, NoneAcquired
  <2>2. ASSUME UNCHANGED <<unused, actions, spool, collector, newAction>> PROVE OwnerInv'
    BY <2>1, <2>2 DEF NoneAcquired, Holds
  <2>3. ASSUME NEW a \in Actions, Tick(a) PROVE OwnerInv'
    BY <2>2, <2>3 DEF Tick
  <2>4. ASSUME NEW a \in Actions, CreateAction(a) PROVE OwnerInv'
    <3>1. /\ unused' = unused \ {a}
          /\ a \in unused
          /\ actions' = [actions EXCEPT ![a] = "pending"]
          /\ UNCHANGED <<spool, collector, newAction>>
      BY <2>4 DEF CreateAction
    <3>2. \A b \in Actions : \A t \in Schedulers : Holds(t, b)' <=> Holds(t, b)
      BY <3>1 DEF Holds
    <3>3. actions \in [Actions -> ActionStatuses]
      BY <1>2 DEF TypeOK, TablesType
    <3> QED
      BY <1>2, <3>1, <3>2, <3>3 DEF OwnerInv, Unclaimed, Unheld, SingleOwner
  <2>5. ASSUME NEW s \in Schedulers, NEW a \in Actions, IssueKillAction(s, a) PROVE OwnerInv'
    <3>1. /\ unused' = unused \ {a}
          /\ a \in unused
          /\ spool' = [spool EXCEPT ![s]["New"] = @ \union {a}]
          /\ UNCHANGED <<actions, collector, newAction>>
      BY <2>5 DEF IssueKillAction, WriteFile
    <3>2. spool \in [Schedulers -> [Dirs -> SUBSET Actions]]
      BY <1>2 DEF TypeOK, SpoolType
    <3>3. \A b \in Actions : \A t \in Schedulers :
             Holds(t, b)' => Holds(t, b) \/ (t = s /\ b = a)
      BY <3>1, <3>2 DEF Holds, Dirs
    <3>4. \A t \in Schedulers : ~ Holds(t, a)
      BY <1>2, <3>1 DEF OwnerInv, Unheld
    <3> QED
      BY <1>2, <3>1, <3>3, <3>4 DEF OwnerInv, Unclaimed, Unheld, SingleOwner
  <2>6. ASSUME NEW g \in Agents, AgentGone(g) PROVE OwnerInv'
    BY <2>2, <2>6 DEF AgentGone
  <2>7. ASSUME NEW g \in Agents, AgentBack(g) PROVE OwnerInv'
    BY <2>2, <2>7 DEF AgentBack
  <2>8. ASSUME NEW c \in toAgents, CommandLost(c) PROVE OwnerInv'
    BY <2>2, <2>8 DEF CommandLost
  <2>9. ASSUME NEW c \in toAgents, NEW o \in AgentOutcomes, AgentReturn(c, o) PROVE OwnerInv'
    BY <2>2, <2>9 DEF AgentReturn
  <2>10. ASSUME NEW s \in Schedulers, SetupRunnableActions(s) PROVE OwnerInv'
    <3>1. /\ actions' = [b \in Actions |-> IF b \in Runnable THEN "scheduled" ELSE actions[b]]
          /\ collector' = [collector EXCEPT ![s] = [pc |-> "setup", todo |-> Runnable, cur |-> {}]]
          /\ UNCHANGED <<unused, spool, newAction>>
      BY <2>10 DEF SetupRunnableActions, MarkedScheduled, Claimed, collectorUnchanged
    <3>2. collector \in [Schedulers -> CollectorState]
      BY <1>2 DEF TypeOK, CollectorType
    <3>3. \A b \in Actions : \A t \in Schedulers :
             Holds(t, b)' => Holds(t, b) \/ (t = s /\ b \in Runnable)
      BY <3>1, <3>2 DEF Holds, CollectorState
    <3>4. \A b \in Runnable : actions[b] = "pending" /\ actions'[b] # "pending"
      BY <3>1 DEF Runnable
    <3>5. \A b \in Actions : b \notin Runnable => actions'[b] = actions[b]
      BY <3>1
    <3>6. \A b \in Runnable : b \notin unused /\ \A t \in Schedulers : ~ Holds(t, b)
      BY <1>2, <3>4 DEF OwnerInv, Unclaimed, Unheld, Runnable
    <3> QED
      BY <1>2, <3>1, <3>3, <3>4, <3>5, <3>6 DEF OwnerInv, Unclaimed, Unheld, SingleOwner
  <2>11. ASSUME NEW s \in Schedulers, NEW a \in Actions, SetupAction(s, a) PROVE OwnerInv'
    <3>1. NoneAcquired
      BY <1>2, <2>11 DEF TypeOK, NoneAcquired, Holds, SpoolType, Dirs, CollectorType,
          CollectorState, ListingType, SetupAction, WriteFile, collectorUnchanged
    <3> QED
      BY <2>1, <3>1
  <2>12. ASSUME NEW s \in Schedulers, CollectorStage(s) PROVE OwnerInv'
    <3>1. PICK pc \in {"spool", "returned", "expire"},
               todo \in {spool[s]["New"], returned[s], inflight[s]} :
            /\ collector' = [collector EXCEPT ![s] = [@ EXCEPT !.pc = pc, !.todo = todo]]
            /\ pc = "spool" => todo = spool[s]["New"]
      BY <2>12 DEF CollectorStage
    <3>2. UNCHANGED <<unused, actions, spool, newAction>>
      BY <2>12 DEF CollectorStage, collectorUnchanged
    <3>3. collector \in [Schedulers -> CollectorState]
      BY <1>2 DEF TypeOK, CollectorType
    <3>4. /\ collector'[s].pc = pc /\ collector'[s].todo = todo
          /\ \A t \in Schedulers : t # s => collector'[t] = collector[t]
      BY <3>1, <3>3 DEF CollectorState
    <3>5. NoneAcquired
      BY <3>1, <3>2, <3>4 DEF NoneAcquired, Holds
    <3> QED
      BY <2>1, <3>5
  <2>13. ASSUME NEW s \in Schedulers, NEW a \in Actions, LoadNewActionFromSpool(s, a) PROVE
      OwnerInv'
    <3>1. /\ collector[s].pc = "spool" /\ a \in collector[s].todo
          /\ collector' = [collector EXCEPT ![s].todo = @ \ {a}]
          /\ UNCHANGED <<unused, actions>>
      BY <2>13 DEF LoadNewActionFromSpool
    <3>2. collector \in [Schedulers -> CollectorState]
      BY <1>2 DEF TypeOK, CollectorType
    <3>3. \A t \in Schedulers : /\ collector'[t].pc = collector[t].pc
                                /\ collector'[t].todo \subseteq collector[t].todo
      BY <3>1, <3>2 DEF CollectorState
    <3>4. spool' = spool \/ spool' = [spool EXCEPT ![s]["New"] = @ \ {a}]
      BY <2>13 DEF LoadNewActionFromSpool, RemoveFile
    <3>5. \A t \in Schedulers, d \in Dirs : spool'[t][d] \subseteq spool[t][d]
      BY <1>2, <3>4 DEF TypeOK, SpoolType, Dirs
    <3>6. \/ newAction' = newAction
          \/ newAction' = [newAction EXCEPT ![s] = [@ EXCEPT !.pc = "load", !.act = {a}]]
      BY <2>13 DEF LoadNewActionFromSpool
    <3>7. \A t \in Schedulers : \/ newAction'[t].act = newAction[t].act
                                \/ t = s /\ newAction'[t].act = {a}
      BY <1>2, <3>6 DEF TypeOK, NewActionType, NewActionState
    <3>8. Holds(s, a)
      BY <3>1 DEF Holds
    <3>9. NoneAcquired
      BY <3>1, <3>3, <3>5, <3>7, <3>8 DEF NoneAcquired, Holds, Dirs
    <3> QED
      BY <2>1, <3>9
  <2>14. ASSUME NEW s \in Schedulers, NEW r \in Results, LoadReturnedCommand(s, r) PROVE OwnerInv'
    <3>1. NoneAcquired
      BY <1>2, <2>14 DEF TypeOK, NoneAcquired, Holds, CollectorType, CollectorState, ListingType,
          LoadReturnedCommand
    <3> QED
      BY <2>1, <3>1
  <2>15. ASSUME NEW s \in Schedulers, NEW c \in Commands, ExpireCommand(s, c) PROVE OwnerInv'
    <3>1. NoneAcquired
      BY <1>2, <2>15 DEF TypeOK, NoneAcquired, Holds, CollectorType, CollectorState, ListingType,
          ExpireCommand, ExpireDue, collectorUnchanged
    <3> QED
      BY <2>1, <3>1
  <2>16. ASSUME NEW s \in Schedulers, NEW c \in Commands, ExpireMove(s, c) PROVE OwnerInv'
    <3>1. NoneAcquired
      BY <1>2, <2>16 DEF TypeOK, NoneAcquired, Holds, CollectorType, CollectorState, ListingType,
          ExpireMove, collectorUnchanged, Results, Finished
    <3> QED
      BY <2>1, <3>1
  <2>17. ASSUME NEW s \in Schedulers, CollectorFails(s) PROVE OwnerInv'
    <3>1. NoneAcquired
      BY <1>2, <2>17 DEF TypeOK, NoneAcquired, Holds, CollectorType, CollectorState, ListingType,
          CollectorFails, CollectorIdle, Fault, collectorUnchanged
    <3> QED
      BY <2>1, <3>1
  <2>18. ASSUME NEW s \in Schedulers, NEW a \in Actions, ActionFromFile(s, a) PROVE OwnerInv'
    <3>1. NoneAcquired
      BY <1>2, <2>18 DEF TypeOK, NoneAcquired, Holds, NewActionType, NewActionState,
          ActionFromFile, NewActionIdle, newActionUnchanged
    <3> QED
      BY <2>1, <3>1
  <2>19. ASSUME NEW s \in Schedulers, NEW a \in Actions, ActiveAgentsByTarget(s, a) PROVE OwnerInv'
    <3>1. NoneAcquired
      BY <1>2, <2>19 DEF TypeOK, NoneAcquired, Holds, NewActionType, NewActionState,
          ActiveAgentsByTarget, newActionUnchanged
    <3> QED
      BY <2>1, <3>1
  <2>20. ASSUME NEW s \in Schedulers, NEW a \in Actions, InsertOrUpdateAction(s, a) PROVE OwnerInv'
    <3>1. NoneAcquired
      BY <1>2, <2>20 DEF TypeOK, NoneAcquired, Holds, TablesType, NewActionType, NewActionState,
          InsertOrUpdateAction, newActionUnchanged
    <3> QED
      BY <2>1, <3>1
  <2>21. ASSUME NEW s \in Schedulers, NEW a \in Actions, NEW g \in Agents, CreateCommand(s, a, g)
      PROVE OwnerInv'
    <3>1. NoneAcquired
      BY <1>2, <2>21 DEF TypeOK, NoneAcquired, Holds, NewActionType, NewActionState,
          CreateCommand, NewCommand, newActionUnchanged
    <3> QED
      BY <2>1, <3>1
  <2>22. ASSUME NEW s \in Schedulers, NEW a \in Actions, NEW g \in Agents, CreateCommandFails(s,
      a, g) PROVE OwnerInv'
    <3>1. NoneAcquired
      BY <1>2, <2>22 DEF TypeOK, NoneAcquired, Holds, NewActionType, NewActionState,
          CreateCommandFails, Fault, newActionUnchanged
    <3> QED
      BY <2>1, <3>1
  <2>23. ASSUME NEW s \in Schedulers, CommandsCreated(s) PROVE OwnerInv'
    <3>1. NoneAcquired
      BY <1>2, <2>23 DEF TypeOK, NoneAcquired, Holds, NewActionType, NewActionState,
          CommandsCreated, newActionUnchanged
    <3> QED
      BY <2>1, <3>1
  <2>24. ASSUME NEW s \in Schedulers, NEW a \in Actions, FlyMove(s, a) PROVE OwnerInv'
    <3>1. NoneAcquired
      BY <1>2, <2>24 DEF TypeOK, NoneAcquired, Holds, SpoolType, Dirs, NewActionType,
          NewActionState, FlyMove, Move, Moved, newActionUnchanged
    <3> QED
      BY <2>1, <3>1
  <2>25. ASSUME NEW s \in Schedulers, NEW a \in Actions, InvalidMove(s, a) PROVE OwnerInv'
    <3>1. NoneAcquired
      BY <1>2, <2>25 DEF TypeOK, NoneAcquired, Holds, SpoolType, Dirs, NewActionType,
          NewActionState, InvalidMove, Move, Moved, newActionUnchanged
    <3> QED
      BY <2>1, <3>1
  <2>26. ASSUME NEW s \in Schedulers, NEW a \in Actions, FlyUpdate(s, a) PROVE OwnerInv'
    <3>1. NoneAcquired
      BY <1>2, <2>26 DEF TypeOK, NoneAcquired, Holds, TablesType, NewActionType, NewActionState,
          FlyUpdate, NewActionIdle, newActionUnchanged
    <3> QED
      BY <2>1, <3>1
  <2>27. ASSUME NEW s \in Schedulers, NEW a \in Actions, InvalidUpdate(s, a) PROVE OwnerInv'
    <3>1. NoneAcquired
      BY <1>2, <2>27 DEF TypeOK, NoneAcquired, Holds, TablesType, NewActionType, NewActionState,
          InvalidUpdate, NewActionIdle, newActionUnchanged
    <3> QED
      BY <2>1, <3>1
  <2>28. ASSUME NEW s \in Schedulers, NEW a \in Actions, NewActionFails(s, a) PROVE OwnerInv'
    <3>1. NoneAcquired
      BY <1>2, <2>28 DEF TypeOK, NoneAcquired, Holds, SpoolType, Dirs, NewActionType,
          NewActionState, NewActionFails, NewActionIdle, Fault, newActionUnchanged
    <3> QED
      BY <2>1, <3>1
  <2>29. ASSUME NEW s \in Schedulers, SendTimeout(s) PROVE OwnerInv'
    BY <2>2, <2>29 DEF SendTimeout, senderUnchanged
  <2>30. ASSUME NEW s \in Schedulers, InsertCommands(s) PROVE OwnerInv'
    BY <2>2, <2>30 DEF InsertCommands, senderUnchanged
  <2>31. ASSUME NEW s \in Schedulers, NEW c \in sender[s].batch, SendCommand(s, c) PROVE OwnerInv'
    BY <2>2, <2>31 DEF SendCommand, senderUnchanged
  <2>32. ASSUME NEW s \in Schedulers, SendFails(s) PROVE OwnerInv'
    BY <2>2, <2>32 DEF SendFails, senderUnchanged
  <2>33. ASSUME NEW s \in Schedulers, NEW r \in results, ReceiveResult(s, r) PROVE OwnerInv'
    BY <2>2, <2>33 DEF ReceiveResult
  <2>34. ASSUME NEW s \in Schedulers, ReturnTimeout(s) PROVE OwnerInv'
    BY <2>2, <2>34 DEF ReturnTimeout, returnerUnchanged
  <2>35. ASSUME NEW s \in Schedulers, ReturnDone(s) PROVE OwnerInv'
    BY <2>2, <2>35 DEF ReturnDone, returnerUnchanged
  <2>36. ASSUME NEW s \in Schedulers, NEW r \in returner[s].batch, ReturnCommand(s, r) PROVE
      OwnerInv'
    BY <2>2, <2>36 DEF ReturnCommand, returnerUnchanged
  <2>37. ASSUME NEW s \in Schedulers, NEW r \in finishing[s], FinishCommand(s, r) PROVE OwnerInv'
    BY <2>2, <2>37 DEF FinishCommand, returnerUnchanged
  <2>38. ASSUME NEW s \in Schedulers, NEW r \in doneQueue[s], CommandDone(s, r) PROVE OwnerInv'
    BY <2>2, <2>38 DEF CommandDone, updaterUnchanged
  <2>39. ASSUME NEW s \in Schedulers, UpdateTimeout(s) PROVE OwnerInv'
    BY <2>2, <2>39 DEF UpdateTimeout, updaterUnchanged
  <2>40. ASSUME NEW s \in Schedulers, UpdateDone(s) PROVE OwnerInv'
    BY <2>2, <2>40 DEF UpdateDone, updaterUnchanged
  <2>41. ASSUME NEW s \in Schedulers, NEW a \in Actions, GetActionCounters(s, a) PROVE OwnerInv'
    BY <2>2, <2>41 DEF GetActionCounters, updaterUnchanged
  <2>42. ASSUME NEW s \in Schedulers, NEW a \in Actions, LandMove(s, a) PROVE OwnerInv'
    <3>1. NoneAcquired
      BY <1>2, <2>42 DEF TypeOK, NoneAcquired, Holds, SpoolType, Dirs, LandMove, updaterUnchanged
    <3> QED
      BY <2>1, <3>1
  <2>43. ASSUME NEW s \in Schedulers, NEW a \in Actions, FinishAction(s, a) PROVE OwnerInv'
    <3>1. NoneAcquired
      BY <1>2, <2>43 DEF TypeOK, NoneAcquired, Holds, TablesType, FinishAction, LandedStatus,
          updaterUnchanged
    <3> QED
      BY <2>1, <3>1
  <2>44. ASSUME NEW s \in Schedulers, NEW a \in Actions, LandRename(s, a) PROVE OwnerInv'
    <3>1. NoneAcquired
      BY <1>2, <2>44 DEF TypeOK, NoneAcquired, Holds, SpoolType, Dirs, LandRename, RemoveFile,
          updaterUnchanged
    <3> QED
      BY <2>1, <3>1
  <2>45. ASSUME NEW s \in Schedulers, UpdateFails(s) PROVE OwnerInv'
    BY <2>2, <2>45 DEF UpdateFails, updaterUnchanged
  <2>46. ASSUME NEW s \in Schedulers, Crash(s) PROVE OwnerInv'
    <3>1. NoneAcquired
      BY <1>2, <2>46 DEF TypeOK, NoneAcquired, Holds, CollectorType, CollectorState, ListingType,
          NewActionType, NewActionState, Crash, CollectorIdle, NewActionIdle, SenderIdle,
          ReturnerIdle, UpdaterIdle, Fault
    <3> QED
      BY <2>1, <3>1
  <2>47. CASE UNCHANGED vars
    BY <2>2, <2>47 DEF vars
  <2> QED
    BY <1>2, <2>3, <2>4, <2>5, <2>6, <2>7, <2>8, <2>9, <2>10, <2>11, <2>12, <2>13, <2>14, <2>15,
        <2>16, <2>17, <2>18, <2>19, <2>20, <2>21, <2>22, <2>23, <2>24, <2>25, <2>26, <2>27, <2>28,
        <2>29, <2>30, <2>31, <2>32, <2>33, <2>34, <2>35, <2>36, <2>37, <2>38, <2>39, <2>40, <2>41,
        <2>42, <2>43, <2>44, <2>45, <2>46, <2>47 DEF Next,
      Environment, Collector, ProcessNewAction, SendCommands, ReceiveResults,
      ReturnBatch, ReturnCommands, UpdateAction, Failures
<1> QED
  BY <1>1, <1>2, TypeCorrect, PTL DEF Spec

(* SingleOwner is one of the conjuncts of that invariant.                       *)
THEOREM ClaimedOnce == Spec => []SingleOwner
<1>1. OwnerInv => SingleOwner
  BY DEF OwnerInv
<1> QED
  BY <1>1, OwnedOnce, PTL

--------------------------------------------------------------------------------
(* A command is inserted once because the commands waiting for their insertion  *)
(* have no row yet, and the ones still to be created bear a number of their own. *)
RowsCounted == \A c \in Commands : commands[c] # "none" => c.try <= tries[c.action]

BatchCounted ==
  \A s \in Schedulers : \A c \in sender[s].batch :
    /\ c.try <= tries[c.action]
    /\ sender[s].pc # "send" => commands[c] = "none"

BatchesApart ==
  \A s, t \in Schedulers : s # t => sender[s].batch \intersect sender[t].batch = {}

ToCreateFresh ==
  \A s \in Schedulers : newAction[s].pc = "create" =>
    \A a \in newAction[s].act : \A g \in newAction[s].todo :
      /\ commands[NewCommand(a, g)] = "none"
      /\ \A t \in Schedulers : NewCommand(a, g) \notin sender[t].batch

FreshInv == RowsCounted /\ BatchCounted /\ BatchesApart /\ ToCreateFresh

freshVars == <<commands, tries, sender, newAction>>

(* What processNewAction creates next is a command.                            *)
LEMMA CreatedIsCommand ==
  ASSUME TypeOK
  PROVE  \A s \in Schedulers : newAction[s].pc = "create" =>
           \A a \in newAction[s].act : \A g \in newAction[s].todo : NewCommand(a, g) \in Commands
<1> SUFFICES ASSUME NEW s \in Schedulers, newAction[s].pc = "create",
                    NEW a \in newAction[s].act, NEW g \in newAction[s].todo
             PROVE  NewCommand(a, g) \in Commands
  OBVIOUS
<1>1. a \in Actions /\ g \in Agents
  BY DEF TypeOK, NewActionType, NewActionState
<1>2. tries[a] \in 1..MaxTries
  BY SchedulerAssumption, <1>1 DEF TypeOK, TablesType, TriesType
<1> QED
  BY <1>1, <1>2 DEF NewCommand, Commands

(* Although an action may be processed several times, after crashes, no command *)
(* is created or inserted twice.                                                *)
THEOREM CommandsFresh == Spec => []FreshInv
<1> USE SchedulerAssumption
<1> USE DEF dbVars, diskVars, returnVars, relayVars
<1>1. Init => FreshInv
  BY DEF Init, FreshInv, RowsCounted, BatchCounted, BatchesApart, ToCreateFresh,
    SenderIdle, NewActionIdle
<1>2. ASSUME TypeOK, OwnerInv, FreshInv, [Next]_vars PROVE FreshInv'
  <2>1. ASSUME UNCHANGED freshVars PROVE FreshInv'
    BY <1>2, <2>1 DEF freshVars, FreshInv, RowsCounted, BatchCounted, BatchesApart, ToCreateFresh,
        NewCommand
  <2>2. ASSUME NEW a \in Actions, Tick(a) PROVE FreshInv'
    BY <2>1, <2>2 DEF freshVars, Tick
  <2>3. ASSUME NEW a \in Actions, CreateAction(a) PROVE FreshInv'
    BY <2>1, <2>3 DEF freshVars, CreateAction
  <2>4. ASSUME NEW s \in Schedulers, NEW a \in Actions, IssueKillAction(s, a) PROVE FreshInv'
    BY <2>1, <2>4 DEF freshVars, IssueKillAction
  <2>5. ASSUME NEW g \in Agents, AgentGone(g) PROVE FreshInv'
    BY <2>1, <2>5 DEF freshVars, AgentGone
  <2>6. ASSUME NEW g \in Agents, AgentBack(g) PROVE FreshInv'
    BY <2>1, <2>6 DEF freshVars, AgentBack
  <2>7. ASSUME NEW c \in toAgents, CommandLost(c) PROVE FreshInv'
    BY <2>1, <2>7 DEF freshVars, CommandLost
  <2>8. ASSUME NEW c \in toAgents, NEW o \in AgentOutcomes, AgentReturn(c, o) PROVE FreshInv'
    BY <2>1, <2>8 DEF freshVars, AgentReturn
  <2>9. ASSUME NEW s \in Schedulers, SetupRunnableActions(s) PROVE FreshInv'
    BY <2>1, <2>9 DEF freshVars, SetupRunnableActions, collectorUnchanged
  <2>10. ASSUME NEW s \in Schedulers, NEW a \in Actions, SetupAction(s, a) PROVE FreshInv'
    BY <2>1, <2>10 DEF freshVars, SetupAction, collectorUnchanged
  <2>11. ASSUME NEW s \in Schedulers, CollectorStage(s) PROVE FreshInv'
    BY <2>1, <2>11 DEF freshVars, CollectorStage, collectorUnchanged
  <2>12. ASSUME NEW s \in Schedulers, NEW a \in Actions, LoadNewActionFromSpool(s, a) PROVE
      FreshInv'
    <3>1. ToCreateFresh'
      <4>1. \/ newAction' = newAction
            \/ newAction' = [newAction EXCEPT ![s] = [@ EXCEPT !.pc = "load", !.act = {a}]]
        BY <2>12 DEF LoadNewActionFromSpool
      <4>2. \A t \in Schedulers : newAction'[t].pc = "create" => newAction'[t] = newAction[t]
        BY <1>2, <4>1 DEF TypeOK, NewActionType, NewActionState
      <4>3. UNCHANGED <<commands, tries, sender>>
        BY <2>12 DEF LoadNewActionFromSpool
      <4> QED
        BY <1>2, <4>2, <4>3 DEF FreshInv, ToCreateFresh, NewCommand
    <3> QED
      BY <1>2, <2>12, <3>1 DEF FreshInv, LoadNewActionFromSpool, RowsCounted, BatchCounted,
          BatchesApart, NewCommand
  <2>13. ASSUME NEW s \in Schedulers, NEW r \in Results, LoadReturnedCommand(s, r) PROVE FreshInv'
    BY <2>1, <2>13 DEF freshVars, LoadReturnedCommand
  <2>14. ASSUME NEW s \in Schedulers, NEW c \in Commands, ExpireCommand(s, c) PROVE FreshInv'
    BY <2>1, <2>14 DEF freshVars, ExpireCommand, collectorUnchanged
  <2>15. ASSUME NEW s \in Schedulers, NEW c \in Commands, ExpireMove(s, c) PROVE FreshInv'
    BY <2>1, <2>15 DEF freshVars, ExpireMove, collectorUnchanged
  <2>16. ASSUME NEW s \in Schedulers, CollectorFails(s) PROVE FreshInv'
    BY <2>1, <2>16 DEF freshVars, CollectorFails, collectorUnchanged
  <2>17. ASSUME NEW s \in Schedulers, NEW a \in Actions, ActionFromFile(s, a) PROVE FreshInv'
    <3>1. ToCreateFresh'
      BY <1>2, <2>17 DEF FreshInv, ToCreateFresh, NewCommand, ActionFromFile, NewActionIdle,
          newActionUnchanged, TypeOK, NewActionType, NewActionState
    <3> QED
      BY <1>2, <2>17, <3>1 DEF FreshInv, ActionFromFile, newActionUnchanged, RowsCounted,
          BatchCounted, BatchesApart, NewCommand
  <2>18. ASSUME NEW s \in Schedulers, NEW a \in Actions, ActiveAgentsByTarget(s, a) PROVE FreshInv'
    <3>1. ToCreateFresh'
      BY <1>2, <2>18 DEF FreshInv, ToCreateFresh, NewCommand, ActiveAgentsByTarget,
          newActionUnchanged, TypeOK, NewActionType, NewActionState
    <3> QED
      BY <1>2, <2>18, <3>1 DEF FreshInv, ActiveAgentsByTarget, newActionUnchanged, RowsCounted,
          BatchCounted, BatchesApart, NewCommand
  <2>19. ASSUME NEW s \in Schedulers, NEW a \in Actions, InsertOrUpdateAction(s, a) PROVE FreshInv'
    <3>1. RowsCounted'
      BY <1>2, <2>19 DEF FreshInv, RowsCounted, NewCommand, InsertOrUpdateAction,
          newActionUnchanged, TypeOK, TablesType, Commands
    <3>2. BatchCounted'
      BY <1>2, <2>19 DEF FreshInv, BatchCounted, NewCommand, InsertOrUpdateAction,
          newActionUnchanged, TypeOK, TablesType, Commands, SenderType, SenderState
    <3>3. ToCreateFresh'
      <4> DEFINE rec == [newAction[s] EXCEPT !.pc = "create", !.next = "idle"]
      <4>1. newAction \in [Schedulers -> NewActionState]
        BY <1>2 DEF TypeOK, NewActionType
      <4>2. tries \in [Actions -> 0..MaxTries] /\ tries[a] < MaxTries
        BY <1>2, <2>19 DEF TypeOK, TablesType, InsertOrUpdateAction
      <4>3. /\ newAction' = [newAction EXCEPT ![s] = rec]
            /\ tries' = [tries EXCEPT ![a] = @ + 1]
            /\ a \in newAction[s].act
            /\ UNCHANGED <<commands, sender>>
        BY <2>19 DEF InsertOrUpdateAction, newActionUnchanged
      <4>4. newAction[s].act = {a} /\ rec.act = {a} /\ rec.todo \subseteq Agents
        BY <4>1, <4>3 DEF NewActionState
      <4>5. \A t \in Schedulers : t # s => a \notin newAction[t].act
        BY <1>2, <4>3 DEF OwnerInv, SingleOwner, Holds
      <4> SUFFICES ASSUME NEW t \in Schedulers, newAction'[t].pc = "create",
                          NEW b \in newAction'[t].act, NEW g \in newAction'[t].todo
                   PROVE  /\ commands[NewCommand(b, g)'] = "none"
                          /\ \A u \in Schedulers : NewCommand(b, g)' \notin sender[u].batch
        BY <4>3 DEF ToCreateFresh
      <4>6. CASE t = s
        <5>1. b = a /\ g \in Agents
          BY <4>1, <4>3, <4>4, <4>6
        <5>2. /\ NewCommand(a, g)' = [action |-> a, agent |-> g, try |-> tries[a] + 1]
              /\ NewCommand(a, g)' \in Commands
          BY <4>2, <4>3, <5>1 DEF NewCommand, Commands
        <5>3. ~ (NewCommand(a, g)'.try <= tries[NewCommand(a, g)'.action])
          BY <4>2, <5>2
        <5> QED
          BY <1>2, <5>1, <5>2, <5>3 DEF FreshInv, RowsCounted, BatchCounted
      <4>7. CASE t # s
        <5>1. newAction'[t] = newAction[t] /\ b # a /\ b \in Actions
          BY <4>1, <4>3, <4>5, <4>7 DEF NewActionState
        <5>2. NewCommand(b, g)' = NewCommand(b, g)
          BY <4>2, <4>3, <5>1 DEF NewCommand
        <5> QED
          BY <1>2, <5>1, <5>2 DEF FreshInv, ToCreateFresh
      <4> QED
        BY <4>6, <4>7
    <3> QED
      BY <1>2, <2>19, <3>1, <3>2, <3>3 DEF FreshInv, InsertOrUpdateAction, newActionUnchanged,
          BatchesApart, NewCommand
  <2>20. ASSUME NEW s \in Schedulers, NEW a \in Actions, NEW g \in Agents, CreateCommand(s, a, g)
      PROVE FreshInv'
    <3>1. BatchCounted'
      <4> DEFINE new == NewCommand(a, g)
      <4>1. /\ newAction[s].pc = "create" /\ a \in newAction[s].act /\ g \in newAction[s].todo
            /\ sender[s].pc = "recv"
            /\ UNCHANGED <<commands, tries>>
        BY <2>20 DEF CreateCommand, newActionUnchanged
      <4>2. /\ commands[new] = "none"
            /\ \A t \in Schedulers : new \notin sender[t].batch
        BY <1>2, <4>1 DEF FreshInv, ToCreateFresh
      <4>3. /\ sender'[s].batch = sender[s].batch \union {new}
            /\ sender'[s].pc # "send"
            /\ \A t \in Schedulers : t # s => sender'[t] = sender[t]
        BY <1>2, <2>20 DEF TypeOK, SenderType, SenderState, CreateCommand
      <4>4. new.try <= tries[new.action]
        BY <1>2 DEF TypeOK, TablesType, NewCommand
      <4> QED
        BY <1>2, <4>1, <4>2, <4>3, <4>4 DEF FreshInv, BatchCounted
    <3>2. BatchesApart'
      <4> DEFINE new == NewCommand(a, g)
      <4>1. /\ newAction[s].pc = "create" /\ a \in newAction[s].act /\ g \in newAction[s].todo
            /\ sender[s].pc = "recv"
            /\ UNCHANGED <<commands, tries>>
        BY <2>20 DEF CreateCommand, newActionUnchanged
      <4>2. /\ commands[new] = "none"
            /\ \A t \in Schedulers : new \notin sender[t].batch
        BY <1>2, <4>1 DEF FreshInv, ToCreateFresh
      <4>3. /\ sender'[s].batch = sender[s].batch \union {new}
            /\ sender'[s].pc # "send"
            /\ \A t \in Schedulers : t # s => sender'[t] = sender[t]
        BY <1>2, <2>20 DEF TypeOK, SenderType, SenderState, CreateCommand
      <4> QED
        BY <1>2, <4>2, <4>3 DEF FreshInv, BatchesApart
    <3>3. ToCreateFresh'
      <4> DEFINE new == NewCommand(a, g)
      <4>1. /\ newAction[s].pc = "create" /\ a \in newAction[s].act /\ g \in newAction[s].todo
            /\ sender[s].pc = "recv"
            /\ UNCHANGED <<commands, tries>>
        BY <2>20 DEF CreateCommand, newActionUnchanged
      <4>2. /\ commands[new] = "none"
            /\ \A t \in Schedulers : new \notin sender[t].batch
        BY <1>2, <4>1 DEF FreshInv, ToCreateFresh
      <4>3. /\ sender'[s].batch = sender[s].batch \union {new}
            /\ sender'[s].pc # "send"
            /\ \A t \in Schedulers : t # s => sender'[t] = sender[t]
        BY <1>2, <2>20 DEF TypeOK, SenderType, SenderState, CreateCommand
      <4>4. newAction' = [newAction EXCEPT ![s] =
                            [newAction[s] EXCEPT !.todo = @ \ {g}, !.created = TRUE]]
        BY <2>20 DEF CreateCommand
      <4>5. newAction \in [Schedulers -> NewActionState]
        BY <1>2 DEF TypeOK, NewActionType
      <4>6. \A t \in Schedulers : /\ newAction'[t].pc = newAction[t].pc
                                  /\ newAction'[t].act = newAction[t].act
                                  /\ newAction'[t].todo \subseteq newAction[t].todo
                                  /\ t = s => g \notin newAction'[t].todo
        BY <4>4, <4>5 DEF NewActionState
      <4>7. \A t \in Schedulers : a \in newAction[t].act => t = s
        BY <1>2, <4>1 DEF OwnerInv, SingleOwner, Holds
      <4> SUFFICES ASSUME NEW t \in Schedulers, newAction'[t].pc = "create",
                          NEW b \in newAction'[t].act, NEW h \in newAction'[t].todo
                   PROVE  /\ commands'[NewCommand(b, h)'] = "none"
                          /\ \A u \in Schedulers : NewCommand(b, h)' \notin sender'[u].batch
        BY DEF ToCreateFresh
      <4>8. NewCommand(b, h)' = NewCommand(b, h)
        BY <4>1 DEF NewCommand
      <4>9. /\ commands[NewCommand(b, h)] = "none"
            /\ \A u \in Schedulers : NewCommand(b, h) \notin sender[u].batch
        BY <1>2, <4>6 DEF FreshInv, ToCreateFresh
      <4>10. b # a \/ h # g
        BY <4>6, <4>7
      <4>11. NewCommand(b, h) # new
        BY <4>10 DEF NewCommand
      <4> QED
        BY <4>1, <4>3, <4>8, <4>9, <4>11
    <3> QED
      BY <1>2, <2>20, <3>1, <3>2, <3>3 DEF FreshInv, CreateCommand, newActionUnchanged,
          RowsCounted, NewCommand
  <2>21. ASSUME NEW s \in Schedulers, NEW a \in Actions, NEW g \in Agents, CreateCommandFails(s,
      a, g) PROVE FreshInv'
    <3>1. ToCreateFresh'
      BY <1>2, <2>21 DEF FreshInv, ToCreateFresh, NewCommand, CreateCommandFails, Fault,
          newActionUnchanged, TypeOK, NewActionType, NewActionState
    <3> QED
      BY <1>2, <2>21, <3>1 DEF FreshInv, CreateCommandFails, newActionUnchanged, RowsCounted,
          BatchCounted, BatchesApart, NewCommand
  <2>22. ASSUME NEW s \in Schedulers, CommandsCreated(s) PROVE FreshInv'
    <3>1. ToCreateFresh'
      BY <1>2, <2>22 DEF FreshInv, ToCreateFresh, NewCommand, CommandsCreated, newActionUnchanged,
          TypeOK, NewActionType, NewActionState
    <3> QED
      BY <1>2, <2>22, <3>1 DEF FreshInv, CommandsCreated, newActionUnchanged, RowsCounted,
          BatchCounted, BatchesApart, NewCommand
  <2>23. ASSUME NEW s \in Schedulers, NEW a \in Actions, FlyMove(s, a) PROVE FreshInv'
    <3>1. ToCreateFresh'
      BY <1>2, <2>23 DEF FreshInv, ToCreateFresh, NewCommand, FlyMove, Move, Moved,
          newActionUnchanged, Dirs, TypeOK, NewActionType, NewActionState
    <3> QED
      BY <1>2, <2>23, <3>1 DEF FreshInv, FlyMove, Move, newActionUnchanged, RowsCounted,
          BatchCounted, BatchesApart, NewCommand
  <2>24. ASSUME NEW s \in Schedulers, NEW a \in Actions, InvalidMove(s, a) PROVE FreshInv'
    <3>1. ToCreateFresh'
      BY <1>2, <2>24 DEF FreshInv, ToCreateFresh, NewCommand, InvalidMove, Move, Moved,
          newActionUnchanged, Dirs, TypeOK, NewActionType, NewActionState
    <3> QED
      BY <1>2, <2>24, <3>1 DEF FreshInv, InvalidMove, Move, newActionUnchanged, RowsCounted,
          BatchCounted, BatchesApart, NewCommand
  <2>25. ASSUME NEW s \in Schedulers, NEW a \in Actions, FlyUpdate(s, a) PROVE FreshInv'
    <3>1. ToCreateFresh'
      BY <1>2, <2>25 DEF FreshInv, ToCreateFresh, NewCommand, FlyUpdate, NewActionIdle,
          newActionUnchanged, TypeOK, NewActionType, NewActionState
    <3> QED
      BY <1>2, <2>25, <3>1 DEF FreshInv, FlyUpdate, newActionUnchanged, RowsCounted, BatchCounted,
          BatchesApart, NewCommand
  <2>26. ASSUME NEW s \in Schedulers, NEW a \in Actions, InvalidUpdate(s, a) PROVE FreshInv'
    <3>1. ToCreateFresh'
      BY <1>2, <2>26 DEF FreshInv, ToCreateFresh, NewCommand, InvalidUpdate, NewActionIdle,
          newActionUnchanged, TypeOK, NewActionType, NewActionState
    <3> QED
      BY <1>2, <2>26, <3>1 DEF FreshInv, InvalidUpdate, newActionUnchanged, RowsCounted,
          BatchCounted, BatchesApart, NewCommand
  <2>27. ASSUME NEW s \in Schedulers, NEW a \in Actions, NewActionFails(s, a) PROVE FreshInv'
    <3>1. ToCreateFresh'
      BY <1>2, <2>27 DEF FreshInv, ToCreateFresh, NewCommand, NewActionFails, NewActionIdle,
          Fault, newActionUnchanged, Dirs, TypeOK, NewActionType, NewActionState
    <3> QED
      BY <1>2, <2>27, <3>1 DEF FreshInv, NewActionFails, newActionUnchanged, RowsCounted,
          BatchCounted, BatchesApart, NewCommand
  <2>28. ASSUME NEW s \in Schedulers, SendTimeout(s) PROVE FreshInv'
    <3>1. BatchCounted'
      BY <1>2, <2>28 DEF FreshInv, BatchCounted, NewCommand, SendTimeout, senderUnchanged, TypeOK,
          SenderType, SenderState
    <3>2. BatchesApart'
      BY <1>2, <2>28 DEF FreshInv, BatchesApart, NewCommand, SendTimeout, senderUnchanged, TypeOK,
          SenderType, SenderState
    <3>3. ToCreateFresh'
      BY <1>2, <2>28 DEF FreshInv, ToCreateFresh, NewCommand, SendTimeout, senderUnchanged,
          TypeOK, SenderType, SenderState
    <3> QED
      BY <1>2, <2>28, <3>1, <3>2, <3>3 DEF FreshInv, SendTimeout, senderUnchanged, RowsCounted,
          NewCommand
  <2>29. ASSUME NEW s \in Schedulers, InsertCommands(s) PROVE FreshInv'
    <3>1. RowsCounted'
      <4>1. /\ commands' = [c \in Commands |->
                             IF c \in sender[s].batch THEN "sent" ELSE commands[c]]
            /\ sender[s].pc = "insert"
            /\ sender' = [sender EXCEPT ![s].pc = "send"]
            /\ UNCHANGED <<tries, newAction>>
        BY <2>29 DEF InsertCommands, senderUnchanged
      <4> QED
        BY <1>2, <4>1 DEF FreshInv, RowsCounted, BatchCounted
    <3>2. BatchCounted'
      <4>1. /\ commands' = [c \in Commands |->
                             IF c \in sender[s].batch THEN "sent" ELSE commands[c]]
            /\ sender[s].pc = "insert"
            /\ sender' = [sender EXCEPT ![s].pc = "send"]
            /\ UNCHANGED <<tries, newAction>>
        BY <2>29 DEF InsertCommands, senderUnchanged
      <4>2. \A t \in Schedulers : sender'[t].batch = sender[t].batch
        BY <1>2, <4>1 DEF TypeOK, SenderType, SenderState
      <4>3. \A t \in Schedulers : sender[t].batch \subseteq Commands
        BY <1>2 DEF TypeOK, SenderType, SenderState
      <4>4. \A t \in Schedulers : sender'[t].pc # "send" => t # s /\ sender'[t].pc = sender[t].pc
        BY <1>2, <4>1 DEF TypeOK, SenderType, SenderState
      <4>5. \A t \in Schedulers : t # s =>
              \A c \in sender[t].batch : c \notin sender[s].batch
        BY <1>2 DEF FreshInv, BatchesApart
      <4> QED
        BY <1>2, <4>1, <4>2, <4>3, <4>4, <4>5 DEF FreshInv, BatchCounted
    <3>3. BatchesApart'
      BY <1>2, <2>29 DEF FreshInv, BatchesApart, NewCommand, InsertCommands, senderUnchanged,
          TypeOK, SenderType, SenderState
    <3>4. ToCreateFresh'
      <4>1. /\ commands' = [c \in Commands |->
                             IF c \in sender[s].batch THEN "sent" ELSE commands[c]]
            /\ sender[s].pc = "insert"
            /\ sender' = [sender EXCEPT ![s].pc = "send"]
            /\ UNCHANGED <<tries, newAction>>
        BY <2>29 DEF InsertCommands, senderUnchanged
      <4>2. \A t \in Schedulers : sender'[t].batch = sender[t].batch
        BY <1>2, <4>1 DEF TypeOK, SenderType, SenderState
      <4>3. \A t \in Schedulers : newAction[t].pc = "create" =>
              \A a \in newAction[t].act : \A g \in newAction[t].todo : NewCommand(a, g) \in Commands
        BY <1>2, CreatedIsCommand
      <4>4. \A a, g : NewCommand(a, g)' = NewCommand(a, g)
        BY <4>1 DEF NewCommand
      <4> QED
        BY <1>2, <4>1, <4>2, <4>3, <4>4 DEF FreshInv, ToCreateFresh
    <3> QED
      BY <1>2, <2>29, <3>1, <3>2, <3>3, <3>4 DEF FreshInv, InsertCommands, senderUnchanged
  <2>30. ASSUME NEW s \in Schedulers, NEW c \in sender[s].batch, SendCommand(s, c) PROVE FreshInv'
    <3>1. BatchCounted'
      BY <1>2, <2>30 DEF FreshInv, BatchCounted, NewCommand, SendCommand, SenderIdle,
          senderUnchanged, TypeOK, SenderType, SenderState
    <3>2. BatchesApart'
      BY <1>2, <2>30 DEF FreshInv, BatchesApart, NewCommand, SendCommand, SenderIdle,
          senderUnchanged, TypeOK, SenderType, SenderState
    <3>3. ToCreateFresh'
      BY <1>2, <2>30 DEF FreshInv, ToCreateFresh, NewCommand, SendCommand, SenderIdle,
          senderUnchanged, TypeOK, SenderType, SenderState
    <3> QED
      BY <1>2, <2>30, <3>1, <3>2, <3>3 DEF FreshInv, SendCommand, senderUnchanged, RowsCounted,
          NewCommand
  <2>31. ASSUME NEW s \in Schedulers, SendFails(s) PROVE FreshInv'
    <3>1. BatchCounted'
      BY <1>2, <2>31 DEF FreshInv, BatchCounted, NewCommand, SendFails, SenderIdle, Fault,
          senderUnchanged, TypeOK, SenderType, SenderState
    <3>2. BatchesApart'
      BY <1>2, <2>31 DEF FreshInv, BatchesApart, NewCommand, SendFails, SenderIdle, Fault,
          senderUnchanged, TypeOK, SenderType, SenderState
    <3>3. ToCreateFresh'
      BY <1>2, <2>31 DEF FreshInv, ToCreateFresh, NewCommand, SendFails, SenderIdle, Fault,
          senderUnchanged, TypeOK, SenderType, SenderState
    <3> QED
      BY <1>2, <2>31, <3>1, <3>2, <3>3 DEF FreshInv, SendFails, senderUnchanged, RowsCounted,
          NewCommand
  <2>32. ASSUME NEW s \in Schedulers, NEW r \in results, ReceiveResult(s, r) PROVE FreshInv'
    BY <2>1, <2>32 DEF freshVars, ReceiveResult
  <2>33. ASSUME NEW s \in Schedulers, ReturnTimeout(s) PROVE FreshInv'
    BY <2>1, <2>33 DEF freshVars, ReturnTimeout, returnerUnchanged
  <2>34. ASSUME NEW s \in Schedulers, ReturnDone(s) PROVE FreshInv'
    BY <2>1, <2>34 DEF freshVars, ReturnDone, returnerUnchanged
  <2>35. ASSUME NEW s \in Schedulers, NEW r \in returner[s].batch, ReturnCommand(s, r) PROVE
      FreshInv'
    BY <2>1, <2>35 DEF freshVars, ReturnCommand, returnerUnchanged
  <2>36. ASSUME NEW s \in Schedulers, NEW r \in finishing[s], FinishCommand(s, r) PROVE FreshInv'
    <3>1. RowsCounted'
      <4>1. /\ commands' = [commands EXCEPT ![r.cmd] = IF MayFinish(r.cmd) THEN r.status ELSE @]
            /\ UNCHANGED <<tries, sender, newAction>>
        BY <2>36 DEF FinishCommand, returnerUnchanged
      <4>3. \A c \in Commands : commands'[c] # "none" => commands[c] # "none"
        BY <1>2, <4>1 DEF TypeOK, CommandsType, MayFinish
      <4> QED
        BY <1>2, <4>1, <4>3 DEF FreshInv, RowsCounted
    <3>2. BatchCounted'
      <4>1. /\ commands' = [commands EXCEPT ![r.cmd] = IF MayFinish(r.cmd) THEN r.status ELSE @]
            /\ UNCHANGED <<tries, sender, newAction>>
        BY <2>36 DEF FinishCommand, returnerUnchanged
      <4>2. \A c \in Commands : commands[c] = "none" => commands'[c] = "none"
        BY <1>2, <4>1 DEF TypeOK, CommandsType, MayFinish
      <4>3. \A t \in Schedulers : sender[t].batch \subseteq Commands
        BY <1>2 DEF TypeOK, SenderType, SenderState
      <4> QED
        BY <1>2, <4>1, <4>2, <4>3 DEF FreshInv, BatchCounted
    <3>3. ToCreateFresh'
      <4>1. /\ commands' = [commands EXCEPT ![r.cmd] = IF MayFinish(r.cmd) THEN r.status ELSE @]
            /\ UNCHANGED <<tries, sender, newAction>>
        BY <2>36 DEF FinishCommand, returnerUnchanged
      <4>2. \A c \in Commands : commands[c] = "none" => commands'[c] = "none"
        BY <1>2, <4>1 DEF TypeOK, CommandsType, MayFinish
      <4>3. \A t \in Schedulers : newAction[t].pc = "create" =>
              \A a \in newAction[t].act : \A g \in newAction[t].todo : NewCommand(a, g) \in Commands
        BY <1>2, CreatedIsCommand
      <4>4. \A a, g : NewCommand(a, g)' = NewCommand(a, g)
        BY <4>1 DEF NewCommand
      <4> QED
        BY <1>2, <4>1, <4>2, <4>3, <4>4 DEF FreshInv, ToCreateFresh
    <3> QED
      BY <1>2, <2>36, <3>1, <3>2, <3>3 DEF FreshInv, FinishCommand, returnerUnchanged,
          BatchesApart, NewCommand
  <2>37. ASSUME NEW s \in Schedulers, NEW r \in doneQueue[s], CommandDone(s, r) PROVE FreshInv'
    BY <2>1, <2>37 DEF freshVars, CommandDone, updaterUnchanged
  <2>38. ASSUME NEW s \in Schedulers, UpdateTimeout(s) PROVE FreshInv'
    BY <2>1, <2>38 DEF freshVars, UpdateTimeout, updaterUnchanged
  <2>39. ASSUME NEW s \in Schedulers, UpdateDone(s) PROVE FreshInv'
    BY <2>1, <2>39 DEF freshVars, UpdateDone, updaterUnchanged
  <2>40. ASSUME NEW s \in Schedulers, NEW a \in Actions, GetActionCounters(s, a) PROVE FreshInv'
    BY <2>1, <2>40 DEF freshVars, GetActionCounters, updaterUnchanged
  <2>41. ASSUME NEW s \in Schedulers, NEW a \in Actions, LandMove(s, a) PROVE FreshInv'
    BY <2>1, <2>41 DEF freshVars, LandMove, updaterUnchanged
  <2>42. ASSUME NEW s \in Schedulers, NEW a \in Actions, FinishAction(s, a) PROVE FreshInv'
    BY <2>1, <2>42 DEF freshVars, FinishAction, updaterUnchanged
  <2>43. ASSUME NEW s \in Schedulers, NEW a \in Actions, LandRename(s, a) PROVE FreshInv'
    BY <2>1, <2>43 DEF freshVars, LandRename, updaterUnchanged
  <2>44. ASSUME NEW s \in Schedulers, UpdateFails(s) PROVE FreshInv'
    BY <2>1, <2>44 DEF freshVars, UpdateFails, updaterUnchanged
  <2>45. ASSUME NEW s \in Schedulers, Crash(s) PROVE FreshInv'
    <3>1. BatchCounted'
      BY <1>2, <2>45 DEF FreshInv, BatchCounted, NewCommand, Crash, CollectorIdle, NewActionIdle,
          SenderIdle, ReturnerIdle, UpdaterIdle, Fault, TypeOK, SenderType, SenderState
    <3>2. BatchesApart'
      BY <1>2, <2>45 DEF FreshInv, BatchesApart, NewCommand, Crash, CollectorIdle, NewActionIdle,
          SenderIdle, ReturnerIdle, UpdaterIdle, Fault, TypeOK, SenderType, SenderState
    <3>3. ToCreateFresh'
      BY <1>2, <2>45 DEF FreshInv, ToCreateFresh, NewCommand, Crash, CollectorIdle, NewActionIdle,
          SenderIdle, ReturnerIdle, UpdaterIdle, Fault, TypeOK, SenderType, SenderState,
          NewActionType, NewActionState
    <3> QED
      BY <1>2, <2>45, <3>1, <3>2, <3>3 DEF FreshInv, Crash, RowsCounted, NewCommand
  <2>46. CASE UNCHANGED vars
    BY <2>1, <2>46 DEF vars, freshVars
  <2> QED
    BY <1>2, <2>1, <2>2, <2>3, <2>4, <2>5, <2>6, <2>7, <2>8, <2>9, <2>10, <2>11, <2>12, <2>13,
        <2>14, <2>15, <2>16, <2>17, <2>18, <2>19, <2>20, <2>21, <2>22, <2>23, <2>24, <2>25, <2>26,
        <2>27, <2>28, <2>29, <2>30, <2>31, <2>32, <2>33, <2>34, <2>35, <2>36, <2>37, <2>38, <2>39,
        <2>40, <2>41, <2>42, <2>43, <2>44, <2>45, <2>46 DEF Next,
      Environment, Collector, ProcessNewAction, SendCommands, ReceiveResults,
      ReturnBatch, ReturnCommands, UpdateAction, Failures
<1> QED
  BY <1>1, <1>2, TypeCorrect, OwnedOnce, PTL DEF Spec

(* The commands table implements CommandLifecycle, in spite of crashes, errors  *)
(* and duplicated or late results: InsertCommands is Send, FinishCommand is      *)
(* Finish or changes nothing, and no other step touches the table.               *)
THEOREM LifecycleImplemented == Spec => CommandLifecycleSpec
<1> USE SchedulerAssumption
<1> USE DEF dbVars, diskVars, returnVars, relayVars
<1>1. Init => Lifecycle!Init
  BY DEF Init, Lifecycle!Init
<1>2. ASSUME TypeOK, FreshInv, [Next]_vars PROVE [Lifecycle!Next]_commands
  <2>1. ASSUME NEW s \in Schedulers, InsertCommands(s) PROVE [Lifecycle!Next]_commands
    <3>1. sender[s].batch \in SUBSET Commands
      BY <1>2 DEF TypeOK, SenderType, SenderState
    <3>2. \A c \in sender[s].batch : commands[c] = "none"
      BY <1>2, <2>1 DEF FreshInv, BatchCounted, InsertCommands
    <3>3. Lifecycle!Send(sender[s].batch)
      BY <2>1, <3>2 DEF InsertCommands, Lifecycle!Send
    <3> QED
      BY <3>1, <3>3 DEF Lifecycle!Next
  <2>2. ASSUME NEW s \in Schedulers, NEW r \in finishing[s], FinishCommand(s, r)
        PROVE  [Lifecycle!Next]_commands
    <3>1. r.cmd \in Commands /\ r.status \in Finished
      BY <1>2 DEF TypeOK, ReturnerType, Results
    <3>2. CASE MayFinish(r.cmd)
      <4>1. Lifecycle!Finish(r.cmd, r.status)
        BY <2>2, <3>2 DEF FinishCommand, MayFinish, Lifecycle!Finish
      <4> QED
        BY <3>1, <4>1 DEF Lifecycle!Next
    <3>3. CASE ~ MayFinish(r.cmd)
      BY <1>2, <2>2, <3>3 DEF FinishCommand, TypeOK, CommandsType
    <3> QED
      BY <3>2, <3>3
  <2>3. ASSUME NEW a \in Actions, Tick(a) PROVE UNCHANGED commands
    BY <2>3 DEF Tick
  <2>4. ASSUME NEW a \in Actions, CreateAction(a) PROVE UNCHANGED commands
    BY <2>4 DEF CreateAction
  <2>5. ASSUME NEW s \in Schedulers, NEW a \in Actions, IssueKillAction(s, a) PROVE UNCHANGED
      commands
    BY <2>5 DEF IssueKillAction
  <2>6. ASSUME NEW g \in Agents, AgentGone(g) PROVE UNCHANGED commands
    BY <2>6 DEF AgentGone
  <2>7. ASSUME NEW g \in Agents, AgentBack(g) PROVE UNCHANGED commands
    BY <2>7 DEF AgentBack
  <2>8. ASSUME NEW c \in toAgents, CommandLost(c) PROVE UNCHANGED commands
    BY <2>8 DEF CommandLost
  <2>9. ASSUME NEW c \in toAgents, NEW o \in AgentOutcomes, AgentReturn(c, o) PROVE UNCHANGED
      commands
    BY <2>9 DEF AgentReturn
  <2>10. ASSUME NEW s \in Schedulers, SetupRunnableActions(s) PROVE UNCHANGED commands
    BY <2>10 DEF SetupRunnableActions, collectorUnchanged
  <2>11. ASSUME NEW s \in Schedulers, NEW a \in Actions, SetupAction(s, a) PROVE UNCHANGED commands
    BY <2>11 DEF SetupAction, collectorUnchanged
  <2>12. ASSUME NEW s \in Schedulers, CollectorStage(s) PROVE UNCHANGED commands
    BY <2>12 DEF CollectorStage, collectorUnchanged
  <2>13. ASSUME NEW s \in Schedulers, NEW a \in Actions, LoadNewActionFromSpool(s, a) PROVE
      UNCHANGED commands
    BY <2>13 DEF LoadNewActionFromSpool
  <2>14. ASSUME NEW s \in Schedulers, NEW r \in Results, LoadReturnedCommand(s, r) PROVE UNCHANGED
      commands
    BY <2>14 DEF LoadReturnedCommand
  <2>15. ASSUME NEW s \in Schedulers, NEW c \in Commands, ExpireCommand(s, c) PROVE UNCHANGED
      commands
    BY <2>15 DEF ExpireCommand, collectorUnchanged
  <2>16. ASSUME NEW s \in Schedulers, NEW c \in Commands, ExpireMove(s, c) PROVE UNCHANGED commands
    BY <2>16 DEF ExpireMove, collectorUnchanged
  <2>17. ASSUME NEW s \in Schedulers, CollectorFails(s) PROVE UNCHANGED commands
    BY <2>17 DEF CollectorFails, collectorUnchanged
  <2>18. ASSUME NEW s \in Schedulers, NEW a \in Actions, ActionFromFile(s, a) PROVE UNCHANGED
      commands
    BY <2>18 DEF ActionFromFile, newActionUnchanged
  <2>19. ASSUME NEW s \in Schedulers, NEW a \in Actions, ActiveAgentsByTarget(s, a) PROVE
      UNCHANGED commands
    BY <2>19 DEF ActiveAgentsByTarget, newActionUnchanged
  <2>20. ASSUME NEW s \in Schedulers, NEW a \in Actions, InsertOrUpdateAction(s, a) PROVE
      UNCHANGED commands
    BY <2>20 DEF InsertOrUpdateAction, newActionUnchanged
  <2>21. ASSUME NEW s \in Schedulers, NEW a \in Actions, NEW g \in Agents, CreateCommand(s, a, g)
      PROVE UNCHANGED commands
    BY <2>21 DEF CreateCommand, newActionUnchanged
  <2>22. ASSUME NEW s \in Schedulers, NEW a \in Actions, NEW g \in Agents, CreateCommandFails(s,
      a, g) PROVE UNCHANGED commands
    BY <2>22 DEF CreateCommandFails, newActionUnchanged
  <2>23. ASSUME NEW s \in Schedulers, CommandsCreated(s) PROVE UNCHANGED commands
    BY <2>23 DEF CommandsCreated, newActionUnchanged
  <2>24. ASSUME NEW s \in Schedulers, NEW a \in Actions, FlyMove(s, a) PROVE UNCHANGED commands
    BY <2>24 DEF FlyMove, Move, newActionUnchanged
  <2>25. ASSUME NEW s \in Schedulers, NEW a \in Actions, InvalidMove(s, a) PROVE UNCHANGED commands
    BY <2>25 DEF InvalidMove, Move, newActionUnchanged
  <2>26. ASSUME NEW s \in Schedulers, NEW a \in Actions, FlyUpdate(s, a) PROVE UNCHANGED commands
    BY <2>26 DEF FlyUpdate, newActionUnchanged
  <2>27. ASSUME NEW s \in Schedulers, NEW a \in Actions, InvalidUpdate(s, a) PROVE UNCHANGED
      commands
    BY <2>27 DEF InvalidUpdate, newActionUnchanged
  <2>28. ASSUME NEW s \in Schedulers, NEW a \in Actions, NewActionFails(s, a) PROVE UNCHANGED
      commands
    BY <2>28 DEF NewActionFails, newActionUnchanged
  <2>29. ASSUME NEW s \in Schedulers, SendTimeout(s) PROVE UNCHANGED commands
    BY <2>29 DEF SendTimeout, senderUnchanged
  <2>30. ASSUME NEW s \in Schedulers, NEW c \in sender[s].batch, SendCommand(s, c) PROVE UNCHANGED
      commands
    BY <2>30 DEF SendCommand, senderUnchanged
  <2>31. ASSUME NEW s \in Schedulers, SendFails(s) PROVE UNCHANGED commands
    BY <2>31 DEF SendFails, senderUnchanged
  <2>32. ASSUME NEW s \in Schedulers, NEW r \in results, ReceiveResult(s, r) PROVE UNCHANGED
      commands
    BY <2>32 DEF ReceiveResult
  <2>33. ASSUME NEW s \in Schedulers, ReturnTimeout(s) PROVE UNCHANGED commands
    BY <2>33 DEF ReturnTimeout, returnerUnchanged
  <2>34. ASSUME NEW s \in Schedulers, ReturnDone(s) PROVE UNCHANGED commands
    BY <2>34 DEF ReturnDone, returnerUnchanged
  <2>35. ASSUME NEW s \in Schedulers, NEW r \in returner[s].batch, ReturnCommand(s, r) PROVE
      UNCHANGED commands
    BY <2>35 DEF ReturnCommand, returnerUnchanged
  <2>36. ASSUME NEW s \in Schedulers, NEW r \in doneQueue[s], CommandDone(s, r) PROVE UNCHANGED
      commands
    BY <2>36 DEF CommandDone, updaterUnchanged
  <2>37. ASSUME NEW s \in Schedulers, UpdateTimeout(s) PROVE UNCHANGED commands
    BY <2>37 DEF UpdateTimeout, updaterUnchanged
  <2>38. ASSUME NEW s \in Schedulers, UpdateDone(s) PROVE UNCHANGED commands
    BY <2>38 DEF UpdateDone, updaterUnchanged
  <2>39. ASSUME NEW s \in Schedulers, NEW a \in Actions, GetActionCounters(s, a) PROVE UNCHANGED
      commands
    BY <2>39 DEF GetActionCounters, updaterUnchanged
  <2>40. ASSUME NEW s \in Schedulers, NEW a \in Actions, LandMove(s, a) PROVE UNCHANGED commands
    BY <2>40 DEF LandMove, updaterUnchanged
  <2>41. ASSUME NEW s \in Schedulers, NEW a \in Actions, FinishAction(s, a) PROVE UNCHANGED commands
    BY <2>41 DEF FinishAction, updaterUnchanged
  <2>42. ASSUME NEW s \in Schedulers, NEW a \in Actions, LandRename(s, a) PROVE UNCHANGED commands
    BY <2>42 DEF LandRename, updaterUnchanged
  <2>43. ASSUME NEW s \in Schedulers, UpdateFails(s) PROVE UNCHANGED commands
    BY <2>43 DEF UpdateFails, updaterUnchanged
  <2>44. ASSUME NEW s \in Schedulers, Crash(s) PROVE UNCHANGED commands
    BY <2>44 DEF Crash
  <2>45. CASE UNCHANGED vars
    BY <2>45 DEF vars
  <2> QED
    BY <1>2, <2>1, <2>2, <2>3, <2>4, <2>5, <2>6, <2>7, <2>8, <2>9, <2>10, <2>11, <2>12, <2>13,
        <2>14, <2>15, <2>16, <2>17, <2>18, <2>19, <2>20, <2>21, <2>22, <2>23, <2>24, <2>25, <2>26,
        <2>27, <2>28, <2>29, <2>30, <2>31, <2>32, <2>33, <2>34, <2>35, <2>36, <2>37, <2>38, <2>39,
        <2>40, <2>41, <2>42, <2>43, <2>44, <2>45 DEF Next,
      Environment, Collector, ProcessNewAction, SendCommands, ReceiveResults,
      ReturnBatch, ReturnCommands, UpdateAction, Failures
<1> QED
  BY <1>1, <1>2, TypeCorrect, CommandsFresh, PTL
    DEF Spec, CommandLifecycleSpec, Lifecycle!Spec

(* A command that is a success stays one: CommandLifecycle allows nothing else. *)
THEOREM SuccessKept == Spec => SuccessIsFinal
<1>1. TypeOK /\ [Lifecycle!Next]_commands
        => \A c \in Commands : commands[c] = "success" => commands'[c] = "success"
  BY DEF TypeOK, CommandsType, Lifecycle!Next, Lifecycle!Send, Lifecycle!Finish
<1>2. [][Lifecycle!Next]_commands /\ []TypeOK => SuccessIsFinal
  BY <1>1, PTL DEF SuccessIsFinal
<1> QED
  BY <1>2, LifecycleImplemented, TypeCorrect, PTL DEF CommandLifecycleSpec, Lifecycle!Spec

--------------------------------------------------------------------------------
(* Once processNewAction has read an action, some directory of the spool has its    *)
(* file, unless the action expires; and landAction has written it in Done before    *)
(* anything is removed from InFlight.                                               *)
InSpool(s, a) == \E d \in Dirs : a \in spool[s][d]

ReadInSpool ==
  \A s \in Schedulers : newAction[s].pc \notin {"idle", "load"} =>
    \A a \in newAction[s].act : phase[a] = "expired" \/ InSpool(s, a)

LandedInDone ==
  \A s \in Schedulers : updater[s].pc \in {"landFinish", "landRename"} =>
    updater[s].cur \subseteq spool[s]["Done"]

SpoolInv == SpoolKeepsAction /\ ReadInSpool /\ LandedInDone

TakenUp == {"preparing", "inflight", "completed", "invalid"}

(* What a step has to respect: it may only remove the last file of an action that    *)
(* has expired, and only takes up an action that has a file.                          *)
FilesKept ==
  /\ \A a \in Actions : phase[a] = "expired" => phase'[a] = "expired"
  /\ \A s \in Schedulers, a \in Actions : InSpool(s, a) => InSpool(s, a)' \/ phase'[a] = "expired"

TakesUpFiles ==
  /\ \A a \in Actions : actions'[a] \in TakenUp =>
       actions[a] \in TakenUp \/ phase[a] = "expired" \/ \E s \in Schedulers : InSpool(s, a)
  /\ \A s \in Schedulers : newAction'[s].pc \notin {"idle", "load"} =>
       \A a \in newAction'[s].act :
         \/ newAction[s].pc \notin {"idle", "load"} /\ a \in newAction[s].act
         \/ phase[a] = "expired" \/ InSpool(s, a)

(* However the goroutines of the schedulers interleave, and wherever they crash or     *)
(* fail, the file of an action that has been taken up is always in some directory.     *)
THEOREM SpoolKept == Spec => []SpoolKeepsAction
<1> USE DEF dbVars, diskVars, returnVars, relayVars
<1>1. Init => SpoolInv
  BY DEF Init, SpoolInv, SpoolKeepsAction, ReadInSpool, LandedInDone, NewActionIdle, UpdaterIdle
<1>2. ASSUME TypeOK, TypeOK', SpoolInv, [Next]_vars PROVE SpoolInv'
  <2>1. /\ spool \in [Schedulers -> [Dirs -> SUBSET Actions]]
        /\ newAction \in [Schedulers -> NewActionState] /\ updater \in [Schedulers -> UpdaterState]
        /\ phase \in [Actions -> {"early", "valid", "expired"}] /\ actions \in [Actions -> ActionStatuses]
    BY <1>2 DEF TypeOK, SpoolType, NewActionType, UpdaterType, TablesType
  <2>2. ASSUME FilesKept, TakesUpFiles, LandedInDone' PROVE SpoolInv'
    <3>1. SpoolKeepsAction'
      <4> SUFFICES ASSUME NEW a \in Actions, actions'[a] \in TakenUp, phase'[a] # "expired"
                   PROVE  \E s \in Schedulers, d \in Dirs : a \in spool'[s][d]
        BY DEF SpoolKeepsAction, TakenUp
      <4>1. phase[a] # "expired"
        BY <2>2 DEF FilesKept
      <4>2. PICK s \in Schedulers : InSpool(s, a)
        BY <1>2, <2>2, <4>1 DEF TakesUpFiles, SpoolInv, SpoolKeepsAction, TakenUp, InSpool
      <4>3. InSpool(s, a)'
        BY <2>2, <4>2 DEF FilesKept
      <4> QED
        BY <4>3 DEF InSpool
    <3>2. ReadInSpool'
      <4> SUFFICES ASSUME NEW s \in Schedulers, newAction'[s].pc \notin {"idle", "load"},
                          NEW a \in newAction'[s].act, a \in Actions
                   PROVE  phase'[a] = "expired" \/ InSpool(s, a)'
        <5>1. NewActionType'
          BY <1>2 DEF TypeOK
        <5>2. \A s \in Schedulers : newAction'[s].act \subseteq Actions
          BY <5>1 DEF NewActionType, NewActionState
        <5> QED
          BY <5>2 DEF ReadInSpool
      <4>1. phase[a] = "expired" \/ InSpool(s, a)
        BY <1>2, <2>2 DEF TakesUpFiles, SpoolInv, ReadInSpool
      <4> QED
        BY <2>2, <4>1 DEF FilesKept
    <3> QED
      BY <2>2, <3>1, <3>2 DEF SpoolInv
  <2>3. ASSUME UNCHANGED <<spool, phase>> PROVE FilesKept
    BY <2>3 DEF FilesKept, InSpool
  <2>4. ASSUME UNCHANGED <<spool, updater>> PROVE LandedInDone'
    BY <1>2, <2>4 DEF LandedInDone, SpoolInv
  <2>5. ASSUME UNCHANGED <<actions, newAction>> PROVE TakesUpFiles
    BY <2>5 DEF TakesUpFiles
  <2>6. CASE UNCHANGED <<phase, actions, spool, newAction, updater>>
    BY <2>2, <2>3, <2>4, <2>5, <2>6
  \* Steps that only write a file.
  <2>7. ASSUME NEW s \in Schedulers, NEW a \in Actions, WriteFile(s, "New", a),
               UNCHANGED <<phase, actions, newAction, updater>>
        PROVE  SpoolInv'
    <3>1. \A t \in Schedulers, d \in Dirs : spool[t][d] \subseteq spool'[t][d]
      BY <2>1, <2>7 DEF WriteFile, Dirs
    <3>2. FilesKept
      BY <2>7, <3>1 DEF FilesKept, InSpool
    <3>3. LandedInDone'
      BY <1>2, <2>7, <3>1 DEF LandedInDone, SpoolInv, Dirs
    <3> QED
      BY <2>2, <2>5, <2>7, <3>2, <3>3
  <2>8. ASSUME NEW a \in Actions, Tick(a) PROVE SpoolInv'
    <3>1. FilesKept
      BY <2>1, <2>8 DEF Tick, FilesKept, InSpool
    <3> QED
      BY <2>2, <2>4, <2>5, <2>8, <3>1 DEF Tick
  <2>9. ASSUME NEW a \in Actions, CreateAction(a) PROVE SpoolInv'
    <3>1. TakesUpFiles
      BY <2>1, <2>9 DEF CreateAction, TakesUpFiles, TakenUp
    <3> QED
      BY <2>2, <2>3, <2>4, <2>9, <3>1 DEF CreateAction
  <2>10. ASSUME NEW s \in Schedulers, NEW a \in Actions, IssueKillAction(s, a) \/ SetupAction(s, a)
         PROVE  SpoolInv'
    BY <2>7, <2>10 DEF IssueKillAction, SetupAction, collectorUnchanged
  <2>11. ASSUME NEW s \in Schedulers, SetupRunnableActions(s) PROVE SpoolInv'
    <3>1. TakesUpFiles
      BY <2>1, <2>11 DEF SetupRunnableActions, MarkedScheduled, collectorUnchanged, TakesUpFiles, TakenUp
    <3> QED
      BY <2>2, <2>3, <2>4, <2>11, <3>1 DEF SetupRunnableActions, collectorUnchanged
  <2>12. ASSUME NEW s \in Schedulers, NEW a \in Actions, LoadNewActionFromSpool(s, a) PROVE SpoolInv'
    <3>1. UNCHANGED <<phase, actions, updater>>
      BY <2>12 DEF LoadNewActionFromSpool
    <3>2. spool' = spool \/ (phase[a] = "expired" /\ spool' = [spool EXCEPT ![s]["New"] = @ \ {a}])
      BY <2>12 DEF LoadNewActionFromSpool, RemoveFile
    <3>3. \A t \in Schedulers, d \in Dirs, b \in Actions :
            b \in spool[t][d] => b \in spool'[t][d] \/ (b = a /\ phase[a] = "expired" /\ d = "New")
      BY <2>1, <3>2 DEF Dirs
    <3>4. FilesKept
      BY <3>1, <3>3 DEF FilesKept, InSpool
    <3>5. \A t \in Schedulers : newAction'[t] = newAction[t] \/ newAction'[t].pc = "load"
      BY <2>1, <2>12 DEF LoadNewActionFromSpool, NewActionState
    <3>6. TakesUpFiles
      BY <3>1, <3>5 DEF TakesUpFiles
    <3>7. LandedInDone'
      <4>1. \A t \in Schedulers : spool'[t]["Done"] = spool[t]["Done"]
        BY <2>1, <3>2 DEF Dirs
      <4> QED
        BY <1>2, <3>1, <4>1 DEF LandedInDone, SpoolInv
    <3> QED
      BY <2>2, <3>4, <3>6, <3>7
  <2>13. ASSUME NEW s \in Schedulers, NEW a \in Actions, ActionFromFile(s, a) PROVE SpoolInv'
    <3>1. TakesUpFiles
      <4>1. actions' = actions /\ newAction[s].act = {a}
        BY <2>1, <2>13 DEF ActionFromFile, NewActionState
      <4>2. CASE a \notin spool[s]["New"]
        <5>1. \A t \in Schedulers : newAction'[t] = newAction[t] \/ newAction'[t].pc = "idle"
          BY <2>1, <2>13, <4>2 DEF ActionFromFile, NewActionIdle, NewActionState
        <5> QED
          BY <4>1, <5>1 DEF TakesUpFiles
      <4>3. CASE a \in spool[s]["New"]
        <5>1. \A t \in Schedulers : newAction'[t] = newAction[t] \/ (t = s /\ newAction'[t].act \subseteq {a})
          BY <2>1, <2>13, <4>1 DEF ActionFromFile, NewActionIdle, NewActionState
        <5>2. InSpool(s, a)
          BY <4>3 DEF InSpool, Dirs
        <5> QED
          BY <4>1, <5>1, <5>2 DEF TakesUpFiles
      <4> QED
        BY <4>2, <4>3
    <3> QED
      BY <2>2, <2>3, <2>4, <2>13, <3>1 DEF ActionFromFile, newActionUnchanged
  \* Steps of processNewAction with an action that it has read.
  <2>14. ASSUME NEW s \in Schedulers, newAction[s].pc \notin {"idle", "load"},
                newAction'[s].act \subseteq newAction[s].act,
                \A t \in Schedulers : t # s => newAction'[t] = newAction[t],
                \A a \in Actions : actions'[a] \in TakenUp => actions[a] \in TakenUp \/ a \in newAction[s].act
         PROVE  TakesUpFiles
    <3>1. \A a \in Actions : a \in newAction[s].act => phase[a] = "expired" \/ InSpool(s, a)
      BY <1>2, <2>14 DEF SpoolInv, ReadInSpool
    <3> QED
      BY <2>14, <3>1 DEF TakesUpFiles
  <2>15. ASSUME NEW s \in Schedulers, NEW a \in Actions,
                \/ ActiveAgentsByTarget(s, a) \/ InsertOrUpdateAction(s, a) \/ FlyUpdate(s, a)
                \/ InvalidUpdate(s, a)
                \/ \E g \in Agents : CreateCommand(s, a, g) \/ CreateCommandFails(s, a, g)
         PROVE  SpoolInv'
    <3>1. UNCHANGED <<phase, spool, updater>> /\ newAction[s].pc \notin {"idle", "load"}
      BY <2>15 DEF ActiveAgentsByTarget, InsertOrUpdateAction, FlyUpdate, InvalidUpdate, CreateCommand,
          CreateCommandFails, newActionUnchanged
    <3>2. /\ newAction'[s].act \subseteq newAction[s].act
          /\ \A t \in Schedulers : t # s => newAction'[t] = newAction[t]
      <4>1. CASE ActiveAgentsByTarget(s, a) \/ InsertOrUpdateAction(s, a)
        <5> DEFINE found == Target[a] \intersect active
                   searched == [newAction[s] EXCEPT
                                  !.pc = IF found = {} THEN "invalidMove" ELSE "store",
                                  !.todo = found, !.next = "store"]
                   stored == [newAction[s] EXCEPT !.pc = "create", !.next = "idle"]
        <5>1. \/ newAction' = [newAction EXCEPT ![s] = searched]
              \/ newAction' = [newAction EXCEPT ![s] = stored]
          BY <4>1 DEF ActiveAgentsByTarget, InsertOrUpdateAction
        <5>2. searched.act = newAction[s].act /\ stored.act = newAction[s].act
          BY <2>1 DEF NewActionState
        <5> HIDE DEF searched, stored
        <5> QED
          BY <2>1, <5>1, <5>2
      <4>2. CASE FlyUpdate(s, a) \/ InvalidUpdate(s, a)
        BY <2>1, <4>2 DEF FlyUpdate, InvalidUpdate, NewActionState, NewActionIdle
      <4>3. ASSUME NEW g \in Agents, CreateCommand(s, a, g) \/ CreateCommandFails(s, a, g)
            PROVE  /\ newAction'[s].act \subseteq newAction[s].act
                   /\ \A t \in Schedulers : t # s => newAction'[t] = newAction[t]
        <5>1. CASE CreateCommand(s, a, g)
          <6> DEFINE rec == [newAction[s] EXCEPT !.todo = @ \ {g}, !.created = TRUE]
          <6>1. newAction' = [newAction EXCEPT ![s] = rec]
            BY <5>1 DEF CreateCommand
          <6>2. rec.act = newAction[s].act
            BY <2>1 DEF NewActionState
          <6> QED
            BY <2>1, <6>1, <6>2
        <5>2. CASE CreateCommandFails(s, a, g)
          BY <2>1, <5>2 DEF CreateCommandFails, NewActionState
        <5> QED
          BY <4>3, <5>1, <5>2
      <4> QED
        BY <2>15, <4>1, <4>2, <4>3
    <3>3. \A b \in Actions : actions'[b] \in TakenUp => actions[b] \in TakenUp \/ b \in newAction[s].act
      <4>1. actions' = actions \/ (a \in newAction[s].act /\ \A b \in Actions : b # a => actions'[b] = actions[b])
        BY <2>1, <2>15 DEF ActiveAgentsByTarget, InsertOrUpdateAction, FlyUpdate, InvalidUpdate,
           CreateCommand, CreateCommandFails
      <4> QED
        BY <4>1
    <3> QED
      BY <2>2, <2>3, <2>4, <2>14, <3>1, <3>2, <3>3
  <2>16. ASSUME NEW s \in Schedulers, NEW a \in Actions, NEW dir \in {"InFlight", "Invalid"},
                newAction[s].pc \notin {"idle", "load"},
                spool' = Moved(s, a, dir),
                newAction'[s].act \subseteq newAction[s].act,
                \A t \in Schedulers : t # s => newAction'[t] = newAction[t],
                UNCHANGED <<phase, actions, updater>>
         PROVE  SpoolInv'
    <3>1. /\ \A t \in Schedulers, d \in Dirs, b \in Actions :
               b \in spool[t][d] => b \in spool'[t][d] \/ b \in spool'[t][dir]
          /\ \A t \in Schedulers : spool[t]["Done"] \subseteq spool'[t]["Done"]
      BY <2>1, <2>16, SMTT(30) DEF Moved, Dirs
    <3>2. FilesKept
      BY <2>16, <3>1 DEF FilesKept, InSpool, Dirs
    <3>3. LandedInDone'
      BY <1>2, <2>16, <3>1 DEF LandedInDone, SpoolInv
    <3> QED
      BY <2>2, <2>14, <2>16, <3>2, <3>3
  <2>17. ASSUME NEW s \in Schedulers, NEW a \in Actions, FlyMove(s, a) \/ InvalidMove(s, a) PROVE SpoolInv'
    <3>1. /\ newAction[s].pc \notin {"idle", "load"} /\ newAction'[s].act \subseteq newAction[s].act
          /\ \A t \in Schedulers : t # s => newAction'[t] = newAction[t]
          /\ UNCHANGED <<phase, actions, updater>>
      BY <2>1, <2>17 DEF FlyMove, InvalidMove, Move, newActionUnchanged, NewActionState
    <3>2. spool' = Moved(s, a, "InFlight") \/ spool' = Moved(s, a, "Invalid")
      BY <2>17 DEF FlyMove, InvalidMove, Move
    <3> QED
      BY <2>16, <3>1, <3>2
  <2>18. ASSUME NEW s \in Schedulers, NEW a \in Actions, NewActionFails(s, a) PROVE SpoolInv'
    <3>1. /\ spool' = [spool EXCEPT ![s]["New"] = @ \ {a},
                                    ![s]["Invalid"] = IF a \in spool[s]["New"] THEN @ \union {a} ELSE @]
          /\ UNCHANGED <<phase, actions, updater>>
      BY <2>18 DEF NewActionFails, newActionUnchanged
    <3>2. \A t \in Schedulers : newAction'[t] = newAction[t] \/ newAction'[t].pc = "idle"
      BY <2>1, <2>18 DEF NewActionFails, NewActionIdle, NewActionState
    <3>3. TakesUpFiles
      BY <3>1, <3>2 DEF TakesUpFiles
    <3>4. /\ \A t \in Schedulers, d \in Dirs, b \in Actions :
               b \in spool[t][d] => b \in spool'[t][d] \/ b \in spool'[t]["Invalid"]
          /\ \A t \in Schedulers : spool[t]["Done"] \subseteq spool'[t]["Done"]
      BY <2>1, <3>1 DEF Dirs
    <3>5. FilesKept
      BY <3>1, <3>4 DEF FilesKept, InSpool, Dirs
    <3>6. LandedInDone'
      BY <1>2, <3>1, <3>4 DEF LandedInDone, SpoolInv
    <3> QED
      BY <2>2, <3>3, <3>5, <3>6
  <2>19. ASSUME NEW s \in Schedulers,
                \/ UpdateTimeout(s) \/ UpdateDone(s) \/ UpdateFails(s)
                \/ \E r \in doneQueue[s] : CommandDone(s, r)
                \/ \E a \in Actions : GetActionCounters(s, a)
         PROVE  SpoolInv'
    <3>1. UNCHANGED <<phase, actions, spool, newAction>>
      BY <2>19 DEF UpdateTimeout, UpdateDone, UpdateFails, CommandDone, GetActionCounters, updaterUnchanged
    <3>2. \A t \in Schedulers : updater'[t] = updater[t] \/ updater'[t].pc \in {"recv", "count", "landMove"}
      <4>1. CASE UpdateTimeout(s) \/ UpdateDone(s) \/ UpdateFails(s)
        BY <2>1, <4>1 DEF UpdateTimeout, UpdateDone, UpdateFails, UpdaterIdle, UpdaterState
      <4>2. ASSUME NEW r \in doneQueue[s], CommandDone(s, r)
            PROVE  \A t \in Schedulers : updater'[t] = updater[t] \/ updater'[t].pc \in {"recv", "count"}
        BY <2>1, <4>2 DEF CommandDone
      <4>3. ASSUME NEW a \in Actions, GetActionCounters(s, a)
            PROVE  \A t \in Schedulers : updater'[t] = updater[t] \/ updater'[t].pc \in {"count", "landMove"}
        BY <2>1, <4>3 DEF GetActionCounters, UpdaterState
      <4> QED
        BY <2>19, <4>1, <4>2, <4>3
    <3>3. LandedInDone'
      BY <1>2, <3>1, <3>2 DEF LandedInDone, SpoolInv
    <3> QED
      BY <2>2, <2>3, <2>5, <3>1, <3>3
  <2>20. ASSUME NEW s \in Schedulers, NEW a \in Actions, LandMove(s, a) PROVE SpoolInv'
    <3>1. /\ a \in updater[s].cur /\ UNCHANGED <<phase, actions, newAction>>
          /\ spool' = [spool EXCEPT ![s]["Done"] = @ \union {a}, ![s]["InFlight"] = @ \ {a}]
          /\ updater' = [updater EXCEPT ![s].pc = "landFinish"]
      BY <2>20 DEF LandMove, updaterUnchanged
    <3>2. /\ \A t \in Schedulers, d \in Dirs, b \in Actions :
               b \in spool[t][d] => b \in spool'[t][d] \/ b \in spool'[t]["Done"]
          /\ \A t \in Schedulers : spool[t]["Done"] \subseteq spool'[t]["Done"]
          /\ a \in spool'[s]["Done"]
      BY <2>1, <3>1 DEF Dirs
    <3>3. FilesKept
      BY <3>1, <3>2 DEF FilesKept, InSpool, Dirs
    <3>4. updater'[s].cur = updater[s].cur /\ \A t \in Schedulers : t # s => updater'[t] = updater[t]
      BY <2>1, <3>1 DEF UpdaterState
    <3>5. updater[s].cur = {a}
      BY <2>1, <3>1 DEF UpdaterState
    <3>6. LandedInDone'
      BY <1>2, <3>2, <3>4, <3>5 DEF LandedInDone, SpoolInv
    <3> QED
      BY <2>2, <2>5, <3>1, <3>3, <3>6
  <2>21. ASSUME NEW s \in Schedulers, NEW a \in Actions, FinishAction(s, a) PROVE SpoolInv'
    <3>1. /\ updater[s].pc = "landFinish" /\ a \in updater[s].cur /\ UNCHANGED <<phase, spool, newAction>>
          /\ actions' = [actions EXCEPT ![a] = LandedStatus]
          /\ updater' = [updater EXCEPT ![s].pc = "landRename"]
      BY <2>21 DEF FinishAction, updaterUnchanged
    <3>2. InSpool(s, a)
      BY <1>2, <3>1 DEF SpoolInv, LandedInDone, InSpool, Dirs
    <3>3. TakesUpFiles
      BY <2>1, <3>1, <3>2 DEF TakesUpFiles
    <3>4. \A t \in Schedulers : updater'[t].cur = updater[t].cur /\ (t # s => updater'[t] = updater[t])
      BY <2>1, <3>1 DEF UpdaterState
    <3>5. LandedInDone'
      BY <1>2, <3>1, <3>4 DEF LandedInDone, SpoolInv
    <3> QED
      BY <2>2, <2>3, <3>1, <3>3, <3>5
  <2>22. ASSUME NEW s \in Schedulers, NEW a \in Actions, LandRename(s, a) PROVE SpoolInv'
    <3>1. /\ updater[s].pc = "landRename" /\ a \in updater[s].cur /\ UNCHANGED <<phase, actions, newAction>>
          /\ spool' = [spool EXCEPT ![s]["InFlight"] = @ \ {a}]
          /\ updater' = [updater EXCEPT ![s] = [@ EXCEPT !.pc = "count", !.cur = {}]]
      BY <2>22 DEF LandRename, RemoveFile, updaterUnchanged
    <3>2. a \in spool[s]["Done"]
      BY <1>2, <3>1 DEF SpoolInv, LandedInDone
    <3>3. /\ \A t \in Schedulers, d \in Dirs, b \in Actions :
               b \in spool[t][d] => b \in spool'[t][d] \/ b \in spool'[t]["Done"]
          /\ \A t \in Schedulers : spool[t]["Done"] \subseteq spool'[t]["Done"]
      BY <2>1, <3>1, <3>2 DEF Dirs
    <3>4. FilesKept
      BY <3>1, <3>3 DEF FilesKept, InSpool, Dirs
    <3>5. \A t \in Schedulers : updater'[t] = updater[t] \/ updater'[t].pc = "count"
      BY <2>1, <3>1 DEF UpdaterState
    <3>6. LandedInDone'
      BY <1>2, <3>3, <3>5 DEF LandedInDone, SpoolInv
    <3> QED
      BY <2>2, <2>5, <3>1, <3>4, <3>6
  <2>23. ASSUME NEW s \in Schedulers, Crash(s) PROVE SpoolInv'
    <3>1. UNCHANGED <<phase, actions, spool>>
      BY <2>23 DEF Crash
    <3>2. \A t \in Schedulers : newAction'[t] = newAction[t] \/ newAction'[t].pc = "idle"
      BY <2>1, <2>23 DEF Crash, NewActionIdle
    <3>3. \A t \in Schedulers : updater'[t] = updater[t] \/ updater'[t].pc = "recv"
      BY <2>1, <2>23 DEF Crash, UpdaterIdle
    <3>4. TakesUpFiles
      BY <3>1, <3>2 DEF TakesUpFiles
    <3>5. LandedInDone'
      BY <1>2, <3>1, <3>3 DEF LandedInDone, SpoolInv
    <3> QED
      BY <2>2, <2>3, <3>1, <3>4, <3>5
  <2>29. ASSUME NEW s \in Schedulers, CommandsCreated(s) PROVE SpoolInv'
    <3>1. UNCHANGED <<phase, actions, spool, updater>> /\ newAction[s].pc \notin {"idle", "load"}
      BY <2>29 DEF CommandsCreated, newActionUnchanged
    <3>2. /\ newAction'[s].act \subseteq newAction[s].act
          /\ \A t \in Schedulers : t # s => newAction'[t] = newAction[t]
      BY <2>1, <2>29 DEF CommandsCreated, NewActionState
    <3> QED
      BY <2>2, <2>3, <2>4, <2>14, <3>1, <3>2
  \* The other steps concern agents, commands and results.
  <2>24. ASSUME NEW g \in Agents, AgentGone(g) \/ AgentBack(g) PROVE SpoolInv'
    BY <2>6, <2>24 DEF AgentGone, AgentBack
  <2>25. ASSUME NEW c \in toAgents, CommandLost(c) \/ \E o \in AgentOutcomes : AgentReturn(c, o) PROVE SpoolInv'
    BY <2>6, <2>25 DEF CommandLost, AgentReturn
  <2>26. ASSUME NEW s \in Schedulers,
                \/ CollectorStage(s) \/ CollectorFails(s) \/ \E r \in Results : LoadReturnedCommand(s, r)
                \/ \E c \in Commands : ExpireCommand(s, c) \/ ExpireMove(s, c)
         PROVE  SpoolInv'
    BY <2>6, <2>26 DEF CollectorStage, CollectorFails, LoadReturnedCommand, ExpireCommand, ExpireMove,
       collectorUnchanged
  <2>27. ASSUME NEW s \in Schedulers, SendCommands(s) \/ SendFails(s) \/ ReceiveResults(s) \/ ReturnCommands(s)
         PROVE  SpoolInv'
    BY <2>6, <2>27 DEF SendCommands, SendTimeout, InsertCommands, SendCommand, SendFails, senderUnchanged,
       ReceiveResults, ReceiveResult, ReturnCommands, ReturnBatch, ReturnTimeout, ReturnCommand, ReturnDone,
       FinishCommand, returnerUnchanged
  <2>28. CASE UNCHANGED vars
    BY <2>6, <2>28 DEF vars
  <2> QED
    BY <1>2, <2>8, <2>9, <2>10, <2>11, <2>12, <2>13, <2>15, <2>17, <2>18, <2>19, <2>20, <2>21, <2>22,
       <2>23, <2>24, <2>25, <2>26, <2>27, <2>28, <2>29
       DEF Next, Environment, Collector, ProcessNewAction, UpdateAction, Failures
<1>3. SpoolInv => SpoolKeepsAction
  BY DEF SpoolInv
<1> QED
  BY <1>1, <1>2, <1>3, TypeCorrect, PTL DEF Spec

--------------------------------------------------------------------------------
(* Without faults an action is prepared once: until then it is in no more than one   *)
(* of the places that lead there.                                                    *)
UnclaimedUntried == \A a \in Actions : a \in unused \/ actions[a] = "pending" => tries[a] = 0

ClaimedUntried ==
  \A s \in Schedulers : collector[s].pc = "setup" =>
    \A a \in collector[s].todo : tries[a] = 0 /\ a \notin spool[s]["New"] \union newAction[s].act

NewUntried ==
  \A s \in Schedulers : \A a \in spool[s]["New"] :
    \/ tries[a] = 0
    \/ /\ a \in newAction[s].act
       /\ newAction[s].pc \in {"create", "flyMove", "invalidMove"} /\ newAction[s].next = "idle"

(* processNewAction has still to store the action as being prepared.               *)
ToPrepare(s) ==
  \/ newAction[s].pc \in {"targets", "store"}
  \/ newAction[s].pc \in {"invalidMove", "invalidUpdate"} /\ newAction[s].next = "store"

ReadUntried == \A s \in Schedulers : ToPrepare(s) => \A a \in newAction[s].act : tries[a] = 0

CreatesLast == \A s \in Schedulers : newAction[s].pc = "create" => newAction[s].next = "idle"

TriedOnce == \A a \in Actions : tries[a] <= 1

OnceInv ==
  /\ UnclaimedUntried /\ ClaimedUntried /\ NewUntried /\ ReadUntried
  /\ CreatesLast /\ TriedOnce

(* What all steps but the ones that pass an action on have in common.             *)
NonePassedOn ==
  /\ unused' \subseteq unused /\ tries' = tries
  /\ \A a \in Actions : actions'[a] = "pending" => a \in unused \/ actions[a] = "pending"
  /\ \A t \in Schedulers : collector'[t].pc = "setup" =>
       collector[t].pc = "setup" /\ collector'[t].todo \subseteq collector[t].todo
  /\ \A t \in Schedulers : spool'[t]["New"] \subseteq spool[t]["New"]

(* While there are no crashes and no errors, an action is prepared at most once,    *)
(* by whatever scheduler gets hold of it.                                           *)
THEOREM PreparedOnce == Spec => [](faults = 0 => OnceInv)
<1> USE DEF dbVars, diskVars, returnVars, relayVars
<1>1. Init => (faults = 0 => OnceInv)
  BY DEF Init, OnceInv, UnclaimedUntried, ClaimedUntried, NewUntried, ToPrepare, ReadUntried,
    CreatesLast, TriedOnce, CollectorIdle, NewActionIdle, Dirs
<1>2. ASSUME TypeOK, OwnerInv, faults = 0 => OnceInv, [Next]_vars
      PROVE  (faults = 0 => OnceInv)'
  <2> SUFFICES ASSUME faults' = 0 PROVE OnceInv'
    OBVIOUS
  <2>1. /\ spool \in [Schedulers -> [Dirs -> SUBSET Actions]]
        /\ collector \in [Schedulers -> CollectorState]
        /\ newAction \in [Schedulers -> NewActionState] /\ updater \in [Schedulers -> UpdaterState]
        /\ tries \in [Actions -> 0..MaxTries] /\ actions \in [Actions -> ActionStatuses]
        /\ unused \subseteq Actions /\ faults \in 0..MaxFaults
    BY <1>2 DEF TypeOK, SpoolType, CollectorType, NewActionType, UpdaterType, TablesType
  <2>2. ~ Fault
    BY <1>2, <2>1, SchedulerAssumption DEF Fault
  <2>3. ASSUME UNCHANGED faults PROVE OnceInv
    BY <1>2, <2>3
  <2>4. ASSUME NonePassedOn, newAction' = newAction, UNCHANGED faults PROVE OnceInv'
    <3>1. OnceInv
      BY <2>3, <2>4
    <3>2. UnclaimedUntried'
      BY <2>4, <3>1 DEF OnceInv, UnclaimedUntried, NonePassedOn
    <3>3. ClaimedUntried'
      BY <2>4, <3>1 DEF OnceInv, ClaimedUntried, NonePassedOn
    <3>4. NewUntried'
      BY <2>4, <3>1 DEF OnceInv, NewUntried, NonePassedOn
    <3>5. ReadUntried'
      BY <2>4, <3>1 DEF OnceInv, ReadUntried, ToPrepare, NonePassedOn
    <3> QED
      BY <2>4, <3>1, <3>2, <3>3, <3>4, <3>5 DEF OnceInv, CreatesLast, TriedOnce, NonePassedOn
  <2>5. CASE UNCHANGED <<unused, actions, tries, collector, spool, newAction, faults>>
    BY <2>4, <2>5 DEF NonePassedOn
  \* The environment.
  <2>6. ASSUME NEW a \in Actions, Tick(a) \/ CreateAction(a) PROVE OnceInv'
    <3>1. /\ unused' \subseteq unused /\ UNCHANGED <<tries, collector, spool, newAction, faults>>
          /\ \A b \in Actions : actions'[b] = "pending" => b \in unused \/ actions[b] = "pending"
      BY <2>1, <2>6 DEF Tick, CreateAction
    <3> QED
      BY <2>4, <3>1 DEF NonePassedOn
  <2>7. ASSUME NEW s \in Schedulers, NEW a \in Actions, IssueKillAction(s, a) PROVE OnceInv'
    <3>1. /\ a \in unused /\ unused' = unused \ {a}
          /\ UNCHANGED <<tries, actions, collector, newAction, faults>>
          /\ \A t \in Schedulers : spool'[t]["New"] = IF t = s THEN spool[t]["New"] \union {a}
                                                               ELSE spool[t]["New"]
      BY <2>1, <2>7 DEF IssueKillAction, WriteFile, Dirs
    <3>2. OnceInv
      BY <2>3, <3>1
    <3>3. tries[a] = 0 /\ \A t \in Schedulers : ~ Holds(t, a)
      BY <1>2, <3>1, <3>2 DEF OnceInv, UnclaimedUntried, OwnerInv, Unheld
    <3>4. UnclaimedUntried'
      BY <3>1, <3>2 DEF OnceInv, UnclaimedUntried
    <3>5. ClaimedUntried'
      <4>1. \A t \in Schedulers : collector[t].pc = "setup" => a \notin collector[t].todo
        BY <3>3 DEF Holds
      <4> SUFFICES ASSUME NEW t \in Schedulers, collector[t].pc = "setup", NEW b \in collector[t].todo
                   PROVE  tries[b] = 0 /\ b \notin spool'[t]["New"] \union newAction[t].act
        BY <3>1 DEF ClaimedUntried
      <4>2. b # a
        BY <4>1
      <4>3. tries[b] = 0 /\ b \notin spool[t]["New"] \union newAction[t].act
        BY <3>2 DEF OnceInv, ClaimedUntried
      <4> QED
        BY <3>1, <4>2, <4>3
    <3>6. NewUntried'
      BY <3>1, <3>2, <3>3 DEF OnceInv, NewUntried
    <3> QED
      BY <3>1, <3>2, <3>4, <3>5, <3>6 DEF OnceInv, ReadUntried, ToPrepare, CreatesLast, TriedOnce
  <2>8. ASSUME NEW g \in Agents, AgentGone(g) \/ AgentBack(g) PROVE OnceInv'
    BY <2>5, <2>8 DEF AgentGone, AgentBack
  <2>9. ASSUME NEW c \in toAgents, CommandLost(c) \/ \E o \in AgentOutcomes : AgentReturn(c, o)
        PROVE  OnceInv'
    BY <2>5, <2>9 DEF CommandLost, AgentReturn
  \* The collector.
  <2>10. ASSUME NEW s \in Schedulers, SetupRunnableActions(s) PROVE OnceInv'
    <3>1. UNCHANGED <<unused, tries, spool, newAction, faults>>
      BY <2>10 DEF SetupRunnableActions, collectorUnchanged
    <3>2. OnceInv
      BY <2>3, <3>1
    <3>3. \A b \in Actions : actions'[b] = "pending" => actions[b] = "pending"
      BY <2>1, <2>10 DEF SetupRunnableActions, MarkedScheduled
    <3>4. /\ collector'[s].todo = Runnable
          /\ \A t \in Schedulers : t # s => collector'[t] = collector[t]
      BY <2>1, <2>10 DEF SetupRunnableActions, Claimed
    <3>5. \A b \in Runnable : b \in Actions /\ tries[b] = 0 /\ ~ Holds(s, b)
      BY <1>2, <3>2 DEF OnceInv, UnclaimedUntried, Runnable, OwnerInv, Unheld
    <3>6. UnclaimedUntried'
      BY <3>1, <3>2, <3>3 DEF OnceInv, UnclaimedUntried
    <3>7. ClaimedUntried'
      BY <3>1, <3>2, <3>4, <3>5 DEF OnceInv, ClaimedUntried, Holds
    <3> QED
      BY <3>1, <3>2, <3>6, <3>7 DEF OnceInv, NewUntried, ReadUntried, ToPrepare, CreatesLast, TriedOnce
  <2>11. ASSUME NEW s \in Schedulers, NEW a \in Actions, SetupAction(s, a) PROVE OnceInv'
    <3>1. /\ collector[s].pc = "setup" /\ a \in collector[s].todo
          /\ UNCHANGED <<unused, tries, actions, newAction, faults>>
          /\ \A t \in Schedulers : spool'[t]["New"] = IF t = s THEN spool[t]["New"] \union {a}
                                                               ELSE spool[t]["New"]
          /\ collector'[s].pc = "setup" /\ collector'[s].todo = collector[s].todo \ {a}
          /\ \A t \in Schedulers : t # s => collector'[t] = collector[t]
      BY <2>1, <2>11 DEF SetupAction, WriteFile, Dirs, collectorUnchanged, CollectorState
    <3>2. OnceInv
      BY <2>3, <3>1
    <3>3. tries[a] = 0
      BY <3>1, <3>2 DEF OnceInv, ClaimedUntried
    <3>4. ClaimedUntried'
      BY <3>1, <3>2 DEF OnceInv, ClaimedUntried
    <3>5. NewUntried'
      BY <3>1, <3>2, <3>3, ZenonT(30) DEF OnceInv, NewUntried
    <3> QED
      BY <3>1, <3>2, <3>4, <3>5 DEF OnceInv, UnclaimedUntried, ReadUntried, ToPrepare, CreatesLast, TriedOnce
  <2>12. ASSUME NEW s \in Schedulers, CollectorStage(s) PROVE OnceInv'
    <3>1. UNCHANGED <<unused, tries, actions, spool, newAction, faults>>
      BY <2>12 DEF CollectorStage, collectorUnchanged
    <3>2. \A t \in Schedulers : collector'[t] = collector[t] \/ collector'[t].pc # "setup"
      <4> DEFINE stage(pc, todo) == [collector[s] EXCEPT !.pc = pc, !.todo = todo]
      <4>1. \/ collector' = [collector EXCEPT ![s] = stage("spool", spool[s]["New"])]
            \/ collector' = [collector EXCEPT ![s] = stage("returned", returned[s])]
            \/ collector' = [collector EXCEPT ![s] = stage("expire", inflight[s])]
        BY <2>12 DEF CollectorStage
      <4>2. \A pc, todo : stage(pc, todo).pc = pc
        BY <2>1 DEF CollectorState
      <4> HIDE DEF stage
      <4> QED
        BY <2>1, <4>1, <4>2
    <3> QED
      BY <2>4, <3>1, <3>2 DEF NonePassedOn
  <2>13. ASSUME NEW s \in Schedulers, NEW a \in Actions, LoadNewActionFromSpool(s, a) PROVE OnceInv'
    <3>1. /\ collector[s].pc = "spool" /\ UNCHANGED <<unused, tries, actions, faults>>
          /\ \A t \in Schedulers : collector'[t].pc = collector[t].pc
          /\ \A t \in Schedulers : t # s => collector'[t] = collector[t]
      BY <2>1, <2>13 DEF LoadNewActionFromSpool, CollectorState
    <3>2. OnceInv
      BY <2>3, <3>1
    <3>3. \A t \in Schedulers : spool'[t]["New"] \subseteq spool[t]["New"]
      BY <2>1, <2>13 DEF LoadNewActionFromSpool, RemoveFile, Dirs
    <3>4. CASE newAction' = newAction
      BY <2>4, <3>1, <3>3, <3>4 DEF NonePassedOn
    <3>5. CASE newAction' # newAction
      <4>1. /\ newAction[s].pc = "idle" /\ newAction'[s].pc = "load"
            /\ \A t \in Schedulers : t # s => newAction'[t] = newAction[t]
        BY <2>1, <2>13, <3>5 DEF LoadNewActionFromSpool, NewActionState
      <4>2. ClaimedUntried'
        BY <3>1, <3>2, <3>3, <4>1 DEF OnceInv, ClaimedUntried
      <4>3. NewUntried'
        BY <3>1, <3>2, <3>3, <4>1 DEF OnceInv, NewUntried
      <4>4. ReadUntried'
        BY <3>1, <3>2, <4>1 DEF OnceInv, ReadUntried, ToPrepare
      <4>5. CreatesLast'
        BY <3>2, <4>1 DEF OnceInv, CreatesLast
      <4> QED
        BY <3>1, <3>2, <4>2, <4>3, <4>4, <4>5 DEF OnceInv, UnclaimedUntried, TriedOnce
    <3> QED
      BY <3>4, <3>5
  <2>14. ASSUME NEW s \in Schedulers,
                \/ \E r \in Results : LoadReturnedCommand(s, r)
                \/ \E c \in Commands : ExpireCommand(s, c) \/ ExpireMove(s, c)
         PROVE  OnceInv'
    <3>1. UNCHANGED <<unused, tries, actions, spool, newAction, faults>>
      BY <2>14 DEF LoadReturnedCommand, ExpireCommand, ExpireMove, collectorUnchanged
    <3>2. \A t \in Schedulers : collector'[t] = collector[t] \/ collector'[t].pc # "setup"
      <4>1. ASSUME NEW c \in Commands, ExpireMove(s, c)
            PROVE  \A t \in Schedulers : collector'[t] = collector[t] \/ collector'[t].pc # "setup"
        BY <2>1, <4>1 DEF ExpireMove, CollectorState
      <4>2. ASSUME NEW r \in Results, LoadReturnedCommand(s, r)
            PROVE  \A t \in Schedulers : collector'[t] = collector[t] \/ collector'[t].pc # "setup"
        BY <2>1, <4>2 DEF LoadReturnedCommand, CollectorState
      <4>3. ASSUME NEW c \in Commands, ExpireCommand(s, c)
            PROVE  \A t \in Schedulers : collector'[t] = collector[t] \/ collector'[t].pc # "setup"
        BY <2>1, <4>3 DEF ExpireCommand
      <4> QED
        BY <2>14, <4>1, <4>2, <4>3
    <3> QED
      BY <2>4, <3>1, <3>2 DEF NonePassedOn
  \* processNewAction.
  <2>15. ASSUME NEW s \in Schedulers, NEW a \in Actions, ActionFromFile(s, a) PROVE OnceInv'
    <3>1. /\ newAction[s].pc = "load" /\ newAction[s].act = {a}
          /\ UNCHANGED <<unused, tries, actions, collector, spool, faults>>
          /\ \A t \in Schedulers : t # s => newAction'[t] = newAction[t]
          /\ \/ newAction'[s].pc = "idle" /\ newAction'[s].act = {}
             \/ /\ a \in spool[s]["New"] /\ newAction'[s].act = {a}
                /\ newAction'[s].pc \in {"invalidMove", "targets"}
      <4> DEFINE found == [newAction[s] EXCEPT
                             !.pc = IF phase[a] = "expired" THEN "invalidMove" ELSE "targets"]
      <4>1. /\ newAction[s].pc = "load" /\ a \in newAction[s].act
            /\ UNCHANGED <<unused, tries, actions, collector, spool, faults>>
            /\ \/ newAction' = [newAction EXCEPT ![s] = NewActionIdle]
               \/ a \in spool[s]["New"] /\ newAction' = [newAction EXCEPT ![s] = found]
        BY <2>15 DEF ActionFromFile, newActionUnchanged
      <4>2. newAction[s].act = {a}
        BY <2>1, <4>1 DEF NewActionState
      <4>3. found.act = {a} /\ found.pc \in {"invalidMove", "targets"}
        BY <2>1, <4>2 DEF NewActionState
      <4>4. NewActionIdle.act = {} /\ NewActionIdle.pc = "idle"
        BY DEF NewActionIdle
      <4> HIDE DEF found
      <4> QED
        BY <2>1, <4>1, <4>2, <4>3, <4>4
    <3>2. OnceInv
      BY <2>3, <3>1
    <3>3. \A b \in spool[s]["New"] : tries[b] = 0
      BY <3>1, <3>2 DEF OnceInv, NewUntried
    <3>4. ClaimedUntried'
      BY <3>1, <3>2 DEF OnceInv, ClaimedUntried
    <3>5. NewUntried'
      BY <3>1, <3>2, <3>3 DEF OnceInv, NewUntried
    <3>6. ReadUntried'
      BY <3>1, <3>2, <3>3 DEF OnceInv, ReadUntried, ToPrepare
    <3>7. CreatesLast'
      BY <3>1, <3>2 DEF OnceInv, CreatesLast
    <3> QED
      BY <3>1, <3>2, <3>4, <3>5, <3>6, <3>7 DEF OnceInv, UnclaimedUntried, TriedOnce
  <2>16. ASSUME NEW s \in Schedulers, NEW a \in Actions, ActiveAgentsByTarget(s, a) PROVE OnceInv'
    <3> DEFINE found == Target[a] \intersect active
               rec == [newAction[s] EXCEPT !.pc = IF found = {} THEN "invalidMove" ELSE "store",
                                           !.todo = found, !.next = "store"]
    <3>1. /\ newAction[s].pc = "targets" /\ newAction' = [newAction EXCEPT ![s] = rec]
          /\ UNCHANGED <<unused, tries, actions, collector, spool, faults>>
      BY <2>16 DEF ActiveAgentsByTarget, newActionUnchanged
    <3>2. rec.act = newAction[s].act /\ rec.pc \in {"invalidMove", "store"}
      BY <2>1 DEF NewActionState
    <3> HIDE DEF rec
    <3>3. /\ newAction'[s].act = newAction[s].act /\ newAction'[s].pc \in {"invalidMove", "store"}
          /\ \A t \in Schedulers : t # s => newAction'[t] = newAction[t]
      BY <2>1, <3>1, <3>2
    <3>4. OnceInv
      BY <2>3, <3>1
    <3>5. ClaimedUntried'
      BY <3>1, <3>3, <3>4 DEF OnceInv, ClaimedUntried
    <3>6. NewUntried'
      BY <3>1, <3>3, <3>4 DEF OnceInv, NewUntried
    <3>7. ReadUntried'
      BY <3>1, <3>3, <3>4 DEF OnceInv, ReadUntried, ToPrepare
    <3>8. CreatesLast'
      BY <3>3, <3>4 DEF OnceInv, CreatesLast
    <3> QED
      BY <3>1, <3>4, <3>5, <3>6, <3>7, <3>8 DEF OnceInv, UnclaimedUntried, TriedOnce
  <2>17. ASSUME NEW s \in Schedulers, NEW a \in Actions, InsertOrUpdateAction(s, a) PROVE OnceInv'
    <3> DEFINE rec == [newAction[s] EXCEPT !.pc = "create", !.next = "idle"]
    <3>1. /\ newAction[s].pc = "store" /\ a \in newAction[s].act
          /\ newAction' = [newAction EXCEPT ![s] = rec]
          /\ tries' = [tries EXCEPT ![a] = @ + 1] /\ actions' = [actions EXCEPT ![a] = "preparing"]
          /\ UNCHANGED <<unused, collector, spool, faults>>
      BY <2>17 DEF InsertOrUpdateAction, newActionUnchanged
    <3>2. rec.act = newAction[s].act /\ rec.pc = "create" /\ rec.next = "idle"
      BY <2>1 DEF NewActionState
    <3> HIDE DEF rec
    <3>3. /\ newAction'[s].act = {a} /\ newAction'[s].pc = "create" /\ newAction'[s].next = "idle"
          /\ newAction[s].act = {a} /\ \A t \in Schedulers : t # s => newAction'[t] = newAction[t]
      <4>1. newAction'[s] = rec /\ \A t \in Schedulers : t # s => newAction'[t] = newAction[t]
        BY <2>1, <3>1
      <4>2. newAction[s].act = {a}
        BY <2>1, <3>1 DEF NewActionState
      <4> QED
        BY <3>2, <4>1, <4>2
    <3>4. OnceInv
      BY <2>3, <3>1
    <3>5. tries[a] = 0 /\ tries'[a] = 1 /\ \A b \in Actions : b # a => tries'[b] = tries[b]
      BY <2>1, <3>1, <3>4 DEF OnceInv, ReadUntried, ToPrepare
    <3>6. Holds(s, a) /\ \A t \in Schedulers : t # s => ~ Holds(t, a)
      BY <1>2, <3>1 DEF Holds, OwnerInv, SingleOwner
    <3>7. a \notin unused /\ actions'[a] = "preparing" /\ \A b \in Actions : b # a => actions'[b] = actions[b]
      BY <1>2, <2>1, <3>1, <3>6 DEF OwnerInv, Unheld
    <3>8. UnclaimedUntried'
      BY <3>1, <3>4, <3>5, <3>7 DEF OnceInv, UnclaimedUntried
    <3>9. \A t \in Schedulers : spool[t]["New"] \subseteq Actions /\ newAction[t].act \subseteq Actions
      BY <2>1, SMTT(30) DEF Dirs, NewActionState
    <3>10. ClaimedUntried'
      <4>1. \A t \in Schedulers : collector[t].pc = "setup" =>
              a \notin collector[t].todo /\ collector[t].todo \subseteq Actions
        BY <1>2, <3>3, <3>4, <3>6 DEF Holds, OnceInv, ClaimedUntried, TypeOK, CollectorType, ListingType
      <4> QED
        BY <3>1, <3>3, <3>4, <3>5, <4>1 DEF OnceInv, ClaimedUntried
    <3>11. NewUntried'
      <4>1. \A t \in Schedulers : t # s => a \notin spool[t]["New"] /\ a \notin newAction[t].act
        BY <3>6 DEF Holds
      <4>2. \A b \in spool[s]["New"] : b = a \/ tries'[b] = 0
        BY <3>1, <3>4, <3>5, <3>9 DEF OnceInv, NewUntried
      <4>3. \A t \in Schedulers : t # s => \A b \in spool[t]["New"] : tries'[b] = tries[b]
        BY <3>5, <3>9, <4>1
      <4> QED
        BY <3>1, <3>3, <3>4, <4>2, <4>3 DEF OnceInv, NewUntried
    <3>12. ReadUntried'
      <4>1. \A t \in Schedulers : t # s => \A b \in newAction[t].act : tries'[b] = tries[b]
        BY <3>5, <3>6, <3>9 DEF Holds
      <4> QED
        BY <3>3, <3>4, <4>1 DEF OnceInv, ReadUntried, ToPrepare
    <3>13. CreatesLast'
      BY <3>3, <3>4 DEF OnceInv, CreatesLast
    <3>14. TriedOnce'
      BY <3>4, <3>5 DEF OnceInv, TriedOnce
    <3> QED
      BY <3>8, <3>10, <3>11, <3>12, <3>13, <3>14 DEF OnceInv
  \* A step within the creation of the commands.
  <2>18. ASSUME NEW s \in Schedulers, newAction[s].pc = "create",
                newAction'[s].act = newAction[s].act, newAction'[s].next = newAction[s].next,
                newAction'[s].pc \in {"create", "flyMove", "invalidMove"},
                \A t \in Schedulers : t # s => newAction'[t] = newAction[t],
                UNCHANGED <<unused, tries, actions, collector, spool, faults>>
         PROVE  OnceInv'
    <3>1. OnceInv
      BY <2>3, <2>18
    <3>2. newAction[s].next = "idle"
      BY <2>18, <3>1 DEF OnceInv, CreatesLast
    <3>3. ClaimedUntried'
      BY <2>18, <3>1 DEF OnceInv, ClaimedUntried
    <3>4. NewUntried'
      BY <2>18, <3>1, <3>2 DEF OnceInv, NewUntried
    <3>5. ReadUntried'
      BY <2>18, <3>1, <3>2 DEF OnceInv, ReadUntried, ToPrepare
    <3>6. CreatesLast'
      BY <2>18, <3>1, <3>2 DEF OnceInv, CreatesLast
    <3> QED
      BY <2>18, <3>1, <3>3, <3>4, <3>5, <3>6 DEF OnceInv, UnclaimedUntried, TriedOnce
  <2>19. ASSUME NEW s \in Schedulers, NEW a \in Actions, NEW g \in Agents, CreateCommand(s, a, g)
         PROVE  OnceInv'
    <3> DEFINE rec == [newAction[s] EXCEPT !.todo = @ \ {g}, !.created = TRUE]
    <3>1. /\ newAction[s].pc = "create" /\ newAction' = [newAction EXCEPT ![s] = rec]
          /\ UNCHANGED <<unused, tries, actions, collector, spool, faults>>
      BY <2>19 DEF CreateCommand, newActionUnchanged
    <3>2. rec.act = newAction[s].act /\ rec.next = newAction[s].next /\ rec.pc = newAction[s].pc
      BY <2>1 DEF NewActionState
    <3> HIDE DEF rec
    <3>3. /\ newAction'[s] = rec /\ \A t \in Schedulers : t # s => newAction'[t] = newAction[t]
      BY <2>1, <3>1
    <3> QED
      BY <2>18, <3>1, <3>2, <3>3
  <2>20. ASSUME NEW s \in Schedulers, CommandsCreated(s) PROVE OnceInv'
    <3>1. /\ newAction[s].pc = "create"
          /\ newAction'[s].act = newAction[s].act /\ newAction'[s].next = newAction[s].next
          /\ newAction'[s].pc \in {"flyMove", "invalidMove"}
          /\ \A t \in Schedulers : t # s => newAction'[t] = newAction[t]
          /\ UNCHANGED <<unused, tries, actions, collector, spool, faults>>
      BY <2>1, <2>20 DEF CommandsCreated, newActionUnchanged, NewActionState
    <3> QED
      BY <2>18, <3>1
  <2>21. ASSUME NEW s \in Schedulers, NEW a \in Actions, FlyMove(s, a) \/ InvalidMove(s, a)
         PROVE  OnceInv'
    <3>1. /\ newAction[s].act = {a} /\ newAction'[s].act = {a} /\ newAction'[s].next = newAction[s].next
          /\ \/ newAction[s].pc = "flyMove" /\ newAction'[s].pc = "flyUpdate"
             \/ newAction[s].pc = "invalidMove" /\ newAction'[s].pc = "invalidUpdate"
          /\ \A t \in Schedulers : t # s => newAction'[t] = newAction[t]
          /\ UNCHANGED <<unused, tries, actions, collector, faults>>
      <4>1. PICK moved \in {"flyUpdate", "invalidUpdate"} :
              /\ newAction[s].pc = IF moved = "flyUpdate" THEN "flyMove" ELSE "invalidMove"
              /\ a \in newAction[s].act /\ newAction' = [newAction EXCEPT ![s].pc = moved]
              /\ UNCHANGED <<unused, tries, actions, collector, faults>>
        BY <2>21 DEF FlyMove, InvalidMove, Move, newActionUnchanged
      <4> QED
        BY <2>1, <4>1 DEF NewActionState
    <3>2. /\ spool'[s]["New"] = spool[s]["New"] \ {a}
          /\ \A t \in Schedulers : t # s => spool'[t] = spool[t]
      BY <2>1, <2>21 DEF FlyMove, InvalidMove, Move, Moved, Dirs
    <3>3. OnceInv
      BY <2>3, <3>1
    <3>4. ClaimedUntried'
      BY <3>1, <3>2, <3>3 DEF OnceInv, ClaimedUntried
    <3>5. NewUntried'
      BY <3>1, <3>2, <3>3 DEF OnceInv, NewUntried
    <3>6. ReadUntried'
      BY <3>1, <3>3 DEF OnceInv, ReadUntried, ToPrepare
    <3>7. CreatesLast'
      BY <3>1, <3>3 DEF OnceInv, CreatesLast
    <3> QED
      BY <3>1, <3>3, <3>4, <3>5, <3>6, <3>7 DEF OnceInv, UnclaimedUntried, TriedOnce
  <2>22. ASSUME NEW s \in Schedulers, NEW a \in Actions, FlyUpdate(s, a) \/ InvalidUpdate(s, a)
         PROVE  OnceInv'
    <3>1. /\ newAction[s].act = {a} /\ newAction[s].pc \in {"flyUpdate", "invalidUpdate"}
          /\ \A t \in Schedulers : t # s => newAction'[t] = newAction[t]
          /\ UNCHANGED <<unused, tries, collector, spool, faults>>
      BY <2>1, <2>22 DEF FlyUpdate, InvalidUpdate, newActionUnchanged, NewActionState
    <3>2. \/ newAction'[s].pc = "idle" /\ newAction'[s].act = {}
          \/ /\ newAction[s].pc = "invalidUpdate" /\ newAction[s].next = "store"
             /\ newAction'[s].pc = "store" /\ newAction'[s].act = {a}
      BY <2>1, <2>22, SMTT(30) DEF FlyUpdate, InvalidUpdate, NewActionState, NewActionIdle
    <3>3. \A b \in Actions : actions'[b] = "pending" => actions[b] = "pending"
      BY <2>1, <2>22 DEF FlyUpdate, InvalidUpdate
    <3>4. OnceInv
      BY <2>3, <3>1
    <3>5. UnclaimedUntried'
      BY <3>1, <3>3, <3>4 DEF OnceInv, UnclaimedUntried
    <3>6. ClaimedUntried'
      BY <3>1, <3>2, <3>4 DEF OnceInv, ClaimedUntried
    <3>7. NewUntried'
      BY <3>1, <3>4 DEF OnceInv, NewUntried
    <3>8. ReadUntried'
      BY <3>1, <3>2, <3>4 DEF OnceInv, ReadUntried, ToPrepare
    <3>9. CreatesLast'
      BY <3>1, <3>2, <3>4 DEF OnceInv, CreatesLast
    <3> QED
      BY <3>1, <3>4, <3>5, <3>6, <3>7, <3>8, <3>9 DEF OnceInv, TriedOnce
  \* Commands and results, and the end of an action.
  <2>23. ASSUME NEW s \in Schedulers, SendTimeout(s) \/ InsertCommands(s) \/ \E c \in sender[s].batch : SendCommand(s, c)
         PROVE  OnceInv'
    BY <2>5, <2>23 DEF SendTimeout, InsertCommands, SendCommand, senderUnchanged
  <2>24. ASSUME NEW s \in Schedulers, ReceiveResults(s) \/ ReturnCommands(s) PROVE OnceInv'
    BY <2>5, <2>24 DEF ReceiveResults, ReceiveResult, ReturnCommands, ReturnBatch, ReturnTimeout,
       ReturnCommand, ReturnDone, FinishCommand, returnerUnchanged
  <2>25. ASSUME NEW s \in Schedulers,
                \/ UpdateTimeout(s) \/ UpdateDone(s)
                \/ \E r \in doneQueue[s] : CommandDone(s, r)
                \/ \E a \in Actions : GetActionCounters(s, a)
         PROVE  OnceInv'
    BY <2>5, <2>25 DEF UpdateTimeout, UpdateDone, CommandDone, GetActionCounters, updaterUnchanged
  <2>26. ASSUME NEW s \in Schedulers, NEW a \in Actions,
                LandMove(s, a) \/ FinishAction(s, a) \/ LandRename(s, a)
         PROVE  OnceInv'
    <3>1. UNCHANGED <<unused, tries, collector, newAction, faults>>
      BY <2>26 DEF LandMove, FinishAction, LandRename, updaterUnchanged
    <3>2. \A b \in Actions : actions'[b] = "pending" => actions[b] = "pending"
      <4>1. actions' = actions \/ actions' = [actions EXCEPT ![a] = "completed"]
        BY <2>26 DEF LandMove, FinishAction, LandRename, LandedStatus, updaterUnchanged
      <4> QED
        BY <2>1, <4>1
    <3>3. \A t \in Schedulers : spool'[t]["New"] = spool[t]["New"]
      <4>1. \/ spool' = spool
            \/ spool' = [spool EXCEPT ![s]["Done"] = @ \union {a}, ![s]["InFlight"] = @ \ {a}]
            \/ spool' = [spool EXCEPT ![s]["InFlight"] = @ \ {a}]
        BY <2>26 DEF LandMove, FinishAction, LandRename, RemoveFile
      <4> QED
        BY <2>1, <4>1 DEF Dirs
    <3> QED
      BY <2>4, <3>1, <3>2, <3>3 DEF NonePassedOn
  <2>27. ASSUME NEW s \in Schedulers PROVE ~ Failures(s)
    BY <2>2 DEF Failures, CollectorFails, SendFails, UpdateFails, Crash, NewActionFails, CreateCommandFails
  <2>28. CASE UNCHANGED vars
    BY <2>5, <2>28 DEF vars
  <2> QED
    BY <1>2, <2>6, <2>7, <2>8, <2>9, <2>10, <2>11, <2>12, <2>13, <2>14, <2>15, <2>16, <2>17, <2>19,
       <2>20, <2>21, <2>22, <2>23, <2>24, <2>25, <2>26, <2>27, <2>28
       DEF Next, Environment, Collector, ProcessNewAction, SendCommands, UpdateAction
<1> QED
  BY <1>1, <1>2, TypeCorrect, OwnedOnce, PTL DEF Spec

(* Without faults, an agent is sent at most one command per action, also when      *)
(* several schedulers look for runnable actions: its commands all bear the number of *)
(* the only run of processNewAction.                                                *)
THEOREM SentOnce == Spec => [](faults = 0 => OneCommandPerAgent)
<1>1. TypeOK /\ FreshInv /\ (faults = 0 => OnceInv) => (faults = 0 => OneCommandPerAgent)
  <2> SUFFICES ASSUME TypeOK, FreshInv, OnceInv,
                      NEW c \in Commands, NEW d \in Commands,
                      commands[c] # "none", commands[d] # "none",
                      c.action = d.action, c.agent = d.agent
               PROVE  c = d
    BY DEF OneCommandPerAgent
  <2>1. c.try <= tries[c.action] /\ d.try <= tries[d.action]
    BY DEF FreshInv, RowsCounted
  <2>2. c.action \in Actions /\ tries[c.action] \in Nat /\ tries[c.action] <= 1
    BY DEF OnceInv, TriedOnce, Commands, TypeOK, TablesType
  <2>3. c.try \in 1..MaxTries /\ d.try \in 1..MaxTries
    BY DEF Commands
  <2>4. c.try = d.try
    BY <2>1, <2>2, <2>3, SchedulerAssumption
  <2> QED
    BY <2>4 DEF Commands
<1> QED
  BY <1>1, PreparedOnce, CommandsFresh, TypeCorrect, PTL

--------------------------------------------------------------------------------
(* A command that was sent stays in one of the places that end with its result.      *)
TrackedBy(s, c) ==
  \/ sender[s].pc = "send" /\ c \in sender[s].batch
  \/ c \in inflight[s]
  \/ \E r \in returned[s] \union finishing[s] : r.cmd = c

SentInv == active = Agents /\ \A c \in Commands : commands[c] = "sent" => \E s \in Schedulers : TrackedBy(s, c)

trackVars == <<commands, active, sender, inflight, returned, finishing>>

(* While there are no faults and agent rows stay active, a command that the          *)
(* database has as sent is on its way out, has an inflight file, or has a result     *)
(* that is being stored: with an agent row that is gone, FinishCommand would drop    *)
(* the last trace of it.                                                             *)
THEOREM SentTracked == Spec => [](Volatile = {} /\ faults = 0 => SentIsTracked)
<1> USE DEF dbVars, diskVars, returnVars, relayVars
<1>1. Init => (Volatile = {} /\ faults = 0 => SentInv)
  BY DEF Init, SentInv
<1>2. ASSUME TypeOK, Volatile = {} /\ faults = 0 => SentInv, [Next]_vars
      PROVE  (Volatile = {} /\ faults = 0 => SentInv)'
  <2> SUFFICES ASSUME Volatile = {}, faults' = 0 PROVE SentInv'
    OBVIOUS
  <2>1. /\ commands \in [Commands -> {"none", "sent"} \union Finished] /\ faults \in 0..MaxFaults
        /\ inflight \in [Schedulers -> SUBSET Commands] /\ returned \in [Schedulers -> SUBSET Results]
        /\ finishing \in [Schedulers -> SUBSET Results] /\ sender \in [Schedulers -> SenderState]
        /\ newAction \in [Schedulers -> NewActionState]
    BY <1>2 DEF TypeOK, CommandsType, FilesType, ReturnerType, SenderType, TablesType, NewActionType
  <2>2. ~ Fault
    BY <1>2, <2>1, SchedulerAssumption DEF Fault
  <2>3. ASSUME UNCHANGED faults PROVE SentInv
    BY <1>2, <2>3
  <2>4. ASSUME UNCHANGED <<active, faults>>,
               \A c \in Commands : commands'[c] = "sent" =>
                 commands[c] = "sent" /\ \A s \in Schedulers : TrackedBy(s, c) => TrackedBy(s, c)'
        PROVE  SentInv'
    BY <2>3, <2>4 DEF SentInv
  <2>5. CASE UNCHANGED trackVars /\ UNCHANGED faults
    BY <2>4, <2>5 DEF trackVars, TrackedBy
  <2>6. ASSUME NEW a \in Actions, Tick(a) \/ CreateAction(a) PROVE SentInv'
    BY <2>5, <2>6 DEF Tick, CreateAction, trackVars
  <2>7. ASSUME NEW s \in Schedulers, NEW a \in Actions, IssueKillAction(s, a) PROVE SentInv'
    BY <2>5, <2>7 DEF IssueKillAction, trackVars
  <2>8. ASSUME NEW g \in Agents PROVE ~ AgentGone(g) /\ ~ AgentBack(g)
    BY <2>8 DEF AgentGone, AgentBack
  <2>9. ASSUME NEW c \in toAgents, CommandLost(c) \/ \E o \in AgentOutcomes : AgentReturn(c, o)
        PROVE  SentInv'
    BY <2>5, <2>9 DEF CommandLost, AgentReturn, trackVars
  \* The collector.
  <2>10. ASSUME NEW s \in Schedulers,
                \/ SetupRunnableActions(s) \/ CollectorStage(s)
                \/ \E a \in Actions : SetupAction(s, a) \/ LoadNewActionFromSpool(s, a)
                \/ \E r \in Results : LoadReturnedCommand(s, r)
                \/ \E c \in Commands : ExpireCommand(s, c)
         PROVE  SentInv'
    BY <2>5, <2>10 DEF SetupRunnableActions, CollectorStage, SetupAction, LoadNewActionFromSpool,
       LoadReturnedCommand, ExpireCommand, collectorUnchanged, trackVars
  <2>11. ASSUME NEW s \in Schedulers, NEW c \in Commands, ExpireMove(s, c) PROVE SentInv'
    <3> DEFINE expired == [cmd |-> c, status |-> "expired"]
    <3>1. /\ returned' = [returned EXCEPT ![s] = @ \union {expired}]
          /\ inflight' = [inflight EXCEPT ![s] = @ \ {c}]
          /\ UNCHANGED <<commands, active, sender, finishing, faults>>
      BY <2>11 DEF ExpireMove, collectorUnchanged
    <3>2. expired.cmd = c
      OBVIOUS
    <3> HIDE DEF expired
    <3>3. /\ expired \in returned'[s]
          /\ \A t \in Schedulers : returned[t] \subseteq returned'[t]
          /\ \A t \in Schedulers, d \in Commands : d \in inflight[t] => d \in inflight'[t] \/ (t = s /\ d = c)
      BY <2>1, <3>1
    <3>4. ASSUME NEW d \in Commands, NEW t \in Schedulers, TrackedBy(t, d) PROVE TrackedBy(t, d)'
      BY <3>1, <3>2, <3>3, <3>4 DEF TrackedBy
    <3> QED
      BY <2>4, <3>1, <3>4
  \* processNewAction.
  <2>12. ASSUME NEW s \in Schedulers, NEW a \in Actions,
                \/ ActionFromFile(s, a) \/ ActiveAgentsByTarget(s, a) \/ InsertOrUpdateAction(s, a)
                \/ FlyMove(s, a) \/ FlyUpdate(s, a) \/ InvalidMove(s, a) \/ InvalidUpdate(s, a)
         PROVE  SentInv'
    BY <2>5, <2>12 DEF ActionFromFile, ActiveAgentsByTarget, InsertOrUpdateAction, FlyMove, FlyUpdate,
       InvalidMove, InvalidUpdate, Move, newActionUnchanged, trackVars
  <2>13. ASSUME NEW s \in Schedulers, CommandsCreated(s) PROVE SentInv'
    BY <2>5, <2>13 DEF CommandsCreated, newActionUnchanged, trackVars
  <2>14. ASSUME NEW s \in Schedulers, NEW a \in Actions, NEW g \in Agents, CreateCommand(s, a, g)
         PROVE  SentInv'
    <3>1. /\ sender[s].pc = "recv" /\ UNCHANGED <<commands, active, inflight, returned, finishing, faults>>
          /\ \A t \in Schedulers : t # s => sender'[t] = sender[t]
      BY <2>1, <2>14 DEF CreateCommand, newActionUnchanged
    <3>2. \A t \in Schedulers, c \in Commands : TrackedBy(t, c) => TrackedBy(t, c)'
      BY <3>1 DEF TrackedBy
    <3> QED
      BY <2>4, <3>1, <3>2
  \* sendCommands.
  <2>15. ASSUME NEW s \in Schedulers, SendTimeout(s) PROVE SentInv'
    <3>1. /\ sender[s].pc = "recv" /\ UNCHANGED <<commands, active, inflight, returned, finishing, faults>>
          /\ \A t \in Schedulers : t # s => sender'[t] = sender[t]
      BY <2>1, <2>15 DEF SendTimeout, senderUnchanged
    <3>2. \A t \in Schedulers, c \in Commands : TrackedBy(t, c) => TrackedBy(t, c)'
      BY <3>1 DEF TrackedBy
    <3> QED
      BY <2>4, <3>1, <3>2
  <2>16. ASSUME NEW s \in Schedulers, InsertCommands(s) PROVE SentInv'
    <3>1. /\ sender[s].pc = "insert"
          /\ commands' = [c \in Commands |-> IF c \in sender[s].batch THEN "sent" ELSE commands[c]]
          /\ UNCHANGED <<active, inflight, returned, finishing, faults>>
          /\ sender' = [sender EXCEPT ![s].pc = "send"]
      BY <2>16 DEF InsertCommands, senderUnchanged
    <3>2. /\ sender'[s].pc = "send" /\ sender'[s].batch = sender[s].batch
          /\ \A t \in Schedulers : t # s => sender'[t] = sender[t]
      BY <2>1, <3>1 DEF SenderState
    <3>3. \A t \in Schedulers, c \in Commands : TrackedBy(t, c) => TrackedBy(t, c)'
      BY <3>1, <3>2 DEF TrackedBy
    <3>4. \A c \in sender[s].batch : TrackedBy(s, c)'
      BY <3>2 DEF TrackedBy
    <3> QED
      BY <2>3, <3>1, <3>3, <3>4 DEF SentInv
  <2>17. ASSUME NEW s \in Schedulers, NEW c \in sender[s].batch, SendCommand(s, c) PROVE SentInv'
    <3> DEFINE rec == [pc |-> IF sender[s].batch = {c} THEN "recv" ELSE "send",
                       batch |-> sender[s].batch \ {c}]
    <3>1. /\ inflight' = [inflight EXCEPT ![s] = @ \union {c}]
          /\ UNCHANGED <<commands, active, returned, finishing, faults>>
          /\ sender' = [sender EXCEPT ![s] = rec]
      BY <2>17 DEF SendCommand, senderUnchanged
    <3>2. rec.batch = sender[s].batch \ {c} /\ (rec.pc = "send" \/ rec.batch = {})
      OBVIOUS
    <3> HIDE DEF rec
    <3>3. sender'[s] = rec /\ \A t \in Schedulers : t # s => sender'[t] = sender[t]
      BY <2>1, <3>1
    <3>4. /\ c \in inflight'[s] /\ \A t \in Schedulers : inflight[t] \subseteq inflight'[t]
      BY <2>1, <3>1
    <3>5. \A t \in Schedulers, d \in Commands : TrackedBy(t, d) => TrackedBy(t, d)'
      BY <3>1, <3>2, <3>3, <3>4 DEF TrackedBy
    <3> QED
      BY <2>4, <3>1, <3>5
  \* Results.
  <2>18. ASSUME NEW s \in Schedulers, NEW r \in results, ReceiveResult(s, r) PROVE SentInv'
    <3>1. /\ UNCHANGED <<commands, active, sender, inflight, finishing, faults>>
          /\ \A t \in Schedulers : returned[t] \subseteq returned'[t]
      BY <2>1, <2>18 DEF ReceiveResult
    <3>2. \A t \in Schedulers, c \in Commands : TrackedBy(t, c) => TrackedBy(t, c)'
      BY <3>1 DEF TrackedBy
    <3> QED
      BY <2>4, <3>1, <3>2
  <2>19. ASSUME NEW s \in Schedulers, ReturnTimeout(s) \/ ReturnDone(s) PROVE SentInv'
    BY <2>5, <2>19 DEF ReturnTimeout, ReturnDone, returnerUnchanged, trackVars
  <2>20. ASSUME NEW s \in Schedulers, NEW r \in returner[s].batch, ReturnCommand(s, r) PROVE SentInv'
    <3>1. UNCHANGED <<commands, active, sender, faults>>
      BY <2>20 DEF ReturnCommand, returnerUnchanged
    <3>2. CASE r \in returned[s]
      <4>1. /\ finishing' = [finishing EXCEPT ![s] = @ \union {r}]
            /\ inflight' = [inflight EXCEPT ![s] = @ \ {r.cmd}]
            /\ returned' = [returned EXCEPT ![s] = @ \ {r}]
        BY <2>20, <3>2 DEF ReturnCommand
      <4>2. /\ r \in finishing'[s]
            /\ \A t \in Schedulers : returned[t] \union finishing[t] \subseteq returned'[t] \union finishing'[t]
            /\ \A t \in Schedulers, d \in Commands :
                 d \in inflight[t] => d \in inflight'[t] \/ (t = s /\ d = r.cmd)
        BY <2>1, <4>1
      <4>3. ASSUME NEW t \in Schedulers, NEW c \in Commands, TrackedBy(t, c) PROVE TrackedBy(t, c)'
        BY <3>1, <4>2, <4>3 DEF TrackedBy
      <4> QED
        BY <2>4, <3>1, <4>3
    <3>3. CASE r \notin returned[s]
      BY <2>5, <2>20, <3>1, <3>3 DEF ReturnCommand, trackVars
    <3> QED
      BY <3>2, <3>3
  <2>21. ASSUME NEW s \in Schedulers, NEW r \in finishing[s], FinishCommand(s, r) PROVE SentInv'
    <3>1. /\ commands' = [commands EXCEPT ![r.cmd] = IF MayFinish(r.cmd) THEN r.status ELSE @]
          /\ finishing' = [finishing EXCEPT ![s] = @ \ {r}]
          /\ UNCHANGED <<active, sender, inflight, returned, faults>>
      BY <2>21 DEF FinishCommand, returnerUnchanged
    <3>2. /\ r.cmd \in Commands /\ r.cmd.agent \in Agents
          /\ r.status # "sent"
      BY <2>1, SchedulerAssumption DEF Results, Commands, Finished
    <3>3. active = Agents
      BY <2>3, <3>1 DEF SentInv
    <3>4. /\ commands'[r.cmd] # "sent"
          /\ \A c \in Commands : commands'[c] = "sent" => commands[c] = "sent" /\ c # r.cmd
      BY <2>1, <3>1, <3>2, <3>3 DEF MayFinish
    <3>5. \A t \in Schedulers, q \in Results : q \in finishing[t] => q \in finishing'[t] \/ q = r
      BY <2>1, <3>1
    <3>6. ASSUME NEW c \in Commands, c # r.cmd, NEW t \in Schedulers, TrackedBy(t, c)
          PROVE  TrackedBy(t, c)'
      <4>1. returned[t] \subseteq Results /\ finishing[t] \subseteq Results
        BY <2>1
      <4> QED
        BY <3>1, <3>5, <3>6, <4>1 DEF TrackedBy
    <3> QED
      BY <2>4, <3>1, <3>4, <3>6
  <2>22. ASSUME NEW s \in Schedulers, UpdateAction(s) PROVE SentInv'
    BY <2>5, <2>22 DEF UpdateAction, UpdateTimeout, UpdateDone, CommandDone, GetActionCounters, LandMove,
       FinishAction, LandRename, updaterUnchanged, trackVars
  <2>23. ASSUME NEW s \in Schedulers PROVE ~ Failures(s)
    BY <2>2 DEF Failures, CollectorFails, SendFails, UpdateFails, Crash, NewActionFails, CreateCommandFails
  <2>24. CASE UNCHANGED vars
    BY <2>5, <2>24 DEF vars, trackVars
  <2> QED
    BY <1>2, <2>6, <2>7, <2>8, <2>9, <2>10, <2>11, <2>12, <2>13, <2>14, <2>15, <2>16, <2>17, <2>18,
       <2>19, <2>20, <2>21, <2>22, <2>23, <2>24
       DEF Next, Environment, Collector, ProcessNewAction, SendCommands, ReceiveResults, ReturnCommands,
           ReturnBatch
<1>3. SentInv => SentIsTracked
  BY DEF SentInv, SentIsTracked, TrackedBy
<1> QED
  BY <1>1, <1>2, <1>3, TypeCorrect, PTL DEF Spec

=================================================================================
