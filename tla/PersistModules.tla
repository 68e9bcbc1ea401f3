----------------------------- MODULE PersistModules -----------------------------
(******************************************************************************)
(* Persistent modules and their alerts in mig-agent.                          *)
(*                                                                            *)
(* Each persistent module is a process of its own, started and supervised by    *)
(* a goroutine, managePersistModule, over two pipes: the goroutine pings the    *)
(* process, kills it when it does not answer, and starts it again.  Alerts of a *)
(* module go over the channel Alert to alertProcessor, which passes them on to  *)
(* the module dispatch, over the channel dispatchChan, or else to the log.      *)
(* dispatchChan exists while the dispatch module is up; a lock protects it.     *)
(******************************************************************************)
EXTENDS Naturals, Sequences, Functions

CONSTANTS
  Modules,      \* the persistent modules of the agent
  Dispatch,     \* the one called "dispatch"
  MaxAlerts,    \* bound: alerts that modules raise, numbered in that order
  AlertCap,     \* capacity of the channel Alert (128 in context.go)
  DispatchCap,  \* capacity of the channel dispatchChan (128)
  BufferCap,    \* capacity of messageBuf in the dispatch module (1024)
  InCap,        \* bound: messages that the standard input of a module holds
  OutCap,       \* bound: messages that its standard output holds
  MaxMissed,    \* pings without an answer before a module is killed (3)
  MaxFaults     \* bound: modules that end or hang, and errors of the system

ASSUME PersistModulesAssumption ==
  /\ Dispatch \in Modules
  /\ {AlertCap, DispatchCap, BufferCap, InCap, OutCap, MaxMissed} \subseteq Nat \ {0}
  /\ {MaxAlerts, MaxFaults} \subseteq Nat

Alert(n) == [class |-> "alert", id |-> n]
Alerts == {Alert(n) : n \in 1..MaxAlerts}

(* "unknown" stands for a class that managePersistModule does not handle.     *)
Message(class) == [class |-> class, id |-> 0]
Messages == {Message(c) : c \in {"config", "ping", "register", "unknown"}} \union Alerts

VARIABLES
  process,     \* process[m]: "none", "up", "hung" or "dead"
  stdin,       \* stdin[m]: what the agent has written and the module not read
  stdout,      \* stdout[m]: what the module has written and managePersistModule not received
  moduleMain,  \* of dispatch: "waiting" for its configuration, "given" it, or "ready"
  announced,   \* modules that have sent their socket
  manager,     \* manager[m]: the goroutine managePersistModule, and the alert in its hand
  missed,      \* missed[m]: pings since the last answer (lastPing)
  registered,  \* registered[m]: whose socket it is: "none", "current" or "earlier" process
  raised,      \* how many alerts have been raised
  alertChan,   \* the channel Alert
  processor,   \* alertProcessor: the alert that it holds, and the lock with it
  open,        \* whether dispatchChan exists
  dispatchChan,\* its content
  messageBuf,  \* the queue of the dispatch module
  handled,     \* alerts written to the log, sent on by dispatch, or dropped by it
  faults

processVars == <<process, stdin, stdout, moduleMain, announced>>
managerVars == <<manager, missed, registered>>
alertVars == <<alertChan, processor, open, dispatchChan>>
sinkVars == <<messageBuf, handled>>
vars == <<processVars, managerVars, raised, alertVars, sinkVars, faults>>

Init ==
  /\ process = [m \in Modules |-> "none"]
  /\ stdin = [m \in Modules |-> <<>>]
  /\ stdout = [m \in Modules |-> <<>>]
  /\ moduleMain = "waiting" /\ announced = {}
  /\ manager = [m \in Modules |-> [pc |-> "start", hand |-> {}]]
  /\ missed = [m \in Modules |-> 0]
  /\ registered = [m \in Modules |-> "none"]
  /\ raised = 0
  /\ alertChan = <<>>
  /\ processor = {}
  /\ open = FALSE /\ dispatchChan = <<>>
  /\ messageBuf = <<>>
  /\ handled = {}
  /\ faults = 0

Fault == faults < MaxFaults /\ faults' = faults + 1

At(m, pc) == manager[m].pc = pc
Go(m, pc) == manager' = [manager EXCEPT ![m] = [pc |-> pc, hand |-> {}]]

--------------------------------------------------------------------------------
(* managePersistModule: the start of a module.                                *)

(* A new process has new pipes, and a new channel for its messages; what the    *)
(* old ones hold is not received any more.                                      *)
StartModule(m) ==
  /\ At(m, "start")
  /\ process' = [process EXCEPT ![m] = "up"]
  /\ stdin' = [stdin EXCEPT ![m] = <<>>]
  /\ stdout' = [stdout EXCEPT ![m] = <<>>]
  /\ moduleMain' = IF m = Dispatch THEN "waiting" ELSE moduleMain
  /\ announced' = announced \ {m}
  /\ messageBuf' = IF m = Dispatch THEN <<>> ELSE messageBuf
  /\ missed' = [missed EXCEPT ![m] = 0]
  /\ registered' = [registered EXCEPT ![m] = IF @ = "current" THEN "earlier" ELSE @]
  /\ Go(m, "config")
  /\ UNCHANGED <<raised, alertVars, handled, faults>>

StartFails(m) ==
  /\ At(m, "start")
  /\ Fault
  /\ Go(m, "delay")
  /\ UNCHANGED <<processVars, missed, registered, raised, alertVars, sinkVars>>

Delay(m) ==
  /\ At(m, "delay")
  /\ Go(m, "start")
  /\ UNCHANGED <<processVars, missed, registered, raised, alertVars, sinkVars, faults>>

(* persistModRegister.remove                                                   *)
RemovedNothing(m) == registered
Removed(m) == [registered EXCEPT ![m] = "none"]

(* The first message is the configuration.  If it cannot be written the module   *)
(* is taken to be down.                                                          *)
WriteConfig(m) ==
  /\ At(m, "config")
  /\ \/ /\ process[m] # "dead"
        /\ stdin' = [stdin EXCEPT ![m] = Append(@, Message("config"))]
        /\ Go(m, IF m = Dispatch THEN "init" ELSE "select")
        /\ UNCHANGED registered
     \/ /\ process[m] = "dead"
        /\ registered' = Removed(m)
        /\ Go(m, "delay")
        /\ UNCHANGED stdin
  /\ UNCHANGED <<process, stdout, moduleMain, announced, missed, raised,
                 alertVars, sinkVars, faults>>

(* dispatchChanLock is free unless alertProcessor waits with it for room.       *)
Unlocked == TRUE
LockFree == processor = {}

InitDispatch(m) ==
  /\ At(m, "init")
  /\ open \/ LockFree
  /\ open' = TRUE
  /\ Go(m, "select")
  /\ UNCHANGED <<processVars, missed, registered, raised, alertChan, processor,
                 dispatchChan, sinkVars, faults>>

--------------------------------------------------------------------------------
(* managePersistModule: one round of its select.                              *)

ReceiveMessage(m) ==
  /\ At(m, "select")
  /\ stdout[m] # <<>>
  /\ LET msg == Head(stdout[m]) IN
       /\ missed' = [missed EXCEPT ![m] = IF msg.class = "ping" THEN 0 ELSE @]
       /\ registered' = [registered EXCEPT ![m] = IF msg.class = "register" THEN "current" ELSE @]
       /\ manager' = [manager EXCEPT ![m] =
            CASE msg \in Alerts -> [pc |-> "alert", hand |-> {msg}]
              [] msg.class = "unknown" -> [pc |-> "kill", hand |-> {}]
              [] OTHER -> @]
  /\ stdout' = [stdout EXCEPT ![m] = Tail(@)]
  /\ UNCHANGED <<process, stdin, moduleMain, announced, raised, alertVars,
                 sinkVars, faults>>

(* alertHandler waits for room in the channel Alert.                           *)
AlertHandler(m, a) ==
  /\ At(m, "alert")
  /\ a \in manager[m].hand
  /\ Len(alertChan) < AlertCap
  /\ alertChan' = Append(alertChan, a)
  /\ Go(m, "select")
  /\ UNCHANGED <<processVars, missed, registered, raised, processor, open,
                 dispatchChan, sinkVars, faults>>

(* The process has ended, and all it has written has been received.            *)
ModuleDown(m) ==
  /\ At(m, "select")
  /\ process[m] = "dead"
  /\ stdout[m] = <<>>
  /\ Go(m, "dealloc")
  /\ UNCHANGED <<processVars, missed, registered, raised, alertVars, sinkVars, faults>>

TakeDispatch(m) ==
  /\ At(m, "select")
  /\ m = Dispatch
  /\ dispatchChan # <<>>
  /\ manager' = [manager EXCEPT ![m] = [pc |-> "forward", hand |-> {Head(dispatchChan)}]]
  /\ dispatchChan' = Tail(dispatchChan)
  /\ UNCHANGED <<processVars, missed, registered, raised, alertChan, processor, open,
                 sinkVars, faults>>

OverdueNever(m) == missed[m] > MaxMissed
Overdue(m) == missed[m] >= MaxMissed

PingTick(m) ==
  /\ At(m, "select")
  /\ Go(m, IF Overdue(m) THEN "kill" ELSE "ping")
  /\ UNCHANGED <<processVars, missed, registered, raised, alertVars, sinkVars, faults>>

(* WriteOutput, of a ping or of the alert in hand: it blocks while the pipe is   *)
(* full and fails when the process has ended.                                    *)
Write(m, pc, msg) ==
  /\ At(m, pc)
  /\ \/ /\ process[m] # "dead"
        /\ Len(stdin[m]) < InCap
        /\ stdin' = [stdin EXCEPT ![m] = Append(@, msg)]
        /\ Go(m, "select")
     \/ /\ process[m] = "dead"
        /\ Go(m, "dealloc")
        /\ UNCHANGED stdin
  /\ UNCHANGED <<process, stdout, moduleMain, announced, registered, raised,
                 alertVars, sinkVars, faults>>

WritePing(m) ==
  /\ Write(m, "ping", Message("ping"))
  /\ missed' = [missed EXCEPT ![m] = IF @ < MaxMissed THEN @ + 1 ELSE @]

WriteAlert(m) ==
  /\ \E a \in manager[m].hand : Write(m, "forward", a)
  /\ UNCHANGED missed

KillModule(m) ==
  /\ At(m, "kill")
  /\ process' = [process EXCEPT ![m] = "dead"]
  /\ Go(m, "dealloc")
  /\ UNCHANGED <<stdin, stdout, moduleMain, announced, missed, registered, raised,
                 alertVars, sinkVars, faults>>

(* If that fails the goroutine returns.                                        *)
KillFails(m) ==
  /\ At(m, "kill")
  /\ Fault
  /\ Go(m, "gone")
  /\ UNCHANGED <<processVars, missed, registered, raised, alertVars, sinkVars>>

(* The dispatch channel is closed, with what it holds, under the lock; then the  *)
(* socket is forgotten, and the module started again after a while.              *)
DispatchDealloc(m) ==
  /\ At(m, "dealloc")
  /\ m = Dispatch => LockFree
  /\ open' = (open /\ m # Dispatch)
  /\ dispatchChan' = IF m = Dispatch THEN <<>> ELSE dispatchChan
  /\ registered' = Removed(m)
  /\ Go(m, "delay")
  /\ UNCHANGED <<processVars, missed, raised, alertChan, processor, sinkVars, faults>>

--------------------------------------------------------------------------------
(* alertProcessor.                                                            *)

(* The alert is written to the log.                                            *)
NotLogged(a) == handled
Logged(a) == handled \union {a}

(* With the lock it finds dispatchChan in place, and keeps the lock until there  *)
(* is room; or else the alert goes to the log.                                   *)
TakeAlert ==
  /\ processor = {}
  /\ alertChan # <<>>
  /\ alertChan' = Tail(alertChan)
  /\ \/ open /\ processor' = {Head(alertChan)} /\ UNCHANGED handled
     \/ ~ open /\ handled' = Logged(Head(alertChan)) /\ UNCHANGED processor
  /\ UNCHANGED <<processVars, managerVars, raised, open, dispatchChan, messageBuf, faults>>

Room == Len(dispatchChan) < DispatchCap

SendDispatch(a) ==
  /\ a \in processor
  /\ Room
  /\ dispatchChan' = Append(dispatchChan, a)
  /\ processor' = {}
  /\ UNCHANGED <<processVars, managerVars, raised, alertChan, open, sinkVars, faults>>

--------------------------------------------------------------------------------
(* The processes of the modules: DefaultPersistHandlers, moduleMain of dispatch. *)

Up(m) == process[m] = "up"

(* A module sends the address of its socket once it listens.                   *)
Announce(m) ==
  /\ Up(m)
  /\ m \notin announced
  /\ Len(stdout[m]) < OutCap
  /\ announced' = announced \union {m}
  /\ stdout' = [stdout EXCEPT ![m] = Append(@, Message("register"))]
  /\ UNCHANGED <<process, stdin, moduleMain, managerVars, raised, alertVars,
                 sinkVars, faults>>

(* Any module but dispatch may raise alerts, once it has its configuration.      *)
RaiseAlert(m) ==
  /\ Up(m) /\ m # Dispatch
  /\ ~ At(m, "config") /\ Message("config") \notin Range(stdin[m])
  /\ raised < MaxAlerts
  /\ Len(stdout[m]) < OutCap
  /\ raised' = raised + 1
  /\ stdout' = [stdout EXCEPT ![m] = Append(@, Alert(raised'))]
  /\ UNCHANGED <<process, stdin, moduleMain, announced, managerVars, alertVars,
                 sinkVars, faults>>

(* A ping is answered; the configuration goes to moduleMain.                   *)
HandleMessage(m) ==
  /\ Up(m)
  /\ stdin[m] # <<>>
  /\ Head(stdin[m]) \notin Alerts
  /\ \/ /\ Head(stdin[m]).class = "ping"
        /\ Len(stdout[m]) < OutCap
        /\ stdout' = [stdout EXCEPT ![m] = Append(@, Message("ping"))]
        /\ UNCHANGED moduleMain
     \/ /\ Head(stdin[m]).class = "config"
        /\ moduleMain' = IF m = Dispatch THEN "given" ELSE moduleMain
        /\ UNCHANGED stdout
  /\ stdin' = [stdin EXCEPT ![m] = Tail(@)]
  /\ UNCHANGED <<process, announced, managerVars, raised, alertVars, sinkVars, faults>>

(* moduleMain of dispatch makes messageBuf and registers dispatchIn.             *)
ModuleMain ==
  /\ Up(Dispatch)
  /\ moduleMain = "given"
  /\ moduleMain' = "ready"
  /\ UNCHANGED <<process, stdin, stdout, announced, managerVars, raised, alertVars,
                 sinkVars, faults>>

(* dispatchIn: an alert that finds messageBuf full is dropped; so is one that     *)
(* comes before moduleMain has registered the function.                           *)
DispatchIn(a) ==
  LET m == Dispatch IN
  /\ Up(m)
  /\ stdin[m] # <<>>
  /\ a = Head(stdin[m])
  /\ \/ /\ moduleMain = "ready" /\ Len(messageBuf) < BufferCap
        /\ messageBuf' = Append(messageBuf, a)
        /\ UNCHANGED handled
     \/ /\ moduleMain # "ready" \/ Len(messageBuf) = BufferCap
        /\ handled' = handled \union {a}
        /\ UNCHANGED messageBuf
  /\ stdin' = [stdin EXCEPT ![m] = Tail(@)]
  /\ UNCHANGED <<process, stdout, moduleMain, announced, managerVars, raised,
                 alertVars, faults>>

(* runDispatch: sent on, or dropped if that fails.                             *)
RunDispatch ==
  /\ Up(Dispatch)
  /\ messageBuf # <<>>
  /\ messageBuf' = Tail(messageBuf)
  /\ handled' = handled \union {Head(messageBuf)}
  /\ UNCHANGED <<processVars, managerVars, raised, alertVars, faults>>

(* A module ends, by an error or a signal, stops reading and writing, or writes   *)
(* what managePersistModule does not understand.                                  *)
ModuleFails(m) ==
  /\ \/ Up(m) /\ process' = [process EXCEPT ![m] = "hung"] /\ UNCHANGED stdout
     \/ /\ process[m] \in {"up", "hung"}
        /\ process' = [process EXCEPT ![m] = "dead"] /\ UNCHANGED stdout
     \/ /\ Up(m) /\ Len(stdout[m]) < OutCap
        /\ stdout' = [stdout EXCEPT ![m] = Append(@, Message("unknown"))] /\ UNCHANGED process
  /\ Fault
  /\ UNCHANGED <<stdin, moduleMain, announced, managerVars, raised,
                 alertVars, sinkVars>>

--------------------------------------------------------------------------------
Supervise(m) ==
  \/ StartModule(m) \/ Delay(m) \/ WriteConfig(m) \/ InitDispatch(m)
  \/ \E a \in manager[m].hand : AlertHandler(m, a)
  \/ WritePing(m) \/ WriteAlert(m) \/ KillModule(m) \/ DispatchDealloc(m)

Select(m) == ReceiveMessage(m) \/ ModuleDown(m) \/ TakeDispatch(m) \/ PingTick(m)

AlertProcessor == TakeAlert \/ \E a \in processor : SendDispatch(a)

Module(m) == Announce(m) \/ HandleMessage(m)

DispatchModule == ModuleMain \/ RunDispatch \/ \E a \in Alerts : DispatchIn(a)

Next ==
  \/ \E m \in Modules :
       \/ Supervise(m) \/ Select(m) \/ StartFails(m) \/ KillFails(m)
       \/ Module(m) \/ ModuleFails(m)
       \/ RaiseAlert(m)
  \/ AlertProcessor \/ DispatchModule

Spec == Init /\ [][Next]_vars

(* Goroutines and processes are scheduled fairly: each goes on while it is not     *)
(* blocked.  Which ready case select takes is left open.                           *)
FairSpec ==
  /\ Spec
  /\ \A m \in Modules : WF_vars(Supervise(m)) /\ WF_vars(Select(m)) /\ WF_vars(Module(m))
  /\ WF_vars(AlertProcessor) /\ WF_vars(DispatchModule)

--------------------------------------------------------------------------------
(* Properties.                                                                *)

ManagerState ==
  [pc : {"start", "delay", "config", "init", "select", "alert", "forward", "ping", "kill",
         "dealloc", "gone"},
   hand : SUBSET Alerts]

ProcessType ==
  /\ process \in [Modules -> {"none", "up", "hung", "dead"}]
  /\ stdin \in [Modules -> Seq(Messages)] /\ stdout \in [Modules -> Seq(Messages)]
  /\ \A m \in Modules : Len(stdin[m]) <= InCap /\ Len(stdout[m]) <= OutCap
  /\ moduleMain \in {"waiting", "given", "ready"} /\ announced \subseteq Modules

ManagerType ==
  /\ manager \in [Modules -> ManagerState]
  /\ missed \in [Modules -> 0..MaxMissed]
  /\ registered \in [Modules -> {"none", "current", "earlier"}]

AlertType ==
  /\ alertChan \in Seq(Alerts) /\ Len(alertChan) <= AlertCap
  /\ dispatchChan \in Seq(Alerts) /\ Len(dispatchChan) <= DispatchCap
  /\ messageBuf \in Seq(Alerts) /\ Len(messageBuf) <= BufferCap
  /\ processor \subseteq Alerts /\ open \in BOOLEAN
  /\ raised \in 0..MaxAlerts /\ handled \subseteq Alerts
  /\ faults \in 0..MaxFaults

(* The states of the goroutines, and the capacities of channels and pipes.     *)
TypeOK == ProcessType /\ ManagerType /\ AlertType

(* persistModRegister.get: the socket that queries are sent to is never one of    *)
(* an earlier process of the module. Goroutines, channels and pipes are as TypeOK *)
(* says.                                                                          *)
RegisteredIsCurrent == TypeOK /\ \A m \in Modules : registered[m] # "earlier"

(* dispatchDealloc and alertProcessor share dispatchChanLock: alertProcessor       *)
(* never sends on a dispatchChan that has been closed, which would panic.          *)
DispatchIsOpen == processor # {} => open

(* An alert on its way from a module to the log or to the service.             *)
InTransit(a) ==
  \/ \E m \in Modules : a \in manager[m].hand \union Range(stdin[m]) \union Range(stdout[m])
  \/ a \in processor \union Range(alertChan) \union Range(dispatchChan) \union Range(messageBuf)

(* alertProcessor: "either the alert being written to the dispatch module (if the  *)
(* dispatch module is active) or the alert being written to the agent log": an      *)
(* alert is given up only by dispatch, which counts it as dropped, or with a         *)
(* process that is replaced.                                                        *)
AlertIsAccounted ==
  [][\A a \in Alerts : InTransit(a) /\ ~ InTransit(a)' =>
       \/ a \in handled'
       \/ \E m \in Modules :
            /\ manager[m] # manager'[m]
            /\ At(m, "start") \/ At(m, "dealloc") \/ (At(m, "forward") /\ process[m] = "dead")]_vars

(* alertProcessor waits for room in dispatchChan and keeps the lock.            *)
Blocked == processor # {} /\ Len(dispatchChan) = DispatchCap

(* The pipe of dispatch is full, and there are alerts for it.                   *)
PipeFull(m) ==
  /\ m = Dispatch
  /\ Len(stdin[m]) = InCap
  /\ manager[m].hand \union (Range(stdin[m]) \intersect Alerts) # {}

(* managePersistModule: a module that has ended is started again, and one that     *)
(* does not answer pings is killed and started again, unless the kill fails or     *)
(* alerts block the goroutine.                                                     *)
FailedIsRestarted ==
  \A m \in Modules : process[m] \in {"dead", "hung"} ~>
    process[m] = "up" \/ At(m, "gone") \/ PipeFull(m) \/ Blocked

================================================================================
