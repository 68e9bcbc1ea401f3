-------------------------- MODULE PersistModules_proofs --------------------------
(******************************************************************************)
(* Theorems about PersistModules, for any number of persistent modules, alerts  *)
(* and faults, and any capacities of the channels and the pipes.                *)
(******************************************************************************)
EXTENDS PersistModules, SequenceTheorems, TLAPS

--------------------------------------------------------------------------------
(* The channels between the processes, as sequences.                           *)

(* What is sent is added to what a channel holds, ...                          *)
LEMMA AppendRange ==
  ASSUME NEW S, NEW q \in Seq(S), NEW x \in S
  PROVE  /\ Append(q, x) \in Seq(S)
         /\ Len(Append(q, x)) = Len(q) + 1
         /\ Range(Append(q, x)) = Range(q) \union {x}
<1> DEFINE p == Append(q, x)
<1>1. /\ p \in Seq(S) /\ Len(p) = Len(q) + 1
      /\ \A i \in 1..Len(q) : p[i] = q[i]
      /\ p[Len(q) + 1] = x
  BY AppendProperties
<1>2. Len(q) \in Nat /\ Range(q) = {q[i] : i \in 1..Len(q)} /\ Range(p) = {p[i] : i \in 1..Len(p)}
  BY <1>1, RangeEquality, LenProperties
<1>3. 1..Len(p) = 1..Len(q) \union {Len(q) + 1}
  BY <1>1, <1>2
<1> HIDE DEF p
<1>4. Range(p) = Range(q) \union {x}
  BY <1>1, <1>2, <1>3
<1> QED
  BY <1>1, <1>4 DEF p

(* ... and what is received is taken from it.                                   *)
LEMMA TailRange ==
  ASSUME NEW S, NEW q \in Seq(S), q # <<>>
  PROVE  /\ Head(q) \in S /\ Tail(q) \in Seq(S)
         /\ Len(Tail(q)) = Len(q) - 1 /\ Len(q) \in Nat \ {0}
         /\ Range(q) = {Head(q)} \union Range(Tail(q))
<1> DEFINE p == Tail(q)
<1>1. /\ Head(q) \in S /\ p \in Seq(S) /\ Len(p) = Len(q) - 1 /\ Len(q) \in Nat \ {0}
      /\ \A i \in 1..Len(p) : p[i] = q[i + 1]
      /\ Head(q) = q[1]
  BY HeadTailProperties, EmptySeq
<1>2. Range(q) = {q[i] : i \in 1..Len(q)} /\ Range(p) = {p[i] : i \in 1..Len(p)}
  BY <1>1, RangeEquality, ZenonT(30)
<1> HIDE DEF p
<1>3. \A i \in 1..Len(q) : i = 1 \/ \E j \in 1..Len(p) : i = j + 1
  <2> SUFFICES ASSUME NEW i \in 1..Len(q), i # 1 PROVE \E j \in 1..Len(p) : i = j + 1
    OBVIOUS
  <2>1. i - 1 \in 1..Len(p) /\ i = (i - 1) + 1
    BY <1>1
  <2> QED
    BY <2>1
<1>4. \A j \in 1..Len(p) : j + 1 \in 1..Len(q)
  BY <1>1
<1>5. Range(q) = {Head(q)} \union Range(p)
  <2>1. \A x \in Range(q) : x = Head(q) \/ x \in Range(p)
    <3> SUFFICES ASSUME NEW i \in 1..Len(q) PROVE q[i] = Head(q) \/ q[i] \in Range(p)
      BY <1>2
    <3>1. CASE i = 1
      BY <1>1, <3>1
    <3>2. ASSUME NEW j \in 1..Len(p), i = j + 1 PROVE q[i] \in Range(p)
      <4>1. p[j] = q[i]
        BY <1>1, <3>2
      <4> QED
        BY <1>2, <4>1
    <3> QED
      BY <1>3, <3>1, <3>2
  <2>2. \A x \in Range(p) : x \in Range(q)
    BY <1>1, <1>2, <1>4
  <2>3. Head(q) \in Range(q)
    BY <1>1, <1>2
  <2> QED
    BY <2>1, <2>2, <2>3
<1> QED
  BY <1>1, <1>5 DEF p

(* The same for one of several channels.                                       *)
LEMMA AppendedAt ==
  ASSUME NEW M, NEW S, NEW f \in [M -> Seq(S)], NEW m \in M, NEW x \in S,
         NEW g, g = [f EXCEPT ![m] = Append(@, x)]
  PROVE  /\ g \in [M -> Seq(S)] /\ Len(g[m]) = Len(f[m]) + 1
         /\ Range(g[m]) = Range(f[m]) \union {x}
         /\ \A d \in M : d # m => g[d] = f[d]
<1> DEFINE q == Append(f[m], x)
<1>1. q \in Seq(S) /\ Len(q) = Len(f[m]) + 1 /\ Range(q) = Range(f[m]) \union {x}
  BY AppendRange
<1> HIDE DEF q
<1>2. g = [f EXCEPT ![m] = q]
  BY DEF q
<1> QED
  BY <1>1, <1>2

LEMMA TakenAt ==
  ASSUME NEW M, NEW S, NEW f \in [M -> Seq(S)], NEW m \in M, f[m] # <<>>,
         NEW g, g = [f EXCEPT ![m] = Tail(@)]
  PROVE  /\ g \in [M -> Seq(S)] /\ Len(g[m]) = Len(f[m]) - 1 /\ Len(f[m]) \in Nat \ {0}
         /\ Head(f[m]) \in S /\ Range(f[m]) = {Head(f[m])} \union Range(g[m])
         /\ \A d \in M : d # m => g[d] = f[d]
<1> DEFINE q == Tail(f[m])
<1>1. /\ q \in Seq(S) /\ Len(q) = Len(f[m]) - 1 /\ Len(f[m]) \in Nat \ {0}
      /\ Head(f[m]) \in S /\ Range(f[m]) = {Head(f[m])} \union Range(q)
  BY TailRange
<1> HIDE DEF q
<1>2. g = [f EXCEPT ![m] = q]
  BY DEF q
<1> QED
  BY <1>1, <1>2


(* managePersistModule has no process, or one that it has not heard of.          *)
Starting == {"start", "delay", "config", "init"}

(* The pipe of a new process is empty until the configuration is written; a         *)
(* socket is only known while the module is selected on; and the goroutine holds    *)
(* one alert at a time, between receiving it and passing it on.                     *)
Supervised(m) ==
  /\ At(m, "config") => stdin[m] = <<>>
  /\ manager[m].pc \in Starting => registered[m] = "none"
  /\ registered[m] # "earlier"
  /\ manager[m].pc \notin {"alert", "forward"} => manager[m].hand = {}
  /\ \A a, b \in manager[m].hand : a = b

AllSupervised == \A m \in Modules : Supervised(m)

(* alertProcessor holds one alert at a time.                                    *)
OneAlert == \A a, b \in processor : a = b

--------------------------------------------------------------------------------
LEMMA Capacities ==
  /\ Dispatch \in Modules
  /\ AlertCap \in Nat /\ DispatchCap \in Nat /\ BufferCap \in Nat
  /\ InCap \in Nat /\ InCap >= 1 /\ OutCap \in Nat /\ MaxMissed \in Nat
  /\ MaxAlerts \in Nat /\ MaxFaults \in Nat
BY PersistModulesAssumption

LEMMA MessageIs ==
  /\ \A c \in {"config", "ping", "register", "unknown"} :
       Message(c) \in Messages /\ Message(c) \notin Alerts /\ Message(c).class = c
  /\ Alerts \subseteq Messages
  /\ \A a \in Alerts : a.class = "alert"
  /\ \A n \in 1..MaxAlerts : Alert(n) \in Alerts
<1>1. ASSUME NEW c \in {"config", "ping", "register", "unknown"}
      PROVE  Message(c) \in Messages /\ Message(c).class = c /\ c # "alert"
  BY DEF Messages, Message
<1>2. ASSUME NEW a \in Alerts PROVE a.class = "alert" /\ a \in Messages
  <2>1. PICK n \in 1..MaxAlerts : a = [class |-> "alert", id |-> n]
    BY DEF Alerts, Alert
  <2> QED
    BY <2>1 DEF Messages
<1>3. \A n \in 1..MaxAlerts : Alert(n) \in Alerts
  BY DEF Alerts
<1> QED
  BY <1>1, <1>2, <1>3

LEMMA GoesTo ==
  ASSUME ManagerType, NEW m \in Modules,
         NEW pc \in {"start", "delay", "config", "init", "select", "alert", "forward", "ping",
                     "kill", "dealloc", "gone"},
         NEW h \in SUBSET Alerts,
         manager' = [manager EXCEPT ![m] = [pc |-> pc, hand |-> h]]
  PROVE  /\ manager' \in [Modules -> ManagerState]
         /\ manager'[m].pc = pc /\ manager'[m].hand = h
         /\ \A d \in Modules : d # m => manager'[d] = manager[d]
<1> DEFINE rec == [pc |-> pc, hand |-> h]
<1>1. rec \in ManagerState /\ rec.pc = pc /\ rec.hand = h
  BY DEF ManagerState
<1>2. manager' = [manager EXCEPT ![m] = rec]
  OBVIOUS
<1> HIDE DEF rec
<1> QED
  BY <1>1, <1>2 DEF ManagerType

LEMMA RemovedIs ==
  ASSUME ManagerType, NEW m \in Modules, registered' = Removed(m)
  PROVE  /\ registered' \in [Modules -> {"none", "current", "earlier"}]
         /\ registered'[m] = "none"
         /\ \A d \in Modules : d # m => registered'[d] = registered[d]
BY DEF ManagerType, Removed

(* A step of one goroutine leaves the others as they are.                       *)
LEMMA OthersSupervised ==
  ASSUME AllSupervised, NEW m \in Modules, Supervised(m)',
         \A d \in Modules : d # m => /\ manager'[d] = manager[d] /\ registered'[d] = registered[d]
                                     /\ stdin'[d] = stdin[d]
  PROVE  AllSupervised'
BY DEF AllSupervised, Supervised, At

(* Most steps of managePersistModule only take it further.                      *)
LEMMA GoesOn ==
  ASSUME ManagerType, AllSupervised, NEW m \in Modules,
         NEW pc \in {"start", "delay", "select", "ping", "kill", "dealloc", "gone"},
         Go(m, pc), UNCHANGED <<stdin, registered>>,
         pc \in Starting => manager[m].pc \in Starting
  PROVE  /\ manager' \in [Modules -> ManagerState] /\ AllSupervised'
         /\ \A d \in Modules : manager[d].pc \notin {"alert", "forward"} \/ d # m =>
                                 manager[d].hand = manager'[d].hand
<1>1. /\ manager' \in [Modules -> ManagerState]
      /\ manager'[m].pc = pc /\ manager'[m].hand = {}
      /\ \A d \in Modules : d # m => manager'[d] = manager[d]
  <2>1. {} \in SUBSET Alerts
    OBVIOUS
  <2> QED
    BY <2>1, GoesTo DEF Go
<1>2. Supervised(m)'
  <2>1. registered'[m] = registered[m] /\ Supervised(m)
    BY DEF AllSupervised
  <2>2. ~ At(m, "config")'
    BY <1>1 DEF At
  <2> QED
    BY <1>1, <2>1, <2>2 DEF Supervised
<1> QED
  BY <1>1, <1>2, OthersSupervised, ZenonT(30) DEF AllSupervised, Supervised

--------------------------------------------------------------------------------
(* Types, and what every goroutine keeps to.                                  *)
LEMMA Kept == Spec => [](TypeOK /\ AllSupervised /\ OneAlert)
<1>1. Init => TypeOK /\ AllSupervised /\ OneAlert
  <2> SUFFICES ASSUME Init PROVE TypeOK /\ AllSupervised /\ OneAlert
    OBVIOUS
  <2>1. ProcessType
    BY Capacities DEF Init, ProcessType
  <2>2. [pc |-> "start", hand |-> {}] \in ManagerState
    BY DEF ManagerState
  <2>3. ManagerType
    BY <2>2, Capacities DEF Init, ManagerType
  <2>4. AlertType
    <3>1. <<>> \in Seq(Alerts) /\ Len(<<>>) = 0 /\ {} \subseteq Alerts
      OBVIOUS
    <3>2. open \in BOOLEAN
      BY DEF Init
    <3> QED
      BY <3>1, <3>2, Capacities DEF Init, AlertType
  <2> QED
    BY <2>1, <2>3, <2>4 DEF Init, TypeOK, AllSupervised, Supervised, OneAlert, At, Starting
<1>2. TypeOK /\ AllSupervised /\ OneAlert /\ [Next]_vars => (TypeOK /\ AllSupervised /\ OneAlert)'
  <2> SUFFICES ASSUME TypeOK, AllSupervised, OneAlert, [Next]_vars
               PROVE  (TypeOK /\ AllSupervised /\ OneAlert)'
    OBVIOUS
  <2>1. ProcessType /\ ManagerType /\ AlertType
    BY DEF TypeOK
  <2>2. /\ stdin \in [Modules -> Seq(Messages)] /\ stdout \in [Modules -> Seq(Messages)]
        /\ \A m \in Modules : Len(stdin[m]) <= InCap /\ Len(stdout[m]) <= OutCap
        /\ alertChan \in Seq(Alerts) /\ dispatchChan \in Seq(Alerts) /\ messageBuf \in Seq(Alerts)
    BY DEF TypeOK, ProcessType, AlertType
  <2>3. {} \in SUBSET Alerts /\ \A m \in Modules : Len(stdin[m]) \in Nat /\ Len(stdout[m]) \in Nat
    BY <2>2, LenProperties
  <2>4. \A m \in Modules : Supervised(m)
    BY DEF AllSupervised
  <2>5. ASSUME UNCHANGED processVars PROVE ProcessType'
    BY <2>1, <2>5 DEF ProcessType, processVars
  <2>6. ASSUME UNCHANGED <<raised, alertVars, sinkVars>>, faults' = faults \/ Fault PROVE AlertType' /\ OneAlert'
    BY <2>1, <2>6, Capacities DEF AlertType, alertVars, sinkVars, Fault, OneAlert
  <2>7. ASSUME UNCHANGED <<manager, registered, stdin>> PROVE AllSupervised'
    BY <2>4, <2>7 DEF AllSupervised, Supervised, At
  <2>8. ASSUME NEW m \in Modules, StartModule(m) PROVE (TypeOK /\ AllSupervised /\ OneAlert)'
    <3>1. /\ manager' \in [Modules -> ManagerState]
          /\ manager'[m].pc = "config" /\ manager'[m].hand = {}
          /\ \A d \in Modules : d # m => manager'[d] = manager[d]
      BY <2>1, <2>3, <2>8, GoesTo DEF StartModule, Go
    <3>2. registered[m] = "none"
      BY <2>4, <2>8 DEF Supervised, StartModule, At, Starting
    <3>3. ProcessType'
      <4>1. <<>> \in Seq(Messages) /\ Len(<<>>) = 0
        OBVIOUS
      <4>2. /\ stdin' \in [Modules -> Seq(Messages)] /\ stdout' \in [Modules -> Seq(Messages)]
            /\ \A d \in Modules : Len(stdin'[d]) <= InCap /\ Len(stdout'[d]) <= OutCap
        BY <2>2, <2>8, <4>1, Capacities DEF StartModule
      <4> QED
        BY <2>1, <2>8, <4>2 DEF StartModule, ProcessType
    <3>4. ManagerType'
      <4>1. missed' \in [Modules -> 0..MaxMissed]
        BY <2>1, <2>8, Capacities DEF StartModule, ManagerType
      <4>2. registered' \in [Modules -> {"none", "current", "earlier"}]
        BY <2>1, <2>8 DEF StartModule, ManagerType
      <4> QED
        BY <3>1, <4>1, <4>2 DEF ManagerType
    <3>5. AlertType' /\ OneAlert'
      BY <2>1, <2>8, Capacities DEF StartModule, AlertType, alertVars, OneAlert
    <3>6. /\ stdin'[m] = <<>> /\ registered'[m] = "none"
          /\ \A d \in Modules : d # m => stdin'[d] = stdin[d] /\ registered'[d] = registered[d]
      BY <2>1, <2>2, <2>8, <3>2 DEF StartModule, ManagerType
    <3>7. Supervised(m)'
      BY <3>1, <3>6 DEF Supervised
    <3> QED
      BY <3>1, <3>3, <3>4, <3>5, <3>6, <3>7, OthersSupervised DEF TypeOK
  <2>9. ASSUME NEW m \in Modules, StartFails(m) \/ Delay(m) \/ ModuleDown(m) \/ PingTick(m) \/ KillFails(m)
        PROVE  (TypeOK /\ AllSupervised /\ OneAlert)'
    <3>1. /\ UNCHANGED <<processVars, missed, registered, raised, alertVars, sinkVars>>
          /\ faults' = faults \/ Fault
      BY <2>9 DEF StartFails, Delay, ModuleDown, PingTick, KillFails
    <3>2. \E pc \in {"start", "delay", "select", "ping", "kill", "dealloc", "gone"} :
            Go(m, pc) /\ (pc \in Starting => manager[m].pc \in Starting)
      BY <2>9 DEF StartFails, Delay, ModuleDown, PingTick, KillFails, At, Starting
    <3>3. manager' \in [Modules -> ManagerState] /\ AllSupervised'
      BY <2>1, <3>1, <3>2, GoesOn DEF processVars
    <3> QED
      BY <2>1, <2>5, <2>6, <3>1, <3>3 DEF TypeOK, ManagerType
  <2>10. ASSUME NEW m \in Modules, WriteConfig(m) PROVE (TypeOK /\ AllSupervised /\ OneAlert)'
    <3>1. At(m, "config") /\ stdin[m] = <<>> /\ registered[m] = "none"
      BY <2>4, <2>10 DEF WriteConfig, Supervised, At, Starting
    <3>2. /\ UNCHANGED <<process, stdout, moduleMain, announced, missed, raised, alertVars, sinkVars, faults>>
      BY <2>10 DEF WriteConfig
    <3>3. AlertType' /\ OneAlert'
      BY <2>6, <3>2
    <3>4. CASE /\ stdin' = [stdin EXCEPT ![m] = Append(@, Message("config"))] /\ UNCHANGED registered
               /\ Go(m, IF m = Dispatch THEN "init" ELSE "select")
      <4>1. /\ stdin' \in [Modules -> Seq(Messages)] /\ Len(stdin'[m]) = 1
            /\ \A d \in Modules : d # m => stdin'[d] = stdin[d]
        BY <2>2, <3>1, <3>4, MessageIs, AppendedAt
      <4>2. /\ manager' \in [Modules -> ManagerState]
            /\ manager'[m].pc \in {"init", "select"} /\ manager'[m].hand = {}
            /\ \A d \in Modules : d # m => manager'[d] = manager[d]
        BY <2>1, <2>3, <3>4, GoesTo DEF Go
      <4>3. ProcessType'
        BY <2>1, <3>2, <4>1, Capacities DEF ProcessType
      <4>4. Supervised(m)'
        BY <3>1, <3>4, <4>2 DEF Supervised, At
      <4> QED
        BY <2>1, <3>2, <3>3, <3>4, <4>1, <4>2, <4>3, <4>4, OthersSupervised DEF TypeOK, ManagerType
    <3>5. CASE registered' = Removed(m) /\ Go(m, "delay") /\ UNCHANGED stdin
      <4>1. /\ registered' \in [Modules -> {"none", "current", "earlier"}]
            /\ registered'[m] = "none" /\ \A d \in Modules : d # m => registered'[d] = registered[d]
        BY <2>1, <3>5, RemovedIs
      <4>2. /\ manager' \in [Modules -> ManagerState]
            /\ manager'[m].pc = "delay" /\ manager'[m].hand = {}
            /\ \A d \in Modules : d # m => manager'[d] = manager[d]
        BY <2>1, <2>3, <3>5, GoesTo DEF Go
      <4>3. Supervised(m)'
        BY <4>1, <4>2 DEF Supervised, At
      <4>4. ProcessType'
        BY <2>5, <3>2, <3>5 DEF processVars
      <4> QED
        BY <2>1, <3>2, <3>3, <3>5, <4>1, <4>2, <4>3, <4>4, OthersSupervised DEF TypeOK, ManagerType
    <3> QED
      BY <2>10, <3>4, <3>5 DEF WriteConfig
  <2>11. ASSUME NEW m \in Modules, InitDispatch(m) PROVE (TypeOK /\ AllSupervised /\ OneAlert)'
    <3>1. manager' \in [Modules -> ManagerState] /\ AllSupervised'
      BY <2>1, <2>11, GoesOn DEF InitDispatch, processVars, Starting
    <3>2. AlertType' /\ OneAlert'
      BY <2>1, <2>11 DEF InitDispatch, AlertType, sinkVars, OneAlert
    <3> QED
      BY <2>1, <2>5, <2>11, <3>1, <3>2 DEF InitDispatch, TypeOK, ManagerType
  <2>12. ASSUME NEW m \in Modules, ReceiveMessage(m) PROVE (TypeOK /\ AllSupervised /\ OneAlert)'
    <3> DEFINE msg == Head(stdout[m])
    <3>1. /\ stdout' \in [Modules -> Seq(Messages)] /\ msg \in Messages
          /\ Len(stdout'[m]) = Len(stdout[m]) - 1 /\ Len(stdout[m]) \in Nat \ {0}
          /\ \A d \in Modules : d # m => stdout'[d] = stdout[d]
      BY <2>2, <2>12, TakenAt DEF ReceiveMessage
    <3>2. ProcessType'
      <4>1. \A d \in Modules : Len(stdout'[d]) <= OutCap
        BY <2>2, <3>1, Capacities
      <4> QED
        BY <2>1, <2>12, <3>1, <4>1 DEF ReceiveMessage, ProcessType
    <3>3. AlertType' /\ OneAlert'
      BY <2>6, <2>12 DEF ReceiveMessage
    <3>4. /\ missed' \in [Modules -> 0..MaxMissed]
          /\ registered' \in [Modules -> {"none", "current", "earlier"}]
          /\ registered'[m] \in {"current", registered[m]}
          /\ \A d \in Modules : d # m => registered'[d] = registered[d]
      BY <2>1, <2>12, Capacities DEF ReceiveMessage, ManagerType
    <3>5. /\ manager' \in [Modules -> ManagerState]
          /\ \A d \in Modules : d # m => manager'[d] = manager[d]
          /\ manager'[m].pc \in {"alert", "kill", "select"}
          /\ manager'[m].pc # "alert" => manager'[m].hand = {}
          /\ \A a, b \in manager'[m].hand : a = b
      <4>1. CASE msg \in Alerts
        <5>1. {msg} \in SUBSET Alerts /\ manager' = [manager EXCEPT ![m] = [pc |-> "alert", hand |-> {msg}]]
          <6>1. msg.class = "alert"
            BY <4>1, MessageIs
          <6> QED
            BY <2>12, <4>1, <6>1 DEF ReceiveMessage
        <5> HIDE DEF msg
        <5>2. /\ manager' \in [Modules -> ManagerState]
              /\ manager'[m].pc = "alert" /\ manager'[m].hand = {msg}
              /\ \A d \in Modules : d # m => manager'[d] = manager[d]
          BY <2>1, <5>1, GoesTo
        <5> QED
          BY <5>2
      <4>2. CASE msg \notin Alerts /\ msg.class = "unknown"
        <5>1. manager' = [manager EXCEPT ![m] = [pc |-> "kill", hand |-> {}]]
          BY <2>12, <4>2 DEF ReceiveMessage
        <5>2. /\ manager' \in [Modules -> ManagerState]
              /\ manager'[m].pc = "kill" /\ manager'[m].hand = {}
              /\ \A d \in Modules : d # m => manager'[d] = manager[d]
          BY <2>1, <2>3, <5>1, GoesTo
        <5> QED
          BY <5>2
      <4>3. CASE msg \notin Alerts /\ msg.class # "unknown"
        <5>1. manager' = [manager EXCEPT ![m] = manager[m]]
          BY <2>12, <4>3 DEF ReceiveMessage
        <5>2. manager' = manager
          BY <2>1, <5>1 DEF ManagerType
        <5> QED
          BY <2>1, <2>4, <2>12, <5>2 DEF ManagerType, ReceiveMessage, At, Supervised
      <4> QED
        BY <4>1, <4>2, <4>3
    <3>6. Supervised(m)'
      <4>1. registered'[m] # "earlier"
        BY <2>4, <3>4 DEF Supervised
      <4> QED
        BY <3>5, <4>1 DEF Supervised, At, Starting
    <3>7. stdin' = stdin
      BY <2>12 DEF ReceiveMessage
    <3> QED
      BY <3>2, <3>3, <3>4, <3>5, <3>6, <3>7, OthersSupervised DEF TypeOK, ManagerType
  <2>13. ASSUME NEW m \in Modules, NEW a \in manager[m].hand, AlertHandler(m, a)
         PROVE  (TypeOK /\ AllSupervised /\ OneAlert)'
    <3>1. manager' \in [Modules -> ManagerState] /\ AllSupervised'
      BY <2>1, <2>13, GoesOn DEF AlertHandler, processVars, Starting
    <3>2. a \in Alerts
      BY <2>1 DEF ManagerType, ManagerState
    <3>3. alertChan' \in Seq(Alerts) /\ Len(alertChan') = Len(alertChan) + 1 /\ Len(alertChan) \in Nat
      BY <2>2, <2>13, <3>2, AppendRange, LenProperties DEF AlertHandler
    <3>4. AlertType' /\ OneAlert'
      BY <2>1, <2>13, <3>3, Capacities DEF AlertHandler, AlertType, sinkVars, OneAlert
    <3> QED
      BY <2>1, <2>5, <2>13, <3>1, <3>4 DEF AlertHandler, TypeOK, ManagerType
  <2>14. ASSUME NEW m \in Modules, TakeDispatch(m) PROVE (TypeOK /\ AllSupervised /\ OneAlert)'
    <3>1. /\ Head(dispatchChan) \in Alerts /\ dispatchChan' \in Seq(Alerts)
          /\ Len(dispatchChan') = Len(dispatchChan) - 1 /\ Len(dispatchChan) \in Nat \ {0}
      BY <2>2, <2>14, TailRange DEF TakeDispatch
    <3>2. PICK h \in SUBSET Alerts : h = {Head(dispatchChan)}
      BY <3>1
    <3>3. /\ manager' \in [Modules -> ManagerState]
          /\ manager'[m].pc = "forward" /\ manager'[m].hand = h
          /\ \A d \in Modules : d # m => manager'[d] = manager[d]
      BY <2>1, <2>14, <3>2, GoesTo DEF TakeDispatch
    <3>4. Supervised(m)'
      BY <2>4, <2>14, <3>2, <3>3 DEF Supervised, At, TakeDispatch, Starting
    <3>5. AllSupervised'
      BY <2>14, <3>3, <3>4, OthersSupervised DEF TakeDispatch, processVars
    <3>6. AlertType' /\ OneAlert'
      BY <2>1, <2>14, <3>1, Capacities DEF TakeDispatch, AlertType, sinkVars, OneAlert
    <3> QED
      BY <2>1, <2>5, <2>14, <3>3, <3>5, <3>6 DEF TakeDispatch, TypeOK, ManagerType
  <2>15. ASSUME NEW m \in Modules, NEW pc \in {"ping", "forward"}, NEW msg \in Messages, Write(m, pc, msg)
         PROVE  ProcessType' /\ manager' \in [Modules -> ManagerState] /\ AllSupervised' /\ AlertType' /\ OneAlert'
    <3>1. AlertType' /\ OneAlert'
      BY <2>6, <2>15 DEF Write
    <3>2. CASE /\ Len(stdin[m]) < InCap /\ stdin' = [stdin EXCEPT ![m] = Append(@, msg)]
               /\ Go(m, "select")
      <4>1. /\ stdin' \in [Modules -> Seq(Messages)] /\ Len(stdin'[m]) = Len(stdin[m]) + 1
            /\ \A d \in Modules : d # m => stdin'[d] = stdin[d]
        BY <2>2, <3>2, AppendedAt
      <4>2. /\ manager' \in [Modules -> ManagerState]
            /\ manager'[m].pc = "select" /\ manager'[m].hand = {}
            /\ \A d \in Modules : d # m => manager'[d] = manager[d]
        BY <2>1, <2>3, <3>2, GoesTo DEF Go
      <4>3. \A d \in Modules : Len(stdin'[d]) <= InCap
        BY <2>2, <2>3, <3>2, <4>1, Capacities
      <4>4. ProcessType'
        BY <2>1, <2>15, <4>1, <4>3 DEF ProcessType, Write
      <4>5. registered' = registered
        BY <2>15 DEF Write
      <4>6. Supervised(m)'
        BY <2>4, <4>2, <4>5 DEF Supervised, At, Starting
      <4> QED
        BY <3>1, <4>1, <4>2, <4>4, <4>5, <4>6, OthersSupervised
    <3>3. CASE Go(m, "dealloc") /\ UNCHANGED stdin
      <4>1. manager' \in [Modules -> ManagerState] /\ AllSupervised'
        BY <2>1, <2>15, <3>3, GoesOn DEF Write, Starting
      <4> QED
        BY <2>5, <2>15, <3>1, <3>3, <4>1 DEF Write, processVars
    <3> QED
      BY <2>15, <3>2, <3>3 DEF Write
  <2>16. ASSUME NEW m \in Modules, WritePing(m) PROVE (TypeOK /\ AllSupervised /\ OneAlert)'
    <3>1. Message("ping") \in Messages
      BY MessageIs
    <3>2. Write(m, "ping", Message("ping"))
      BY <2>16 DEF WritePing
    <3>3. registered' = registered /\ missed' \in [Modules -> 0..MaxMissed]
      BY <2>1, <2>16, Capacities DEF WritePing, Write, ManagerType
    <3> QED
      BY <2>1, <2>15, <3>1, <3>2, <3>3 DEF TypeOK, ManagerType
  <2>17. ASSUME NEW m \in Modules, WriteAlert(m) PROVE (TypeOK /\ AllSupervised /\ OneAlert)'
    <3>1. PICK a \in manager[m].hand : Write(m, "forward", a)
      BY <2>17 DEF WriteAlert
    <3>2. a \in Messages
      BY <2>1, MessageIs DEF ManagerType, ManagerState
    <3>3. UNCHANGED <<registered, missed>>
      BY <2>17, <3>1 DEF WriteAlert, Write
    <3> QED
      BY <2>1, <2>15, <3>1, <3>2, <3>3 DEF TypeOK, ManagerType
  <2>18. ASSUME NEW m \in Modules, KillModule(m) PROVE (TypeOK /\ AllSupervised /\ OneAlert)'
    <3>1. manager' \in [Modules -> ManagerState] /\ AllSupervised'
      BY <2>1, <2>18, GoesOn DEF KillModule, Starting
    <3>2. AlertType' /\ OneAlert'
      BY <2>6, <2>18 DEF KillModule
    <3>3. ProcessType'
      BY <2>1, <2>18 DEF KillModule, ProcessType
    <3> QED
      BY <2>1, <2>18, <3>1, <3>2, <3>3 DEF KillModule, TypeOK, ManagerType
  <2>19. ASSUME NEW m \in Modules, DispatchDealloc(m) PROVE (TypeOK /\ AllSupervised /\ OneAlert)'
    <3>1. /\ registered' \in [Modules -> {"none", "current", "earlier"}]
          /\ registered'[m] = "none" /\ \A d \in Modules : d # m => registered'[d] = registered[d]
      BY <2>1, <2>19, RemovedIs DEF DispatchDealloc
    <3>2. /\ manager' \in [Modules -> ManagerState]
          /\ manager'[m].pc = "delay" /\ manager'[m].hand = {}
          /\ \A d \in Modules : d # m => manager'[d] = manager[d]
      BY <2>1, <2>3, <2>19, GoesTo DEF DispatchDealloc, Go
    <3>3. Supervised(m)'
      BY <3>1, <3>2 DEF Supervised, At
    <3>4. AllSupervised'
      BY <2>19, <3>1, <3>2, <3>3, OthersSupervised DEF DispatchDealloc, processVars
    <3>5. open' \in BOOLEAN
      BY <2>19 DEF DispatchDealloc
    <3>6. dispatchChan' \in Seq(Alerts) /\ Len(dispatchChan') <= DispatchCap
      BY <2>1, <2>19, Capacities DEF DispatchDealloc, AlertType
    <3>7. AlertType' /\ OneAlert'
      BY <2>1, <2>19, <3>5, <3>6 DEF DispatchDealloc, AlertType, sinkVars, OneAlert
    <3> QED
      BY <2>1, <2>5, <2>19, <3>1, <3>2, <3>4, <3>7 DEF DispatchDealloc, TypeOK, ManagerType
  <2>20. CASE TakeAlert
    <3>1. /\ Head(alertChan) \in Alerts /\ alertChan' \in Seq(Alerts)
          /\ Len(alertChan') = Len(alertChan) - 1 /\ Len(alertChan) \in Nat \ {0}
      BY <2>2, <2>20, TailRange DEF TakeAlert
    <3>2. AlertType' /\ OneAlert'
      BY <2>1, <2>20, <3>1, Capacities DEF TakeAlert, Logged, AlertType, OneAlert
    <3> QED
      BY <2>1, <2>5, <2>7, <2>20, <3>2 DEF TakeAlert, processVars, managerVars, TypeOK, ManagerType
  <2>21. ASSUME NEW a \in processor, SendDispatch(a) PROVE (TypeOK /\ AllSupervised /\ OneAlert)'
    <3>1. /\ dispatchChan' \in Seq(Alerts) /\ Len(dispatchChan') = Len(dispatchChan) + 1
          /\ Len(dispatchChan) \in Nat
      BY <2>1, <2>2, <2>21, AppendRange, LenProperties DEF SendDispatch, AlertType
    <3>2. AlertType' /\ OneAlert'
      BY <2>1, <2>21, <3>1, Capacities DEF SendDispatch, Room, AlertType, sinkVars, OneAlert
    <3> QED
      BY <2>1, <2>5, <2>7, <2>21, <3>2 DEF SendDispatch, processVars, managerVars, TypeOK, ManagerType
  \* Steps of the processes: the goroutines stay where they are.
  <2>22. ASSUME ProcessType', AlertType', OneAlert', UNCHANGED managerVars,
                \A m \in Modules : stdin'[m] # stdin[m] => stdin[m] # <<>>
         PROVE  (TypeOK /\ AllSupervised /\ OneAlert)'
    <3>1. AllSupervised'
      BY <2>4, <2>22 DEF AllSupervised, Supervised, At, managerVars
    <3> QED
      BY <2>1, <2>22, <3>1 DEF TypeOK, ManagerType, managerVars
  <2>23. ASSUME NEW m \in Modules, NEW msg \in Messages, Len(stdout[m]) < OutCap,
                stdout' = [stdout EXCEPT ![m] = Append(@, msg)]
         PROVE  /\ stdout' \in [Modules -> Seq(Messages)]
                /\ \A d \in Modules : Len(stdout'[d]) <= OutCap
    <3>1. /\ stdout' \in [Modules -> Seq(Messages)] /\ Len(stdout'[m]) = Len(stdout[m]) + 1
          /\ \A d \in Modules : d # m => stdout'[d] = stdout[d]
      BY <2>2, <2>23, AppendedAt
    <3> QED
      BY <2>2, <2>3, <2>23, <3>1, Capacities
  <2>24. ASSUME NEW m \in Modules, Announce(m) PROVE (TypeOK /\ AllSupervised /\ OneAlert)'
    <3>1. ProcessType'
      BY <2>1, <2>23, <2>24, MessageIs DEF Announce, ProcessType
    <3> QED
      BY <2>6, <2>22, <2>24, <3>1 DEF Announce
  <2>25. ASSUME NEW m \in Modules, RaiseAlert(m) PROVE (TypeOK /\ AllSupervised /\ OneAlert)'
    <3>1. raised' \in 1..MaxAlerts
      BY <2>1, <2>25, Capacities DEF RaiseAlert, AlertType
    <3>2. Alert(raised') \in Messages
      BY <3>1, MessageIs
    <3>3. PICK msg \in Messages : msg = Alert(raised')
      BY <3>2
    <3>4. ProcessType'
      BY <2>1, <2>23, <2>25, <3>3 DEF RaiseAlert, ProcessType
    <3>5. AlertType' /\ OneAlert'
      BY <2>1, <2>25, <3>1, Capacities DEF RaiseAlert, AlertType, alertVars, sinkVars, OneAlert
    <3> QED
      BY <2>22, <2>25, <3>4, <3>5 DEF RaiseAlert
  <2>26. ASSUME NEW m \in Modules, stdin[m] # <<>>, stdin' = [stdin EXCEPT ![m] = Tail(@)]
         PROVE  /\ stdin' \in [Modules -> Seq(Messages)] /\ Head(stdin[m]) \in Messages
                /\ \A d \in Modules : Len(stdin'[d]) <= InCap /\ (stdin'[d] # stdin[d] => stdin[d] # <<>>)
    <3>1. /\ stdin' \in [Modules -> Seq(Messages)] /\ Len(stdin'[m]) = Len(stdin[m]) - 1
          /\ Head(stdin[m]) \in Messages /\ \A d \in Modules : d # m => stdin'[d] = stdin[d]
      BY <2>2, <2>26, TakenAt
    <3> QED
      BY <2>2, <2>3, <2>26, <3>1, Capacities
  <2>27. ASSUME NEW m \in Modules, HandleMessage(m) PROVE (TypeOK /\ AllSupervised /\ OneAlert)'
    <3>1. /\ stdin' \in [Modules -> Seq(Messages)]
          /\ \A d \in Modules : Len(stdin'[d]) <= InCap /\ (stdin'[d] # stdin[d] => stdin[d] # <<>>)
      BY <2>26, <2>27 DEF HandleMessage
    <3>2. /\ stdout' \in [Modules -> Seq(Messages)] /\ \A d \in Modules : Len(stdout'[d]) <= OutCap
      BY <2>2, <2>23, <2>27, MessageIs DEF HandleMessage
    <3>3. moduleMain' \in {"waiting", "given", "ready"}
      BY <2>1, <2>27 DEF HandleMessage, ProcessType
    <3>4. ProcessType'
      BY <2>1, <2>27, <3>1, <3>2, <3>3 DEF HandleMessage, ProcessType
    <3> QED
      BY <2>6, <2>22, <2>27, <3>1, <3>4 DEF HandleMessage
  <2>28. CASE ModuleMain
    <3>1. ProcessType'
      BY <2>1, <2>28 DEF ModuleMain, ProcessType
    <3> QED
      BY <2>6, <2>22, <2>28, <3>1 DEF ModuleMain
  <2>29. ASSUME NEW a \in Alerts, DispatchIn(a) PROVE (TypeOK /\ AllSupervised /\ OneAlert)'
    <3>1. /\ stdin' \in [Modules -> Seq(Messages)]
          /\ \A d \in Modules : Len(stdin'[d]) <= InCap /\ (stdin'[d] # stdin[d] => stdin[d] # <<>>)
      BY <2>26, <2>29, Capacities DEF DispatchIn
    <3>2. ProcessType'
      BY <2>1, <2>29, <3>1 DEF DispatchIn, ProcessType
    <3>3. /\ Append(messageBuf, a) \in Seq(Alerts) /\ Len(Append(messageBuf, a)) = Len(messageBuf) + 1
          /\ Len(messageBuf) \in Nat
      BY <2>2, AppendRange, LenProperties
    <3>4. messageBuf' \in Seq(Alerts) /\ Len(messageBuf') <= BufferCap /\ handled' \subseteq Alerts
      <4>1. CASE Len(messageBuf) < BufferCap /\ messageBuf' = Append(messageBuf, a) /\ UNCHANGED handled
        BY <2>1, <3>3, <4>1, Capacities DEF AlertType
      <4>2. CASE handled' = handled \union {a} /\ UNCHANGED messageBuf
        BY <2>1, <4>2 DEF AlertType
      <4> QED
        BY <2>29, <4>1, <4>2 DEF DispatchIn
    <3>5. AlertType' /\ OneAlert'
      BY <2>1, <2>29, <3>4 DEF DispatchIn, AlertType, alertVars, OneAlert
    <3> QED
      BY <2>22, <2>29, <3>1, <3>2, <3>5 DEF DispatchIn
  <2>30. CASE RunDispatch
    <3>1. /\ Head(messageBuf) \in Alerts /\ messageBuf' \in Seq(Alerts)
          /\ Len(messageBuf') = Len(messageBuf) - 1 /\ Len(messageBuf) \in Nat \ {0}
      BY <2>2, <2>30, TailRange DEF RunDispatch
    <3>2. AlertType' /\ OneAlert'
      BY <2>1, <2>30, <3>1, Capacities DEF RunDispatch, AlertType, alertVars, OneAlert
    <3> QED
      BY <2>5, <2>22, <2>30, <3>2 DEF RunDispatch, processVars
  <2>31. ASSUME NEW m \in Modules, ModuleFails(m) PROVE (TypeOK /\ AllSupervised /\ OneAlert)'
    <3>1. process' \in [Modules -> {"none", "up", "hung", "dead"}]
      BY <2>1, <2>31 DEF ModuleFails, ProcessType
    <3>2. stdout' \in [Modules -> Seq(Messages)] /\ \A d \in Modules : Len(stdout'[d]) <= OutCap
      BY <2>2, <2>23, <2>31, MessageIs DEF ModuleFails
    <3>3. ProcessType'
      BY <2>1, <2>31, <3>1, <3>2 DEF ModuleFails, ProcessType
    <3> QED
      BY <2>6, <2>22, <2>31, <3>3 DEF ModuleFails
  <2>32. CASE UNCHANGED vars
    <3>1. UNCHANGED <<processVars, managerVars, raised, alertVars, sinkVars, faults>>
      BY <2>32 DEF vars
    <3> QED
      BY <2>5, <2>6, <2>22, <3>1 DEF processVars
  <2> QED
    BY <2>8, <2>9, <2>10, <2>11, <2>12, <2>13, <2>14, <2>16, <2>17, <2>18, <2>19, <2>20, <2>21, <2>24,
       <2>25, <2>27, <2>28, <2>29, <2>30, <2>31, <2>32
       DEF Next, Supervise, Select, AlertProcessor, Module, DispatchModule
<1> QED
  BY <1>1, <1>2, PTL DEF Spec

(* The goroutines, channels and pipes of the persistent modules.                *)
THEOREM TypeCorrect == Spec => []TypeOK
BY Kept, PTL

(* persistModRegister never gives the socket of a process that has been replaced:   *)
(* every way out of managePersistModule's select forgets the socket before a new     *)
(* process is started.                                                               *)
THEOREM SocketsAreCurrent == Spec => []RegisteredIsCurrent
<1>1. TypeOK /\ AllSupervised => RegisteredIsCurrent
  BY DEF AllSupervised, Supervised, RegisteredIsCurrent
<1> QED
  BY <1>1, Kept, PTL

(* alertProcessor keeps the lock from finding dispatchChan in place until it has sent: *)
(* dispatchDealloc never closes the channel in between, so the send never panics.       *)
THEOREM SendsOnOpen == Spec => []DispatchIsOpen
<1>1. Init => DispatchIsOpen
  BY DEF Init, DispatchIsOpen
<1>2. DispatchIsOpen /\ [Next]_vars => DispatchIsOpen'
  <2> SUFFICES ASSUME DispatchIsOpen, [Next]_vars PROVE DispatchIsOpen'
    OBVIOUS
  <2>1. CASE UNCHANGED <<processor, open>>
    BY <2>1 DEF DispatchIsOpen
  <2>2. ASSUME NEW m \in Modules, InitDispatch(m) PROVE DispatchIsOpen'
    BY <2>2 DEF InitDispatch, DispatchIsOpen
  <2>3. ASSUME NEW m \in Modules, DispatchDealloc(m) PROVE DispatchIsOpen'
    <3>1. CASE m = Dispatch
      BY <2>3, <3>1 DEF DispatchDealloc, LockFree, DispatchIsOpen
    <3>2. CASE m # Dispatch
      BY <2>3, <3>2 DEF DispatchDealloc, DispatchIsOpen
    <3> QED
      BY <3>1, <3>2
  <2>4. CASE TakeAlert
    BY <2>4 DEF TakeAlert, DispatchIsOpen
  <2>5. ASSUME NEW a \in processor, SendDispatch(a) PROVE DispatchIsOpen'
    BY <2>5 DEF SendDispatch, DispatchIsOpen
  <2>6. ASSUME NEW m \in Modules,
               \/ StartModule(m) \/ Delay(m) \/ WriteConfig(m) \/ WritePing(m) \/ WriteAlert(m)
               \/ KillModule(m) \/ Select(m) \/ StartFails(m) \/ KillFails(m)
               \/ \E a \in manager[m].hand : AlertHandler(m, a)
        PROVE  DispatchIsOpen'
    <3>1. UNCHANGED <<processor, open>>
      BY <2>6 DEF StartModule, Delay, WriteConfig, WritePing, WriteAlert, Write, KillModule, Select,
         ReceiveMessage, ModuleDown, TakeDispatch, PingTick, StartFails, KillFails, AlertHandler, alertVars
    <3> QED
      BY <2>1, <3>1
  <2>7. ASSUME NEW m \in Modules, Module(m) \/ ModuleFails(m) \/ RaiseAlert(m) PROVE DispatchIsOpen'
    <3>1. UNCHANGED <<processor, open>>
      BY <2>7 DEF Module, Announce, HandleMessage, ModuleFails, RaiseAlert, alertVars
    <3> QED
      BY <2>1, <3>1
  <2>8. CASE DispatchModule
    <3>1. UNCHANGED <<processor, open>>
      BY <2>8 DEF DispatchModule, ModuleMain, RunDispatch, DispatchIn, alertVars
    <3> QED
      BY <2>1, <3>1
  <2>9. CASE UNCHANGED vars
    BY <2>1, <2>9 DEF vars, alertVars
  <2> QED
    BY <2>2, <2>3, <2>4, <2>5, <2>6, <2>7, <2>8, <2>9 DEF Next, Supervise, AlertProcessor
<1> QED
  BY <1>1, <1>2, PTL DEF Spec

--------------------------------------------------------------------------------
(* Where the alerts are.                                                      *)

(* What the pipes hold after a write, ...                                      *)
LEMMA Written ==
  ASSUME ProcessType, NEW m \in Modules, NEW msg \in Messages
  PROVE  /\ stdin' = [stdin EXCEPT ![m] = Append(@, msg)] =>
              /\ Range(stdin'[m]) = Range(stdin[m]) \union {msg}
              /\ \A d \in Modules : d # m => stdin'[d] = stdin[d]
         /\ stdout' = [stdout EXCEPT ![m] = Append(@, msg)] =>
              /\ Range(stdout'[m]) = Range(stdout[m]) \union {msg}
              /\ \A d \in Modules : d # m => stdout'[d] = stdout[d]
<1>1. /\ stdin \in [Modules -> Seq(Messages)] /\ stdout \in [Modules -> Seq(Messages)]
      /\ stdin[m] \in Seq(Messages) /\ stdout[m] \in Seq(Messages)
  BY DEF ProcessType
<1>2. Range(Append(stdin[m], msg)) = Range(stdin[m]) \union {msg}
  BY <1>1, AppendRange
<1>3. Range(Append(stdout[m], msg)) = Range(stdout[m]) \union {msg}
  BY <1>1, AppendRange
<1> QED
  BY <1>1, <1>2, <1>3

(* ... and before a read.                                                      *)
LEMMA Read ==
  ASSUME ProcessType, NEW m \in Modules
  PROVE  /\ stdin[m] # <<>> /\ stdin' = [stdin EXCEPT ![m] = Tail(@)] =>
              /\ Range(stdin[m]) = {Head(stdin[m])} \union Range(stdin'[m])
              /\ \A d \in Modules : d # m => stdin'[d] = stdin[d]
         /\ stdout[m] # <<>> /\ stdout' = [stdout EXCEPT ![m] = Tail(@)] =>
              /\ Range(stdout[m]) = {Head(stdout[m])} \union Range(stdout'[m])
              /\ \A d \in Modules : d # m => stdout'[d] = stdout[d]
<1>1. /\ stdin \in [Modules -> Seq(Messages)] /\ stdout \in [Modules -> Seq(Messages)]
      /\ stdin[m] \in Seq(Messages) /\ stdout[m] \in Seq(Messages)
  BY DEF ProcessType
<1>2. stdin[m] # <<>> => Range(stdin[m]) = {Head(stdin[m])} \union Range(Tail(stdin[m]))
  BY <1>1, TailRange
<1>3. stdout[m] # <<>> => Range(stdout[m]) = {Head(stdout[m])} \union Range(Tail(stdout[m]))
  BY <1>1, TailRange
<1> QED
  BY <1>1, <1>2, <1>3

(* An alert that a module has raised ends in the log or with dispatch, which sends   *)
(* it on or drops it, unless the process it is in, or that it is meant for, is         *)
(* replaced: no step of the goroutines loses or forgets it.                           *)
THEOREM AlertsAccounted == Spec => AlertIsAccounted
<1>1. TypeOK /\ AllSupervised /\ OneAlert /\ [Next]_vars =>
        [\A a \in Alerts : InTransit(a) /\ ~ InTransit(a)' =>
           \/ a \in handled'
           \/ \E m \in Modules :
                /\ manager[m] # manager'[m]
                /\ At(m, "start") \/ At(m, "dealloc") \/ (At(m, "forward") /\ process[m] = "dead")]_vars
  <2> SUFFICES ASSUME TypeOK, AllSupervised, OneAlert, Next, NEW a \in Alerts, InTransit(a),
                      ~ InTransit(a)', a \notin handled',
                      \A m \in Modules :
                        At(m, "start") \/ At(m, "dealloc") \/ (At(m, "forward") /\ process[m] = "dead") =>
                          manager[m] = manager'[m]
               PROVE  FALSE
    OBVIOUS
  <2>1. ProcessType /\ ManagerType /\ AlertType
    BY DEF TypeOK
  <2>2. /\ stdin \in [Modules -> Seq(Messages)] /\ stdout \in [Modules -> Seq(Messages)]
        /\ alertChan \in Seq(Alerts) /\ dispatchChan \in Seq(Alerts) /\ messageBuf \in Seq(Alerts)
    BY <2>1 DEF ProcessType, AlertType
  <2>3. {} \in SUBSET Alerts
    OBVIOUS
  <2>4. /\ \A m \in Modules : /\ a \notin manager'[m].hand /\ a \notin Range(stdin'[m])
                              /\ a \notin Range(stdout'[m])
        /\ a \notin processor' /\ a \notin Range(alertChan') /\ a \notin Range(dispatchChan')
        /\ a \notin Range(messageBuf')
    BY DEF InTransit
  \* If no place that has the alert is left by it there is nothing to show.
  <2>5. ASSUME \A m \in Modules : /\ a \notin manager[m].hand
                                  /\ a \notin Range(stdin[m]) /\ a \notin Range(stdout[m]),
               a \notin processor, a \notin Range(alertChan), a \notin Range(dispatchChan),
               a \notin Range(messageBuf)
        PROVE  FALSE
    BY <2>5 DEF InTransit
  <2>6. ASSUME NEW m \in Modules, manager[m].pc \notin {"alert", "forward"},
               NEW pc \in {"start", "delay", "config", "init", "select", "ping", "kill", "dealloc", "gone"},
               Go(m, pc)
        PROVE  \A d \in Modules : a \notin manager[d].hand
    <3>1. \A d \in Modules : d # m => manager'[d] = manager[d]
      BY <2>1, <2>3, <2>6, GoesTo DEF Go
    <3>2. manager[m].hand = {}
      BY <2>6 DEF AllSupervised, Supervised
    <3> QED
      BY <2>4, <3>1, <3>2
  <2>7. ASSUME NEW m \in Modules, StartModule(m) PROVE FALSE
    <3>1. manager'[m].pc = "config"
      BY <2>1, <2>3, <2>7, GoesTo DEF StartModule, Go
    <3> QED
      BY <2>7, <3>1 DEF StartModule, At
  <2>8. ASSUME NEW m \in Modules, StartFails(m) \/ Delay(m) \/ ModuleDown(m) \/ PingTick(m) \/ KillFails(m)
        PROVE  FALSE
    <3>1. /\ manager[m].pc \in {"start", "delay", "select", "kill"}
          /\ Go(m, "start") \/ Go(m, "delay") \/ Go(m, "dealloc") \/ Go(m, "kill") \/ Go(m, "ping") \/ Go(m, "gone")
          /\ UNCHANGED <<stdin, stdout, alertChan, processor, dispatchChan, messageBuf>>
      BY <2>8 DEF StartFails, Delay, ModuleDown, PingTick, KillFails, At, processVars, alertVars, sinkVars
    <3>2. \A d \in Modules : a \notin manager[d].hand
      BY <2>6, <3>1
    <3> QED
      BY <2>4, <2>5, <3>1, <3>2
  <2>9. ASSUME NEW m \in Modules, WriteConfig(m) PROVE FALSE
    <3>1. /\ manager[m].pc = "config"
          /\ Go(m, "init") \/ Go(m, "select") \/ Go(m, "delay")
          /\ UNCHANGED <<stdout, alertChan, processor, dispatchChan, messageBuf>>
      BY <2>9 DEF WriteConfig, At, alertVars, sinkVars
    <3>2. \A d \in Modules : a \notin manager[d].hand
      BY <2>6, <3>1
    <3>3. \A d \in Modules : a \notin Range(stdin[d])
      <4>1. CASE stdin' = [stdin EXCEPT ![m] = Append(@, Message("config"))]
        <5>1. /\ Range(stdin'[m]) = Range(stdin[m]) \union {Message("config")}
              /\ \A d \in Modules : d # m => stdin'[d] = stdin[d]
          BY <2>1, <4>1, MessageIs, Written
        <5> QED
          BY <2>4, <5>1
      <4> QED
        BY <2>4, <2>9, <4>1 DEF WriteConfig
    <3> QED
      BY <2>4, <2>5, <3>1, <3>2, <3>3
  <2>10. ASSUME NEW m \in Modules, InitDispatch(m) PROVE FALSE
    <3>1. /\ manager[m].pc = "init" /\ Go(m, "select")
          /\ UNCHANGED <<stdin, stdout, alertChan, processor, dispatchChan, messageBuf>>
      BY <2>10 DEF InitDispatch, At, processVars, sinkVars
    <3>2. \A d \in Modules : a \notin manager[d].hand
      BY <2>6, <3>1
    <3> QED
      BY <2>4, <2>5, <3>1, <3>2
  <2>11. ASSUME NEW m \in Modules, ReceiveMessage(m) PROVE FALSE
    <3> DEFINE msg == Head(stdout[m])
    <3>1. /\ manager[m].pc = "select" /\ stdout' = [stdout EXCEPT ![m] = Tail(@)] /\ stdout[m] # <<>>
          /\ UNCHANGED <<stdin, alertChan, processor, dispatchChan, messageBuf>>
      BY <2>11 DEF ReceiveMessage, At, alertVars, sinkVars
    <3>2. manager[m].hand = {}
      BY <3>1 DEF AllSupervised, Supervised
    <3>3. \A d \in Modules : d # m => manager'[d] = manager[d]
      BY <2>1, <2>11 DEF ReceiveMessage, ManagerType
    <3>4. msg # a
      <4> SUFFICES ASSUME msg = a PROVE FALSE
        OBVIOUS
      <4>1. manager' = [manager EXCEPT ![m] = [pc |-> "alert", hand |-> {a}]]
        <5>1. msg \in Alerts /\ msg.class = "alert"
          BY MessageIs
        <5> QED
          BY <2>11, <5>1 DEF ReceiveMessage
      <4>2. a \in manager'[m].hand
        BY <2>1, <4>1 DEF ManagerType
      <4> QED
        BY <2>4, <4>2
    <3>5. \A d \in Modules : a \notin Range(stdout[d])
      <4>1. /\ Range(stdout[m]) = {msg} \union Range(stdout'[m])
            /\ \A d \in Modules : d # m => stdout'[d] = stdout[d]
        BY <2>1, <3>1, Read
      <4> QED
        BY <2>4, <3>4, <4>1
    <3> QED
      BY <2>4, <2>5, <3>1, <3>2, <3>3, <3>5
  \* A goroutine that passes on the alert in its hand has no other one.
  <2>12. ASSUME NEW m \in Modules, NEW b \in manager[m].hand, b # a,
                NEW pc \in {"select", "dealloc"}, Go(m, pc)
         PROVE  \A d \in Modules : a \notin manager[d].hand
    <3>1. \A d \in Modules : d # m => manager'[d] = manager[d]
      BY <2>1, <2>3, <2>12, GoesTo DEF Go
    <3>2. a \notin manager[m].hand
      BY <2>12 DEF AllSupervised, Supervised
    <3> QED
      BY <2>4, <3>1, <3>2
  <2>13. ASSUME NEW m \in Modules, NEW b \in manager[m].hand, AlertHandler(m, b) PROVE FALSE
    <3>1. /\ alertChan' = Append(alertChan, b) /\ Go(m, "select")
          /\ UNCHANGED <<stdin, stdout, processor, dispatchChan, messageBuf>>
      BY <2>13 DEF AlertHandler, processVars, sinkVars
    <3>2. b \in Alerts
      BY <2>1 DEF ManagerType, ManagerState
    <3>3. Range(alertChan') = Range(alertChan) \union {b}
      BY <2>2, <3>1, <3>2, AppendRange
    <3>4. \A d \in Modules : a \notin manager[d].hand
      BY <2>4, <2>12, <3>1, <3>3
    <3> QED
      BY <2>4, <2>5, <3>1, <3>3, <3>4
  <2>14. ASSUME NEW m \in Modules, TakeDispatch(m) PROVE FALSE
    <3>1. /\ manager[m].pc = "select" /\ dispatchChan # <<>> /\ dispatchChan' = Tail(dispatchChan)
          /\ manager' = [manager EXCEPT ![m] = [pc |-> "forward", hand |-> {Head(dispatchChan)}]]
          /\ UNCHANGED <<stdin, stdout, alertChan, processor, messageBuf>>
      BY <2>14 DEF TakeDispatch, At, processVars, sinkVars
    <3>2. manager[m].hand = {}
      BY <3>1 DEF AllSupervised, Supervised
    <3>3. Range(dispatchChan) = {Head(dispatchChan)} \union Range(dispatchChan')
      BY <2>2, <3>1, TailRange
    <3>4. manager'[m].hand = {Head(dispatchChan)} /\ \A d \in Modules : d # m => manager'[d] = manager[d]
      BY <2>1, <3>1 DEF ManagerType
    <3> QED
      BY <2>4, <2>5, <3>1, <3>2, <3>3, <3>4
  <2>15. ASSUME NEW m \in Modules, WritePing(m) PROVE FALSE
    <3>1. /\ manager[m].pc = "ping"
          /\ Go(m, "select") \/ Go(m, "dealloc")
          /\ UNCHANGED <<stdout, alertChan, processor, dispatchChan, messageBuf>>
          /\ stdin' = [stdin EXCEPT ![m] = Append(@, Message("ping"))] \/ stdin' = stdin
      BY <2>15 DEF WritePing, Write, At, alertVars, sinkVars
    <3>2. \A d \in Modules : a \notin manager[d].hand
      BY <2>6, <3>1
    <3>3. \A d \in Modules : a \notin Range(stdin[d])
      <4>1. CASE stdin' = [stdin EXCEPT ![m] = Append(@, Message("ping"))]
        <5>1. /\ Range(stdin'[m]) = Range(stdin[m]) \union {Message("ping")}
              /\ \A d \in Modules : d # m => stdin'[d] = stdin[d]
          BY <2>1, <4>1, MessageIs, Written
        <5> QED
          BY <2>4, <5>1
      <4> QED
        BY <2>4, <3>1, <4>1
    <3> QED
      BY <2>4, <2>5, <3>1, <3>2, <3>3
  <2>16. ASSUME NEW m \in Modules, WriteAlert(m) PROVE FALSE
    <3>1. PICK b \in manager[m].hand : Write(m, "forward", b)
      BY <2>16 DEF WriteAlert
    <3>2. UNCHANGED <<stdout, alertChan, processor, dispatchChan, messageBuf>>
      BY <3>1 DEF Write, alertVars, sinkVars
    <3>3. b \in Messages
      BY <2>1, MessageIs DEF ManagerType, ManagerState
    <3>4. CASE stdin' = [stdin EXCEPT ![m] = Append(@, b)] /\ Go(m, "select")
      <4>1. Range(stdin'[m]) = Range(stdin[m]) \union {b} /\ \A d \in Modules : d # m => stdin'[d] = stdin[d]
        BY <2>1, <3>3, <3>4, Written
      <4>2. \A d \in Modules : a \notin manager[d].hand
        BY <2>4, <2>12, <3>4, <4>1
      <4> QED
        BY <2>4, <2>5, <3>2, <4>1, <4>2
    <3>5. CASE process[m] = "dead" /\ Go(m, "dealloc")
      <4>1. manager'[m].pc = "dealloc"
        BY <2>1, <2>3, <3>5, GoesTo DEF Go
      <4> QED
        BY <3>1, <3>5, <4>1 DEF Write, At
    <3> QED
      BY <3>1, <3>4, <3>5 DEF Write
  <2>17. ASSUME NEW m \in Modules, KillModule(m) PROVE FALSE
    <3>1. /\ manager[m].pc = "kill" /\ Go(m, "dealloc")
          /\ UNCHANGED <<stdin, stdout, alertChan, processor, dispatchChan, messageBuf>>
      BY <2>17 DEF KillModule, At, alertVars, sinkVars
    <3>2. \A d \in Modules : a \notin manager[d].hand
      BY <2>6, <3>1
    <3> QED
      BY <2>4, <2>5, <3>1, <3>2
  <2>18. ASSUME NEW m \in Modules, DispatchDealloc(m) PROVE FALSE
    <3>1. manager'[m].pc = "delay"
      BY <2>1, <2>3, <2>18, GoesTo DEF DispatchDealloc, Go
    <3> QED
      BY <2>18, <3>1 DEF DispatchDealloc, At
  <2>19. CASE TakeAlert
    <3>1. /\ Range(alertChan) = {Head(alertChan)} \union Range(alertChan')
          /\ UNCHANGED <<manager, stdin, stdout, dispatchChan, messageBuf>> /\ processor = {}
          /\ Head(alertChan) \in processor' \/ Head(alertChan) \in handled'
      BY <2>2, <2>19, TailRange DEF TakeAlert, Logged, processVars, managerVars
    <3> QED
      BY <2>4, <2>5, <3>1
  <2>20. ASSUME NEW b \in processor, SendDispatch(b) PROVE FALSE
    <3>1. /\ Range(dispatchChan') = Range(dispatchChan) \union {b}
          /\ UNCHANGED <<manager, stdin, stdout, alertChan, messageBuf>>
      BY <2>1, <2>2, <2>20, AppendRange DEF SendDispatch, AlertType, processVars, managerVars, sinkVars
    <3>2. a \notin processor
      BY <2>4, <3>1 DEF OneAlert
    <3> QED
      BY <2>4, <2>5, <3>1, <3>2
  \* A process only adds to its standard output.
  <2>21. ASSUME NEW m \in Modules, NEW msg \in Messages,
                stdout' = [stdout EXCEPT ![m] = Append(@, msg)]
         PROVE  \A d \in Modules : a \notin Range(stdout[d])
    <3>1. Range(stdout'[m]) = Range(stdout[m]) \union {msg} /\ \A d \in Modules : d # m => stdout'[d] = stdout[d]
      BY <2>1, <2>21, Written
    <3> QED
      BY <2>4, <3>1
  <2>22. ASSUME NEW m \in Modules, Announce(m) \/ ModuleFails(m) PROVE FALSE
    <3>1. UNCHANGED <<manager, stdin, alertChan, processor, dispatchChan, messageBuf>>
      BY <2>22 DEF Announce, ModuleFails, managerVars, alertVars, sinkVars
    <3>2. \/ stdout' = stdout \/ stdout' = [stdout EXCEPT ![m] = Append(@, Message("register"))]
          \/ stdout' = [stdout EXCEPT ![m] = Append(@, Message("unknown"))]
      BY <2>22 DEF Announce, ModuleFails
    <3>3. \A d \in Modules : a \notin Range(stdout[d])
      BY <2>4, <2>21, <3>2, MessageIs
    <3> QED
      BY <2>4, <2>5, <3>1, <3>3
  <2>23. ASSUME NEW m \in Modules, RaiseAlert(m) PROVE FALSE
    <3>1. raised' \in 1..MaxAlerts
      BY <2>1, <2>23, Capacities DEF RaiseAlert, AlertType
    <3>2. PICK msg \in Messages : msg = Alert(raised')
      BY <3>1, MessageIs
    <3>3. UNCHANGED <<manager, stdin, alertChan, processor, dispatchChan, messageBuf>>
      BY <2>23 DEF RaiseAlert, managerVars, alertVars, sinkVars
    <3>4. \A d \in Modules : a \notin Range(stdout[d])
      BY <2>21, <2>23, <3>2 DEF RaiseAlert
    <3> QED
      BY <2>4, <2>5, <3>3, <3>4
  <2>24. ASSUME NEW m \in Modules, stdin[m] # <<>>, stdin' = [stdin EXCEPT ![m] = Tail(@)],
                Head(stdin[m]) # a
         PROVE  \A d \in Modules : a \notin Range(stdin[d])
    <3>1. /\ Range(stdin[m]) = {Head(stdin[m])} \union Range(stdin'[m])
          /\ \A d \in Modules : d # m => stdin'[d] = stdin[d]
      BY <2>1, <2>24, Read
    <3> QED
      BY <2>4, <2>24, <3>1
  <2>25. ASSUME NEW m \in Modules, HandleMessage(m) PROVE FALSE
    <3>1. UNCHANGED <<manager, alertChan, processor, dispatchChan, messageBuf>>
      BY <2>25 DEF HandleMessage, managerVars, alertVars, sinkVars
    <3>2. \A d \in Modules : a \notin Range(stdin[d])
      BY <2>24, <2>25 DEF HandleMessage
    <3>3. stdout' = stdout \/ stdout' = [stdout EXCEPT ![m] = Append(@, Message("ping"))]
      BY <2>25 DEF HandleMessage
    <3>4. \A d \in Modules : a \notin Range(stdout[d])
      BY <2>4, <2>21, <3>3, MessageIs
    <3> QED
      BY <2>4, <2>5, <3>1, <3>2, <3>4
  <2>26. CASE ModuleMain
    BY <2>4, <2>5, <2>26 DEF ModuleMain, managerVars, alertVars, sinkVars
  <2>27. ASSUME NEW b \in Alerts, DispatchIn(b) PROVE FALSE
    <3>1. UNCHANGED <<manager, stdout, alertChan, processor, dispatchChan>>
      BY <2>27 DEF DispatchIn, managerVars, alertVars
    <3>2. Range(Append(messageBuf, b)) = Range(messageBuf) \union {b}
      BY <2>2, AppendRange
    <3>3. b # a /\ a \notin Range(messageBuf)
      BY <2>4, <2>27, <3>2 DEF DispatchIn
    <3>4. \A d \in Modules : a \notin Range(stdin[d])
      BY <2>24, <2>27, <3>3, Capacities DEF DispatchIn
    <3> QED
      BY <2>4, <2>5, <3>1, <3>3, <3>4
  <2>28. CASE RunDispatch
    <3>1. /\ UNCHANGED <<manager, stdin, stdout, alertChan, processor, dispatchChan>>
          /\ Range(messageBuf) = {Head(messageBuf)} \union Range(messageBuf')
          /\ Head(messageBuf) \in handled'
      BY <2>2, <2>28, TailRange DEF RunDispatch, processVars, managerVars, alertVars
    <3> QED
      BY <2>4, <2>5, <3>1
  <2> QED
    BY <2>7, <2>8, <2>9, <2>10, <2>11, <2>13, <2>14, <2>15, <2>16, <2>17, <2>18, <2>19, <2>20, <2>22,
       <2>23, <2>25, <2>26, <2>27, <2>28
       DEF Next, Supervise, Select, AlertProcessor, Module, DispatchModule
<1> QED
  BY <1>1, Kept, PTL DEF Spec, AlertIsAccounted

================================================================================
