----------------------------- MODULE AgentRegistry -----------------------------
(******************************************************************************)
(* The table of agents, for the agents of one endpoint.                       *)
(*                                                                            *)
(* Heartbeats create and refresh the rows: handlers of the API, or goroutines   *)
(* of the scheduler for agents that still send heartbeats over the relay.  The  *)
(* periodic routine marks the rows of silent agents idle and then offline and   *)
(* looks for endpoints with several agents; killDupAgents orders the            *)
(* destruction of duplicates; QueuesCleanup deletes the relay queue of an       *)
(* endpoint that has disappeared.  Each reads the table in one query and writes *)
(* it in another.                                                               *)
(*                                                                            *)
(* No query relates rows of two endpoints.  Row i is the i-th row inserted;     *)
(* starttime is taken when a row is inserted, or when the heartbeat that        *)
(* replaces a refreshed row is made, so that rows are also in the order of      *)
(* starttime.                                                                   *)
(******************************************************************************)
EXTENDS Naturals, FiniteSets, Sequences, FiniteSetsExt

CONSTANTS
  Pids,        \* the agent processes that may run on the endpoint
  Legacy,      \* those that send heartbeats over the relay, not through the API
  MaxBusy,     \* bound on the heartbeats that are being handled at once
  KillDup,     \* the parameter killdupagents of the scheduler
  Cleanup,     \* whether QueuesCleanup runs in the time considered
  MaxRows,     \* bound on the rows of the endpoint
  MaxRefresh,  \* bound on the times that an agent refreshes its environment
  MaxAge       \* bound on the age of heartbeats (see Ages)

ASSUME AgentRegistryAssumption ==
  /\ Legacy \subseteq Pids
  /\ MaxBusy \in Nat /\ MaxRows \in Nat /\ MaxRefresh \in Nat
  /\ MaxAge \in 0..2
  /\ KillDup \in BOOLEAN /\ Cleanup \in BOOLEAN

Statuses == {"online", "idle", "offline", "destroyed"}

(* How old heartbeattime is: less than HeartbeatFreq, less than TimeOut (where    *)
(* the periodic routine, which looks for rows of five times HeartbeatFreq, may     *)
(* come any time), or more.                                                        *)
Fresh == 0
Silent == 1
Gone == 2
Ages == Fresh..Gone

Rows == [pid : Pids, status : Statuses, age : Ages, refresh : 0..MaxRefresh]

HandlerIdle == [pc |-> "idle", refresh |-> 0, id |-> 0, dup |-> FALSE]
KillerIdle == [pc |-> "idle", found |-> {}, todo |-> {}]

VARIABLES
  started,    \* processes that have been started
  alive,      \* processes that are running
  listening,  \* processes that consume from the queue of the endpoint
  env,        \* env[p]: how often agent p has refreshed its environment
  queue,      \* whether the queue of the endpoint exists
  rows,       \* the rows of the endpoint in the table agents
  handler,    \* handler[p]: the handler of a heartbeat of agent p
  periodic,   \* where the periodic routine is
  killer,     \* where killDupAgents is, and the agents that its query returned
  orders,     \* processes for which a kill action is in the spool
  cleanup     \* where QueuesCleanup is

processVars == <<started, alive, listening, env>>
vars == <<processVars, queue, rows, handler, periodic, killer, orders, cleanup>>

Init ==
  /\ started = {} /\ alive = {} /\ listening = {}
  /\ env = [p \in Pids |-> 0]
  /\ queue = FALSE
  /\ rows = <<>>
  /\ handler = [p \in Pids |-> HandlerIdle]
  /\ periodic = "idle"
  /\ killer = KillerIdle
  /\ orders = {}
  /\ cleanup = "idle"

--------------------------------------------------------------------------------
(* The agents.                                                                *)

(* An agent starts: it declares the queue of its endpoint and consumes from it. *)
StartAgent(p) ==
  /\ p \notin started
  /\ started' = started \union {p}
  /\ alive' = alive \union {p}
  /\ listening' = listening \union {p}
  /\ queue' = TRUE
  /\ UNCHANGED <<env, rows, handler, periodic, killer, orders, cleanup>>

(* An agent ends by itself.                                                   *)
EndAgent(p) ==
  /\ p \in alive
  /\ alive' = alive \ {p}
  /\ listening' = listening \ {p}
  /\ UNCHANGED <<started, env, queue, rows, handler, periodic, killer, orders, cleanup>>

(* Of the agents that use the API the refresh time makes no difference.        *)
RefreshEnvironment(p) ==
  /\ p \in alive \intersect Legacy
  /\ env[p] < MaxRefresh
  /\ env' = [env EXCEPT ![p] = @ + 1]
  /\ UNCHANGED <<started, alive, listening, queue, rows, handler, periodic, killer, orders, cleanup>>

(* The kill action for agent p, which targets the queue, has been scheduled for  *)
(* a row that is online or idle, and agent q receives the command: it kills p,   *)
(* unless it is p.                                                               *)
DestroyAgent(p, q) ==
  /\ p \in orders
  /\ q \in listening
  /\ \E i \in DOMAIN rows : rows[i].status \in {"online", "idle"}
  /\ orders' = orders \ {p}
  /\ alive' = IF p = q THEN alive ELSE alive \ {p}
  /\ listening' = IF p = q THEN listening ELSE listening \ {p}
  /\ UNCHANGED <<started, env, queue, rows, handler, periodic, killer, cleanup>>

(* A kill action expires, or has no agent to go to.                            *)
ExpireOrder(p) ==
  /\ p \in orders
  /\ orders' = orders \ {p}
  /\ UNCHANGED <<processVars, queue, rows, handler, periodic, killer, cleanup>>

(* Time passes for the heartbeat of a row.  A run of killDupAgents takes seconds, *)
(* and TimeOut is hours: an agent that the run found fresh does not reach TimeOut *)
(* before the run ends.  Of a row that is offline or destroyed no routine asks    *)
(* more than whether it is fresh.                                                 *)
Older(i) ==
  /\ rows[i].age < MaxAge
  /\ rows[i].age = Silent => i \notin {a.id : a \in killer.found}
  /\ rows[i].age # Fresh => rows[i].status \in {"online", "idle"}
  /\ rows' = [rows EXCEPT ![i].age = @ + 1]
  /\ UNCHANGED <<processVars, queue, handler, periodic, killer, orders, cleanup>>

--------------------------------------------------------------------------------
(* Heartbeats.                                                                *)

handlerUnchanged == <<processVars, queue, periodic, orders, cleanup>>

(* The agent sends a heartbeat, and its handling begins.  An agent sends the      *)
(* next heartbeat when the last one is answered.                                  *)
Heartbeat(p) ==
  /\ p \in alive
  /\ handler[p].pc = "idle"
  /\ Cardinality({q \in Pids : handler[q].pc # "idle"}) < MaxBusy
  /\ handler' = [handler EXCEPT ![p] = [HandlerIdle EXCEPT !.pc = "lookup", !.refresh = env[p]]]
  /\ UNCHANGED <<handlerUnchanged, rows, killer>>

(* After the row is written, or not, the scheduler passes an agent that it had    *)
(* found marked as destroyed to killDupAgents.                                    *)
Written(h) == IF h.dup THEN [HandlerIdle EXCEPT !.pc = "notify"] ELSE HandlerIdle

(* A heartbeat that is not valid, has expired or whose agent is not authorized   *)
(* is discarded; so is one that the database refuses.                            *)
DropHeartbeat(p) ==
  /\ handler[p].pc \in {"lookup", "insert", "update", "replace"}
  /\ handler' = [handler EXCEPT ![p] = Written(@)]
  /\ UNCHANGED <<handlerUnchanged, rows, killer>>

(* The WHERE clause of the query that looks for the agent of a heartbeat, first   *)
(* with the wrong status.                                                         *)
AgentOnline(p) == {i \in DOMAIN rows : rows[i].pid = p /\ rows[i].status = "online"}
AgentByQueueAndPID(p) == {i \in DOMAIN rows : rows[i].pid = p /\ rows[i].status # "offline"}

(* The API takes the refresh time of the row for that of the heartbeat.        *)
Refreshed(p, row) == p \in Legacy /\ handler[p].refresh > row.refresh

LookupAgent(p) ==
  LET found == AgentByQueueAndPID(p) IN
  /\ handler[p].pc = "lookup"
  /\ \/ /\ found = {}
        /\ handler' = [handler EXCEPT ![p].pc = "insert"]
     \/ \E i \in found :
          handler' = [handler EXCEPT ![p].id = i,
                                     ![p].dup = (p \in Legacy /\ rows[i].status = "destroyed"),
                                     ![p].pc = IF Refreshed(p, rows[i])
                                               THEN "replace" ELSE "update"]
  /\ UNCHANGED <<handlerUnchanged, rows, killer>>

(* The row of a refreshed agent without what was refreshed.                    *)
OldRow(p) ==
  [pid |-> p, status |-> "online", age |-> Fresh, refresh |-> 0]

NewRow(p) ==
  [pid |-> p, status |-> "online", age |-> Fresh, refresh |-> handler[p].refresh]

InsertAgent(p) ==
  /\ handler[p].pc = "insert"
  /\ Len(rows) < MaxRows
  /\ rows' = Append(rows, NewRow(p))
  /\ handler' = [handler EXCEPT ![p] = HandlerIdle]
  /\ UNCHANGED <<handlerUnchanged, killer>>

UpdateAgentHeartbeat(p) ==
  /\ handler[p].pc = "update"
  /\ rows' = [rows EXCEPT ![handler[p].id].status = "online", ![handler[p].id].age = Fresh]
  /\ handler' = [handler EXCEPT ![p] = Written(@)]
  /\ UNCHANGED <<handlerUnchanged, killer>>

(* In one transaction.                                                        *)
ReplaceRefreshedAgent(p) ==
  /\ handler[p].pc = "replace"
  /\ Len(rows) < MaxRows
  /\ rows' = Append([rows EXCEPT ![handler[p].id].status = "offline"], NewRow(p))
  /\ handler' = [handler EXCEPT ![p] = Written(@)]
  /\ UNCHANGED <<handlerUnchanged, killer>>

(* The channel DetectDupAgents has no buffer: the killer takes the queue.      *)
NotifyDestroyed(p) ==
  /\ handler[p].pc = "notify"
  /\ killer.pc = "idle"
  /\ killer' = [killer EXCEPT !.pc = "lookup"]
  /\ handler' = [handler EXCEPT ![p] = HandlerIdle]
  /\ UNCHANGED <<handlerUnchanged, rows>>

--------------------------------------------------------------------------------
(* The periodic routine.                                                      *)

periodicUnchanged == <<processVars, queue, handler, orders, cleanup>>

(* UPDATE agents SET status=to WHERE the heartbeat is old AND status=from.     *)
Mark(from, to, age) ==
  [i \in DOMAIN rows |->
     IF rows[i].status = from /\ rows[i].age >= age THEN [rows[i] EXCEPT !.status = to] ELSE rows[i]]

MarkOfflineAgents ==
  /\ periodic = "idle"
  /\ rows' = Mark("idle", "offline", Gone)
  /\ periodic' = "idles"
  /\ UNCHANGED <<periodicUnchanged, killer>>

MarkIdleAgents ==
  /\ periodic = "idles"
  /\ rows' = Mark("online", "idle", Silent)
  /\ periodic' = "detect"
  /\ UNCHANGED <<periodicUnchanged, killer>>

(* An error of the database ends the run.                                      *)
PeriodicFails ==
  /\ periodic \in {"idles", "detect"}
  /\ periodic' = "idle"
  /\ UNCHANGED <<periodicUnchanged, rows, killer>>

(* All rows count here, whatever their status.                                 *)
MultiAgents == Cardinality({i \in DOMAIN rows : rows[i].age = Fresh}) > 1

DetectMultiAgents ==
  /\ periodic = "detect"
  /\ periodic' = IF MultiAgents THEN "send" ELSE "idle"
  /\ UNCHANGED <<periodicUnchanged, rows, killer>>

SendMultiAgents ==
  /\ periodic = "send"
  /\ killer.pc = "idle"
  /\ killer' = [killer EXCEPT !.pc = "lookup"]
  /\ periodic' = "idle"
  /\ UNCHANGED <<periodicUnchanged, rows>>

--------------------------------------------------------------------------------
(* killDupAgents.                                                             *)

killerUnchanged == <<processVars, queue, handler, periodic, cleanup>>

ActiveAgentsByQueue == {i \in DOMAIN rows : rows[i].age = Fresh /\ rows[i].status # "offline"}

(* With less than two agents there is nothing to do.  Otherwise the destroyed    *)
(* ones come first, and then one agent if more than one is left.                 *)
LookupDuplicates ==
  LET found == {[id |-> i, status |-> rows[i].status] : i \in ActiveAgentsByQueue} IN
  /\ killer.pc = "lookup"
  /\ killer' = IF Cardinality(found) < 2 THEN KillerIdle
               ELSE [pc |-> "kill", found |-> found,
                     todo |-> {a \in found : a.status = "destroyed"}]
  /\ UNCHANGED <<killerUnchanged, rows, orders>>

(* issueKillAction writes the kill action to the spool and marks the row; when   *)
(* the second fails, killDupAgents ends with the action written.                 *)
IssueKillAction(i, next) ==
  /\ orders' = orders \union {rows[i].pid}
  /\ \/ /\ rows' = [rows EXCEPT ![i].status = "destroyed"]
        /\ killer' = next
     \/ /\ rows' = rows
        /\ killer' = KillerIdle

(* The query does not return destructiontime: each destroyed agent passes for    *)
(* one whose destruction was ordered long ago.                                   *)
ReissueKill ==
  /\ killer.pc = "kill"
  /\ \E a \in killer.todo : IssueKillAction(a.id, [killer EXCEPT !.todo = @ \ {a}])
  /\ UNCHANGED killerUnchanged

Remaining == {a \in killer.found : a.status # "destroyed"}

(* The newest agent in place of the oldest.                                    *)
Newest(first) == Max({first.id} \union {a.id : a \in {b \in killer.found : b.status = "online"}})

(* The first agent of the query, which is in no particular order, unless an      *)
(* online agent is older.                                                        *)
Oldest(first) == Min({first.id} \union {a.id : a \in {b \in killer.found : b.status = "online"}})

KillOldest ==
  /\ killer.pc = "kill"
  /\ killer.todo = {}
  /\ KillDup /\ Cardinality(Remaining) > 1
  /\ \E first \in killer.found : IssueKillAction(Oldest(first), KillerIdle)
  /\ UNCHANGED killerUnchanged

(* With killdupagents off the duplicates are only logged.                       *)
LeaveDuplicates ==
  /\ killer.pc = "kill"
  /\ killer.todo = {}
  /\ ~ KillDup \/ Cardinality(Remaining) <= 1
  /\ killer' = KillerIdle
  /\ UNCHANGED <<killerUnchanged, rows, orders>>

(* The key ring, the spool or the query fails.                                 *)
KillerFails ==
  /\ killer.pc \in {"lookup", "kill"}
  /\ killer' = KillerIdle
  /\ UNCHANGED <<killerUnchanged, rows, orders>>

--------------------------------------------------------------------------------
(* QueuesCleanup.                                                             *)

cleanupUnchanged == <<started, alive, env, rows, handler, periodic, killer, orders>>

(* The endpoint has a row that is offline, and none that is online or idle.    *)
Disappeared ==
  /\ \E i \in DOMAIN rows : rows[i].status = "offline"
  /\ \A i \in DOMAIN rows : rows[i].status \notin {"online", "idle"}

GetDisappearedEndpoints ==
  /\ Cleanup /\ cleanup = "idle"
  /\ Disappeared
  /\ cleanup' = "listed"
  /\ UNCHANGED <<cleanupUnchanged, queue, listening>>

(* The queue that was listed goes, whoever consumes from it by now; its          *)
(* consumers are cancelled.                                                      *)
DeleteQueue ==
  /\ cleanup = "listed"
  /\ queue
  /\ queue' = FALSE
  /\ listening' = {}
  /\ cleanup' = "idle"
  /\ UNCHANGED cleanupUnchanged

(* QueueInspect or QueueDelete fails, or the connection; the next queue is tried. *)
SkipQueue ==
  /\ cleanup = "listed"
  /\ cleanup' = "idle"
  /\ UNCHANGED <<cleanupUnchanged, queue, listening>>

--------------------------------------------------------------------------------
Agents ==
  \/ \E p \in Pids : StartAgent(p) \/ EndAgent(p) \/ RefreshEnvironment(p) \/ ExpireOrder(p)
  \/ \E p, q \in Pids : DestroyAgent(p, q)
  \/ \E i \in DOMAIN rows : Older(i)

Handler(p) ==
  \/ LookupAgent(p) \/ InsertAgent(p) \/ UpdateAgentHeartbeat(p)
  \/ ReplaceRefreshedAgent(p) \/ NotifyDestroyed(p)

Periodic ==
  MarkOfflineAgents \/ MarkIdleAgents \/ DetectMultiAgents \/ SendMultiAgents

KillDupAgents == LookupDuplicates \/ ReissueKill \/ KillOldest \/ LeaveDuplicates

Next ==
  \/ Agents
  \/ \E p \in Pids : Heartbeat(p) \/ DropHeartbeat(p) \/ Handler(p)
  \/ Periodic \/ PeriodicFails
  \/ KillDupAgents \/ KillerFails
  \/ GetDisappearedEndpoints \/ DeleteQueue \/ SkipQueue

Spec == Init /\ [][Next]_vars

--------------------------------------------------------------------------------
(* Properties.                                                                *)

(* The states of the routines, and rows that are rows.                        *)
TypeOK ==
  /\ alive \subseteq started /\ listening \subseteq alive /\ started \subseteq Pids
  /\ env \in [Pids -> 0..MaxRefresh]
  /\ queue \in BOOLEAN /\ (listening # {} => queue)
  /\ rows \in Seq(Rows) /\ Len(rows) <= MaxRows
  /\ \A p \in Pids :
       /\ handler[p].pc \in {"idle", "lookup", "insert", "update", "replace", "notify"}
       /\ handler[p].pc \in {"update", "replace"} => rows[handler[p].id].pid = p
  /\ periodic \in {"idle", "idles", "detect", "send"}
  /\ killer.pc \in {"idle", "lookup", "kill"}
  /\ \A a \in killer.found \union killer.todo : a.id \in DOMAIN rows
  /\ orders \subseteq Pids
  /\ cleanup \in {"idle", "listed"}

(* PersistHeartbeat: an agent of the API that is in the table is updated, never   *)
(* inserted again, so that no two rows in use are the same process (killDupAgents *)
(* would take them for duplicates). Rows and routines are as TypeOK says.         *)
OneRowPerAgent ==
  /\ TypeOK
  /\ \A i, j \in DOMAIN rows :
       i # j /\ rows[i].pid = rows[j].pid /\ rows[i].pid \notin Legacy
         => "offline" \in {rows[i].status, rows[j].status}

(* killDupAgents: the destruction of an agent is only ordered when another       *)
(* process has registered after it.                                              *)
NewestIsSpared ==
  [][\A p \in orders' \ orders :
       \E i, j \in DOMAIN rows : i < j /\ rows[i].pid = p /\ rows[j].pid # p]_vars

(* ReplaceRefreshedAgent: once a heartbeat from the relay has been written to     *)
(* the table, the environment in the table is as new as that of the heartbeat.    *)
RefreshIsRecorded ==
  [][\A p \in Pids :
       /\ p \in Legacy /\ handler[p].pc \in {"insert", "update", "replace"}
       /\ rows' # rows /\ handler'[p] # handler[p]
       => \E i \in DOMAIN rows' : /\ rows'[i].pid = p /\ rows'[i].status = "online"
                                  /\ rows'[i].refresh >= handler[p].refresh]_vars

================================================================================
