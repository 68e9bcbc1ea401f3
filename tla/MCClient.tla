------------------------------- MODULE MCClient -------------------------------
(* Small instances of Client for TLC.                                         *)
EXTENDS Client, TLC

(* Two older actions, the second without a stored signature, and one that is  *)
(* in flight and signed twice, with commands on three agents, one of which is *)
(* offline.                                                                   *)
AgentRow(name, version, status, beat, queue) ==
  [name |-> name, version |-> version, status |-> status, heartbeattime |-> beat, queueloc |-> queue]
ActionRow(name, status, from, until) ==
  [name |-> name, family |-> 1, status |-> status, validfrom |-> from, expireafter |-> until]
CommandRow(act, agent, status, founds, start) ==
  [actionid |-> act, agentid |-> agent, status |-> status, founds |-> founds, starttime |-> start]
MCTables ==
  [agents |-> (1 :> AgentRow(1, 1, "online", 3, 1)) @@ (2 :> AgentRow(2, 1, "idle", 2, 2))
              @@ (3 :> AgentRow(2, 2, "offline", 1, 3)),
   actions |-> (1 :> ActionRow(1, "completed", 1, 2)) @@ (2 :> ActionRow(2, "completed", 2, 3))
               @@ (3 :> ActionRow(3, "inflight", 3, 4)),
   commands |-> (1 :> CommandRow(1, 1, "success", {TRUE}, 1)) @@ (2 :> CommandRow(1, 3, "success", {FALSE}, 2))
                @@ (3 :> CommandRow(2, 2, "expired", {}, 3)) @@ (4 :> CommandRow(3, 1, "sent", {}, 4)),
   investigators |-> (1 :> [name |-> 1, status |-> "active", lastmodified |-> 1])
                     @@ (2 :> [name |-> 2, status |-> "disabled", lastmodified |-> 2]),
   signatures |-> {<<1, 1>>, <<3, 1>>, <<3, 2>>},
   manifests |-> (1 :> [name |-> 1, status |-> "active", timestamp |-> 1])
                 @@ (2 :> [name |-> 2, status |-> "staged", timestamp |-> 2]),
   loaders |-> (1 :> [loadername |-> 2, name |-> 1, lastseen |-> 1])
               @@ (2 :> [loadername |-> 1, name |-> 2, lastseen |-> 2])]

MCMatches == [t \in {"status='online'", "all", "none"} |->
                CASE t = "status='online'" -> {1} [] t = "all" -> {1, 2, 3} [] OTHER -> {}]
MCMacros == [t \in {"everyone"} |-> "all"]

(* TLC can tell of any string that it is one.                                 *)
MCTexts == STRING

MCOutcomes == {[status |-> "success", founds |-> {TRUE}], [status |-> "expired", founds |-> {}]}

(* One value for each filter that accepts some rows and not others.           *)
MCValue == [k \in FilterKeys |->
  CASE k \in {"actionname", "agentname", "investigatorname", "manifestname", "loadername"} -> {2}
    [] k = "agentversion" -> {1} [] k = "threatfamily" -> {1}
    [] k = "after" -> 2..9 [] k = "before" -> 0..2
    [] k = "status" -> {"online", "active", "success"} [] k = "foundanything" -> {FALSE}
    [] k = "commandid" -> {2}
    [] OTHER -> {1}]

Types == {"action", "command", "agent", "investigator", "manifest", "loader"}
Few == {ks \in SUBSET FilterKeys : Cardinality(ks) \in 1..2}
Base(mode) == [mode |-> mode, conf |-> [file |-> TRUE, secring |-> TRUE, key |-> TRUE, apikey |-> FALSE]]

ApiQuery(type, ks, more) ==
  [k \in ks \union {"type"} \union DOMAIN more |->
     IF k = "type" THEN type ELSE IF k \in DOMAIN more THEN more[k] ELSE MCValue[k]]

ApiPrograms ==
  {Base("api") @@ [query |-> q] : q \in
     {ApiQuery(type, ks, << >>) : type \in Types, ks \in Few}
     \union {ApiQuery(type, {k}, [offset |-> 1, limit |-> 1]) : type \in Types, k \in FilterKeys}
     \union {ApiQuery(type, {"before"}, [k \in {x} |-> Malformed]) :
               type \in Types, x \in {"actionid", "agentid", "manifestid", "loaderid", "after", "foundanything"}}
     \union {ApiQuery("agent", {}, [target |-> t]) : t \in {"all", "none", "no condition"}}
     \union {ApiQuery("unknown", {"after"}, << >>), ApiQuery("agent", {"agentname"}, [limit |-> NoNumber]),
             ApiQuery("agent", {}, << >>)}}

SearchPrograms ==
  {Base("search") @@ [query |-> [type |-> type, filters |-> [k \in ks |-> IF k = "name" THEN {2} ELSE MCValue[k]],
                                  zoned |-> {}]] :
     type \in Types, ks \in {{}, {"name"}, {"name", "after"}, {"name", "status"}, {"agentversion"}, {"threatfamily"}}}
  \union {Base("search") @@ [query |-> [type |-> "agent", filters |-> [k \in {"after", "name"} |-> {2}], zoned |-> z]] :
            z \in {{}, {"after"}}}
  \union {Base("search") @@ [query |-> [type |-> "agent", filters |-> [k \in {"before"} |-> Malformed], zoned |-> {}]]}

(* A file with an action that another investigator has signed.                *)
Theirs == [NewAction EXCEPT !.name = "theirs", !.target = "status='online'", !.ops = <<Operation("file", TRUE)>>,
                            !.nil = FALSE, !.from = 0, !.until = 2]
MCFiles == [f \in {"signed", "unsigned"} |->
  IF f = "signed" THEN [CompressAction(Theirs) EXCEPT !.sigs =
       <<[key |-> "k2", over |-> ActionString(CompressAction(Theirs))]>>]
  ELSE [Theirs EXCEPT !.from = Zero, !.until = Zero]]

Mig(file, target, out, show, compress) ==
  Base("mig") @@ [file |-> file, target |-> target, out |-> out, show |-> show, compress |-> compress]
MigPrograms ==
  {Mig("", "everyone", "launch", "all", FALSE), Mig("", "", "launch", "found", TRUE),
   Mig("", "none", "launch", "found", FALSE), Mig("", "local", "launch", "found", FALSE),
   Mig("signed", "", "launch", "all", FALSE), Mig("unsigned", "", "launch", "all", FALSE),
   Mig("", "", "sign", "all", TRUE),
   [Mig("", "", "print", "all", FALSE) EXCEPT !.conf.key = FALSE],
   [Mig("", "", "launch", "all", FALSE) EXCEPT !.conf.secring = FALSE, !.conf.file = FALSE],
   [Mig("", "", "launch", "all", FALSE) EXCEPT !.conf.key = FALSE, !.conf.apikey = TRUE]}

(* An action that is in flight on two agents, which can be read and copied.   *)
Old == SignAction([NewAction EXCEPT !.name = "old", !.target = "all", !.ops = <<Operation("ping", FALSE)>>,
                                    !.nil = FALSE, !.from = 0, !.until = 2])
Console(action, act, nofollow, launcher, reader) ==
  Base("console") @@ [action |-> action, id |-> act, nofollow |-> nofollow,
                      orders |-> [launcher |-> launcher, reader |-> reader]]

(* A new action; a completed one that is copied and edited; one in flight     *)
(* that is read; a file that is loaded, launched and followed.                *)
ConsolePrograms ==
  {Console(NewAction, 0, TRUE, 4, 0), Console(Old, 1, TRUE, 4, 1), Console(Old, 3, TRUE, 0, 1),
   Console(NewAction, 0, FALSE, 1, 0)}

MCPrograms == ApiPrograms \union SearchPrograms \union MigPrograms \union ConsolePrograms

(* The hypothesis of theorem SearchExact.                                      *)
ASSUME MCLimitsCover == LimitsCover
================================================================================
