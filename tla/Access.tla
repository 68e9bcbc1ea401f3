-------------------------------- MODULE Access --------------------------------
(* Who may do what: the API authenticates requests by signed tokens and API   *)
(* keys against the table of investigators, its endpoints change that table   *)
(* and create actions, and agents check the signatures of actions against     *)
(* their own keys and ACL. A handler is cut at each of its statements on the  *)
(* database, since requests are served concurrently.                          *)
EXTENDS Integers, Sequences, FiniteSets, SequencesExt

CONSTANTS
  Slots,            \* requests that can be served at the same time
  Requests,         \* what clients send: [endpoint, cred, body]
  FirstRows,        \* the investigators at the start
  AuthEnabled,      \* Authentication.Enabled of the API
  KeyringAge,       \* how long the API keeps its keyring (5 minutes)
  TokenAge,         \* Authentication.duration
  Commands, Agents, \* the tables of commands and agents, which do not change here
  AgentKeys,        \* PUBLICPGPKEYS of the agents
  Acl,              \* the ACL of the agents: module or "default" -> [min, weight]
  OnlyVerifyPubKey, \* ONLYVERIFYPUBKEY of the agents
  MaxClock, MaxRequests, MaxInvestigators \* bounds of the model

ASSUME AccessBounds ==
  /\ AuthEnabled \in BOOLEAN
  /\ KeyringAge \in Nat /\ TokenAge \in Nat
  /\ MaxClock \in Nat /\ MaxRequests \in Nat /\ MaxInvestigators \in Nat

Rows == [status : {"active", "disabled"}, perms : Nat, key : STRING, api : Nat]
NoKey == "no key"

UniqueKeys(rows) ==
  \A i, j \in DOMAIN rows : rows[i].key = rows[j].key /\ rows[i].key # NoKey => i = j

(* Fingerprints are unique in the table, and its API keys are handed out in   *)
(* the model.                                                                 *)
ASSUME FirstRowsAreRows ==
  /\ FirstRows \in Seq(Rows) /\ Len(FirstRows) <= MaxInvestigators /\ UniqueKeys(FirstRows)
  /\ \A i \in DOMAIN FirstRows : FirstRows[i].api = 0

(* What the bodies hold that change tables.                                   *)
ASSUME RequestsAreWellFormed ==
  \A q \in Requests :
    /\ q.endpoint = "createInvestigator" => q.body.key \in STRING
    /\ q.endpoint = "updateInvestigator" => q.body.mask \in {"", "invalid", "given"}
    /\ q.endpoint = "createAction" => q.body.sigs \in Seq(STRING)

(* Weights are integers, as the configuration of the agents declares them.    *)
ASSUME WeightsAreIntegers ==
  \A m \in DOMAIN Acl : \A key \in DOMAIN Acl[m].weight : Acl[m].weight[key] \in Int

VARIABLES
  investigators, \* the table: [status, perms, key, api]
  keyring,       \* the API's cached keys, and when they were read
  calls,         \* the requests being served
  actions,       \* the table of actions: [sigs, ops, from, until, at]
  signatures,    \* the table of signatures: action and investigator
  ran,           \* actions that an agent found authorized
  clock, arrived,
  past           \* history: when rows were disabled and API keys ended, and
                 \* whether two updates of permissions overlapped

avars == <<investigators, keyring, calls, actions, signatures, ran, clock, arrived, past>>

Never == -1
Ids == DOMAIN investigators

(* --- permissions ----------------------------------------------------------- *)

DefaultSet == {"search", "action", "action_create", "command", "agent", "dashboard"}
ManifestSet == {"manifest", "manifest_sign", "manifest_new", "manifest_status", "manifest_loaders"}
LoaderSet == {"loader", "loader_status", "loader_expect", "loader_key", "loader_new"}
AdminSet == {"investigator", "investigator_create", "investigator_update"}
Permissions == DefaultSet \union ManifestSet \union LoaderSet \union AdminSet

(* The column is an integer with one bit for each permission.                 *)
Bits ==
  [search |-> 1, action |-> 2, action_create |-> 4, command |-> 8, agent |-> 16, dashboard |-> 32,
   loader |-> 64, loader_status |-> 128, loader_expect |-> 256, loader_key |-> 512, loader_new |-> 1024,
   manifest |-> 2048, manifest_sign |-> 4096, manifest_new |-> 8192, manifest_status |-> 16384,
   manifest_loaders |-> 32768, investigator |-> 65536, investigator_create |-> 131072,
   investigator_update |-> 262144]

ToMask(perms) ==
  LET bit(p) == IF p \in perms THEN Bits[p] ELSE 0
  IN (bit("search") + bit("action") + bit("action_create") + bit("command") + bit("agent") + bit("dashboard"))
     + (bit("loader") + bit("loader_status") + bit("loader_expect") + bit("loader_key") + bit("loader_new"))
     + (bit("manifest") + bit("manifest_sign") + bit("manifest_new") + bit("manifest_status")
        + bit("manifest_loaders"))
     + (bit("investigator") + bit("investigator_create") + bit("investigator_update"))
FromMask(mask) == {p \in DOMAIN Bits : (mask \div Bits[p]) % 2 = 1}

(* There is no case for manifest_status: nobody has it.                       *)
CheckPermission(perms, p) == p \in perms \ {"manifest_status"}

Required ==
  [search |-> "search", getAction |-> "action", createAction |-> "action_create",
   getCommand |-> "command", getAgent |-> "agent", getDashboard |-> "dashboard",
   getLoader |-> "loader", statusLoader |-> "loader_status", expectLoader |-> "loader_expect",
   keyLoader |-> "loader_key", newLoader |-> "loader_new", getManifest |-> "manifest",
   signManifest |-> "manifest_sign", statusManifest |-> "manifest_status",
   newManifest |-> "manifest_new", manifestLoaders |-> "manifest_loaders",
   getInvestigator |-> "investigator", createInvestigator |-> "investigator_create",
   updateInvestigator |-> "investigator_update"]

(* --- requests ---------------------------------------------------------------- *)

Request(s) == calls[s].request
Body(s) == Request(s).body
At(s, pc) == calls[s].pc = pc
Serves(s, endpoint) == At(s, "handle") /\ Request(s).endpoint = endpoint
Becomes(s, call) == calls' = [calls EXCEPT ![s] = call]
Goto(s, pc) == Becomes(s, [calls[s] EXCEPT !.pc = pc])

(* A request that was received, by row i at a time if it was let in; and one   *)
(* that was answered, which is a free slot.                                   *)
Received(q, pc, at, i) ==
  [pc |-> pc, request |-> q, at |-> at, who |-> i, action |-> 0, left |-> << >>,
   verified |-> Never, code |-> 0]
Answered(code, aid) ==
  [pc |-> "answered", request |-> [endpoint |-> "none"], at |-> Never, who |-> 0, action |-> aid,
   left |-> << >>, verified |-> Never, code |-> code]
Free == Answered(0, 0)

Answer(s, code) == Becomes(s, Answered(code, IF code = 202 THEN calls[s].action ELSE 0))

AccessInit ==
  /\ investigators = FirstRows
  /\ keyring = [keys |-> {}, at |-> Never]
  /\ calls = [s \in Slots |-> Free]
  /\ actions = << >> /\ signatures = {} /\ ran = {}
  /\ clock = 0 /\ arrived = 0
  /\ past = [disabled |-> [i \in 1..MaxInvestigators |-> Never], ended |-> << >>, overlap |-> FALSE]

Tick ==
  /\ clock < MaxClock /\ clock' = clock + 1
  /\ UNCHANGED <<investigators, keyring, calls, actions, signatures, ran, arrived, past>>

(* --- authentication ------------------------------------------------------------ *)

ActiveKeys == {investigators[i].key : i \in {j \in Ids : investigators[j].status = "active"}} \ {NoKey}

NeverFetched == keyring.at = Never
Outdated == keyring.at = Never \/ keyring.at < clock - KeyringAge

(* makeKeyring, when the cached keys are older than KeyringAge.               *)
GetKeyring == IF Outdated THEN [keys |-> ActiveKeys, at |-> clock] ELSE keyring

(* A signature is named for the key that made it.                             *)
Verify(sig, keys) == sig \in keys

(* A token is stamped with the time of its client, skew away from clock.      *)
InTime(c) == ~(c.skew < -TokenAge) /\ ~(c.skew > TokenAge)

VerifySignedToken(c) == c.form = "right" /\ InTime(c) /\ Verify(c.key, GetKeyring.keys)

AnyStatus == Ids
InvestigatorAPIKeyAuthHelpers == {i \in Ids : investigators[i].status = "active"}

ByAPIKey(key) == {i \in InvestigatorAPIKeyAuthHelpers : investigators[i].api = key}
ByFingerprint(key) == {i \in Ids : investigators[i].key = key}

(* A request arrives, and the first half of authenticate finds out who sent   *)
(* it. Only a token of the right form and time is looked up in the keyring.   *)
Authenticate(s, q) ==
  LET c == q.cred
      known == CASE c.kind = "token" -> VerifySignedToken(c)
                 [] c.kind = "apikey" -> ByAPIKey(c.key) # {}
                 [] OTHER -> FALSE
      who == IF c.kind = "token" THEN ByFingerprint(c.key) ELSE ByAPIKey(c.key)
  IN /\ At(s, "answered") /\ arrived < MaxRequests
     /\ c.kind = "apikey" => c.key \in DOMAIN past.ended
     /\ arrived' = arrived + 1
     /\ Becomes(s, IF ~AuthEnabled THEN Received(q, "handle", Never, 0)
                   ELSE IF known THEN Received(q, "permit", clock, CHOOSE i \in who : TRUE)
                   ELSE Answered(401, 0))
     /\ keyring' = IF AuthEnabled /\ c.kind = "token" /\ c.form = "right" /\ InTime(c)
                    THEN GetKeyring ELSE keyring
     /\ UNCHANGED <<investigators, actions, signatures, ran, clock, past>>

(* Its second half reads the row of the investigator (InvestigatorByID or     *)
(* InvestigatorByFingerprint) and checks the permission of the endpoint.      *)
Permit(s) ==
  LET perms == FromMask(investigators[calls[s].who].perms) IN
  /\ At(s, "permit")
  /\ IF CheckPermission(perms, Required[Request(s).endpoint]) THEN Goto(s, "handle")
     ELSE Answer(s, 401)
  /\ UNCHANGED <<investigators, keyring, actions, signatures, ran, clock, arrived, past>>

(* --- endpoints that read ------------------------------------------------------- *)

(* Never stands for a parameter that is missing or no number, which panics.   *)
Lookup(id, table) ==
  IF id = Never THEN 500 ELSE IF id = 0 THEN 400 ELSE IF id \in table THEN 200 ELSE 404

GetAction(s) ==
  /\ Serves(s, "getAction")
  /\ Answer(s, Lookup(Body(s).id, DOMAIN actions))
  /\ UNCHANGED <<investigators, keyring, actions, signatures, ran, clock, arrived, past>>

GetCommand(s) ==
  /\ Serves(s, "getCommand")
  /\ Answer(s, Lookup(Body(s).id, Commands))
  /\ UNCHANGED <<investigators, keyring, actions, signatures, ran, clock, arrived, past>>

GetAgent(s) ==
  /\ Serves(s, "getAgent")
  /\ Answer(s, Lookup(Body(s).id, Agents))
  /\ UNCHANGED <<investigators, keyring, actions, signatures, ran, clock, arrived, past>>

(* The last statistics of agents, and the last actions with who signed them.  *)
GetDashboard(s) ==
  /\ Serves(s, "getDashboard")
  /\ Answer(s, 200)
  /\ UNCHANGED <<investigators, keyring, actions, signatures, ran, clock, arrived, past>>

GetInvestigator(s) ==
  /\ Serves(s, "getInvestigator")
  /\ Answer(s, Lookup(Body(s).id, Ids))
  /\ UNCHANGED <<investigators, keyring, actions, signatures, ran, clock, arrived, past>>

(* --- endpoints for investigators ----------------------------------------------- *)

InsertInvestigator(row) == investigators' = Append(investigators, row)

(* createInvestigator; form is "right" when there is a name, the permissions  *)
(* can be parsed, and the key, if any, is one. Fingerprints are unique in the *)
(* table.                                                                     *)
CreateInvestigator(s) ==
  LET b == Body(s)
      taken == b.key # NoKey /\ ByFingerprint(b.key) # {}
  IN /\ Serves(s, "createInvestigator")
     /\ \/ /\ b.form # "right" \/ taken
           /\ Answer(s, 500) /\ UNCHANGED investigators
        \/ /\ b.form = "right" /\ ~taken
           /\ Len(investigators) < MaxInvestigators
           /\ InsertInvestigator([status |-> "active", perms |-> ToMask(b.perms), key |-> b.key, api |-> 0])
           /\ Answer(s, 201)
     /\ UNCHANGED <<keyring, actions, signatures, ran, clock, arrived, past>>

(* The row that a request names, and the table with the row changed.          *)
Row(s) == investigators[Body(s).id]
Written(s, row) ==
  IF Body(s).id \in Ids THEN [investigators EXCEPT ![Body(s).id] = row] ELSE investigators

ValidStatus(status) == status \in {"active", "disabled"}

(* updateInvestigator first changes the status; mask tells whether there are  *)
(* permissions in the request, and whether they can be parsed.                *)
UpdateInvestigatorStatus(s) ==
  LET b == Body(s) IN
  /\ Serves(s, "updateInvestigator")
  /\ IF (b.status = "" /\ b.mask = "" /\ b.apikey = "") 
        \/ (b.status # "" /\ ~ValidStatus(b.status))
     THEN Answer(s, 500) /\ UNCHANGED <<investigators, past>>
     ELSE /\ Goto(s, "perms")
          /\ investigators' = IF b.status = "" THEN investigators ELSE Written(s, [Row(s) EXCEPT !.status = b.status])
          /\ past' = IF b.status = "disabled" /\ b.id \in Ids /\ investigators[b.id].status = "active"
                     THEN [past EXCEPT !.disabled = [@ EXCEPT ![b.id] = clock]] ELSE past
  /\ UNCHANGED <<keyring, actions, signatures, ran, clock, arrived>>

IsAdmin(mask) == FromMask(mask) \intersect AdminSet # {}

AnyAdmin(i) == \E j \in Ids : IsAdmin(investigators[j].perms)
OtherAdmin(i) == \E j \in Ids \ {i} : IsAdmin(investigators[j].perms)

(* Then the permissions: the other administrators are counted when the new    *)
(* permissions do not administrate,                                           *)
CountAdmins(s) ==
  LET b == Body(s)
      administrates == {"investigator", "investigator_update"} \subseteq b.perms
  IN /\ At(s, "perms")
     /\ IF b.mask = "" THEN Goto(s, "apikey")
        ELSE IF b.mask = "invalid" THEN Answer(s, 500)
        ELSE IF administrates \/ OtherAdmin(b.id) THEN Goto(s, "write") ELSE Answer(s, 500)
     /\ past' = [past EXCEPT !.overlap = @ \/ \E t \in Slots \ {s} : At(t, "write") /\ b.mask = "given"]
     /\ UNCHANGED <<investigators, keyring, actions, signatures, ran, clock, arrived>>

(* and the row is written.                                                    *)
UpdateInvestigatorPerms(s) ==
  /\ At(s, "write")
  /\ investigators' = Written(s, [Row(s) EXCEPT !.perms = ToMask(Body(s).perms)])
  /\ Goto(s, "apikey")
  /\ UNCHANGED <<keyring, actions, signatures, ran, clock, arrived, past>>

(* Last the API key: a new one, which only this answer shows, or none.        *)
UpdateInvestigatorAPIKey(s) ==
  LET b == Body(s)
      new == Len(past.ended) + 1
      old == IF b.id \in Ids THEN investigators[b.id].api ELSE 0
      ended == IF old = 0 THEN past.ended ELSE [past.ended EXCEPT ![old] = clock]
  IN /\ At(s, "apikey")
     /\ CASE b.apikey = "" -> Answer(s, 200) /\ UNCHANGED <<investigators, past>>
          [] b.apikey = "active" ->
               /\ Answer(s, 200)
               /\ investigators' = Written(s, [Row(s) EXCEPT !.api = new])
               /\ past' = [past EXCEPT !.ended = Append(ended, Never)]
          [] b.apikey = "disabled" ->
               /\ Answer(s, 200)
               /\ investigators' = Written(s, [Row(s) EXCEPT !.api = 0])
               /\ past' = [past EXCEPT !.ended = ended]
          [] OTHER -> Answer(s, 500) /\ UNCHANGED <<investigators, past>>
     /\ UNCHANGED <<keyring, actions, signatures, ran, clock, arrived>>

(* --- actions ------------------------------------------------------------------- *)

(* Action.Validate; form is "right" when name, target, version and operations *)
(* are there.                                                                 *)
ValidateAction(a) ==
  /\ a.form = "right" /\ a.from <= a.until /\ ~(clock > a.until) /\ a.sigs # << >>

VerifySignatures(a, keys) == a.sigs # << >> /\ \A i \in DOMAIN a.sigs : Verify(a.sigs[i], keys)

(* createAction: validation and signatures,                                   *)
CreateAction(s) ==
  LET a == Body(s) IN
  /\ Serves(s, "createAction")
  /\ keyring' = GetKeyring
  /\ IF ValidateAction(a) /\ VerifySignatures(a, GetKeyring.keys)
     THEN Becomes(s, [calls[s] EXCEPT !.pc = "insert", !.verified = clock]) ELSE Answer(s, 500)
  /\ UNCHANGED <<investigators, actions, signatures, ran, clock, arrived, past>>

(* the row of the action,                                                     *)
InsertAction(s) ==
  LET a == Body(s) IN
  /\ At(s, "insert")
  /\ actions' = Append(actions, [sigs |-> a.sigs, ops |-> a.ops, from |-> a.from, until |-> a.until,
                                 form |-> a.form, at |-> calls[s].verified])
  /\ Becomes(s, [calls[s] EXCEPT !.pc = "sign", !.action = Len(actions) + 1, !.left = a.sigs])
  /\ UNCHANGED <<investigators, keyring, signatures, ran, clock, arrived, past>>

HasSignature(aid, i) == <<aid, i>> \in signatures

SignatureSkipped(s) == Becomes(s, [calls[s] EXCEPT !.left = Tail(@)])
SignatureFailed(s) == Answer(s, 500)

(* and one row for each signature. The keyring may be read again in between,  *)
(* and the table has at most one signature of an investigator on an action.   *)
InsertSignature(s) ==
  /\ At(s, "sign")
  /\ IF calls[s].left = << >>
     THEN Answer(s, 202) /\ UNCHANGED <<keyring, signatures>>
     ELSE LET key == Head(calls[s].left)
              i == CHOOSE j \in ByFingerprint(key) : TRUE
          IN /\ keyring' = GetKeyring
             /\ IF ~Verify(key, GetKeyring.keys) \/ HasSignature(calls[s].action, i)
                THEN SignatureFailed(s) /\ UNCHANGED signatures
                ELSE /\ signatures' = signatures \union {<<calls[s].action, i>>}
                     /\ Becomes(s, [calls[s] EXCEPT !.left = Tail(@)])
  /\ UNCHANGED <<investigators, actions, ran, clock, arrived, past>>

(* --- agents --------------------------------------------------------------------- *)

AclFor(module) == IF module \in DOMAIN Acl THEN Acl[module] ELSE Acl["default"]

Weight(entry, key) == IF key \in DOMAIN entry.weight THEN entry.weight[key] ELSE 0
WeightOf(entry, sigs) == FoldLeft(LAMBDA sum, key : sum + Weight(entry, key), 0, sigs)

CountedTwice(module, sigs) ==
  /\ {module, "default"} \intersect DOMAIN Acl # {} /\ AclFor(module).min >= 1
  /\ WeightOf(AclFor(module), sigs) >= AclFor(module).min

(* A key that signs twice is an error.                                        *)
VerifyPermission(module, sigs) ==
  /\ {module, "default"} \intersect DOMAIN Acl # {}
  /\ AclFor(module).min >= 1
  /\ IsInjective(sigs)
  /\ WeightOf(AclFor(module), sigs) >= AclFor(module).min

VerifyACL(a) ==
  /\ VerifySignatures(a, AgentKeys)
  /\ OnlyVerifyPubKey \/ \A i \in DOMAIN a.ops : VerifyPermission(a.ops[i], a.sigs)

(* An agent gets a command of action aid (see Scheduler) and accepts it.      *)
CheckActionAuthorization(aid) ==
  LET a == actions[aid] IN
  /\ aid \notin ran
  /\ ValidateAction(a) /\ ~(clock < a.from)
  /\ VerifyACL(a)
  /\ ran' = ran \union {aid}
  /\ UNCHANGED <<investigators, keyring, calls, actions, signatures, clock, arrived, past>>

AccessNext ==
  \/ Tick
  \/ \E s \in Slots :
       \/ \E q \in Requests : Authenticate(s, q)
       \/ Permit(s) \/ GetAction(s) \/ GetCommand(s) \/ GetAgent(s) \/ GetDashboard(s) \/ GetInvestigator(s)
       \/ CreateInvestigator(s) \/ UpdateInvestigatorStatus(s) \/ CountAdmins(s)
       \/ UpdateInvestigatorPerms(s) \/ UpdateInvestigatorAPIKey(s)
       \/ CreateAction(s) \/ InsertAction(s) \/ InsertSignature(s)
  \/ \E aid \in DOMAIN actions : CheckActionAuthorization(aid)

AccessSpec == AccessInit /\ [][AccessNext]_avars

(* --- properties ---------------------------------------------------------------- *)

(* The rows of investigators, and what refers to rows.                        *)
TypeOK ==
  /\ \A i \in Ids : /\ investigators[i].status \in {"active", "disabled"}
                    /\ FromMask(investigators[i].perms) \subseteq Permissions
                    /\ investigators[i].api \in 0..Len(past.ended)
  /\ keyring.at \in Never..clock
  /\ signatures \subseteq (DOMAIN actions) \X Ids
  /\ ran \subseteq DOMAIN actions

Admitted(s) == calls[s].at # Never

(* A credential stops working: a request that is let in with a token of an    *)
(* investigator who was disabled came no later than KeyringAge afterwards,    *)
(* and one with an API key no later than the key was replaced, or removed, or *)
(* its owner disabled (getKeyring, verifyAPIKey, updateInvestigator).         *)
CredentialsEnd ==
  \A s \in Slots : Admitted(s) =>
    LET c == Request(s).cred
        i == calls[s].who
        slack == IF c.kind = "token" THEN KeyringAge ELSE 0
    IN /\ investigators[i].status = "disabled" => calls[s].at - past.disabled[i] <= slack
       /\ c.kind = "apikey" /\ past.ended[c.key] # Never => calls[s].at <= past.ended[c.key]

(* Unless two requests change permissions at the same time, somebody with an  *)
(* administrative permission remains (UpdateInvestigatorPerms). Rows are as   *)
(* TypeOK says.                                                               *)
AdminRemains == TypeOK /\ (~past.overlap => \E i \in Ids : IsAdmin(investigators[i].perms))

(* An action whose creation is accepted is stored with all its signatures,    *)
(* also when the keyring is read again, or keys are disabled, on the way      *)
(* (createAction).                                                            *)
AcceptedIsComplete ==
  \A s \in Slots : At(s, "answered") /\ calls[s].code = 202 =>
    \A k \in DOMAIN actions[calls[s].action].sigs :
      \E i \in ByFingerprint(actions[calls[s].action].sigs[k]) : <<calls[s].action, i>> \in signatures

(* The investigators who signed an action that an agent runs: they have rows  *)
(* in the table, and were not disabled for more than KeyringAge when it was   *)
(* created.                                                                   *)
SignersAreKnown ==
  \A aid \in ran : \A key \in Range(actions[aid].sigs) : \E i \in ByFingerprint(key) :
    investigators[i].status = "disabled" => actions[aid].at - past.disabled[i] <= KeyringAge

(* An action that an agent runs is signed by investigators of the platform    *)
(* only, none of them disabled for more than KeyringAge when it was created,  *)
(* and, for each of its operations, the keys that signed it have together the *)
(* weight that the ACL asks for, each counted once (createAction, VerifyACL). *)
RunIsAuthorised ==
  /\ SignersAreKnown
  /\ ~OnlyVerifyPubKey =>
       \A aid \in ran : \A k \in DOMAIN actions[aid].ops :
         LET entry == AclFor(actions[aid].ops[k]) IN
         MapThenSumSet(LAMBDA key : Weight(entry, key), Range(actions[aid].sigs)) >= entry.min
================================================================================
