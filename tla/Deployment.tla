------------------------------- MODULE Deployment -------------------------------
(******************************************************************************)
(* Deployment of agents: the manifests of mig-api, the row of one loader, and   *)
(* mig-loader on its host.                                                      *)
(*                                                                              *)
(* A manifest lists files.  Investigators add signatures to it through the API, *)
(* which makes it active once it has enough of them.  mig-loader, started now    *)
(* and then, asks the API for the newest active manifest that targets it, checks *)
(* the signatures itself, replaces the files that differ, one by one, and then   *)
(* has the agent restarted.  Each call of the API is a series of statements to    *)
(* the database, without a transaction.                                          *)
(******************************************************************************)
EXTENDS Naturals, Sequences, FiniteSets

CONSTANTS
  Investigators,  \* those who may sign manifests
  Trusted,        \* those whose keys the loader has (MANIFESTPGPKEYS)
  ApiRequired,    \* signatures that make a manifest active (RequiredSignatures)
  LoaderRequired, \* signatures that the loader wants (REQUIREDSIGNATURES)
  Bundle,         \* the entries of the host, in order (GetHostBundle)
  AgentEntry, LoaderEntry, \* the entries mig-agent and mig-loader
  Content,        \* Content[m][e]: the file that manifest m has for entry e, or NoFile
  Targets,        \* the manifests whose target matches the loader
  NoFile,         \* no such file
  Initial,        \* the file that an entry has at first
  MaxCalls,       \* bound: calls of the API in progress at once
  MaxChanges,     \* bound: calls that undo something
  MaxFaults       \* bound: crashes and errors

Manifests == DOMAIN Content
Entries == {Bundle[i] : i \in DOMAIN Bundle}
Files == {Content[m][e] : m \in Manifests, e \in Entries} \union {NoFile, Initial}
None == 0

ASSUME DeploymentAssumption ==
  /\ Trusted \subseteq Investigators
  /\ {ApiRequired, LoaderRequired} \subseteq Nat \ {0}
  /\ Manifests = 1..Len(Content) /\ Len(Content) \in Nat
  /\ Bundle \in Seq(Entries)
  /\ {AgentEntry, LoaderEntry} \subseteq Entries
  /\ Targets \subseteq Manifests
  /\ NoFile # Initial
  /\ {MaxCalls, MaxChanges, MaxFaults} \subseteq Nat

VARIABLES
  manifests,   \* manifests[m]: "none", "staged", "active" or "disabled"
  signatures,  \* signatures[m]: those who have a signature in the table
  signedBy,    \* signedBy[m]: those who have ever signed m
  calls,       \* calls of signManifest and statusManifest in progress
  row,         \* the row of the loader: whether it is known, enabled, has the key of
               \* the host, and expects its environment
  installed,   \* installed[e]: the file of an entry
  running,     \* the file of the agent that runs, or NoFile
  loader,      \* the process mig-loader
  changes, faults

apiVars == <<manifests, signatures, signedBy, calls>>
vars == <<apiVars, row, installed, running, loader, changes, faults>>

(* apiManifest is the manifest in the hands of the loader, manifest the one that  *)
(* the API is about to send; before: those disabled when the request began.       *)
Idle ==
  [pc |-> "idle", have |-> [e \in Entries |-> NoFile], purpose |-> LoaderEntry,
   manifest |-> None, sigs |-> {}, before |-> {}, apiManifest |-> None, next |-> 1,
   haveChanges |-> FALSE]

Init ==
  /\ manifests = [m \in Manifests |-> "none"]
  /\ signatures = [m \in Manifests |-> {}]
  /\ signedBy = [m \in Manifests |-> {}]
  /\ calls = {}
  /\ row = [known |-> FALSE, enabled |-> FALSE, key |-> FALSE, expect |-> FALSE]
  /\ installed = [e \in Entries |-> Initial]
  /\ running = Initial
  /\ loader = Idle
  /\ changes = 0
  /\ faults = 0

Fault == faults < MaxFaults /\ faults' = faults + 1
Change == changes < MaxChanges /\ changes' = changes + 1

--------------------------------------------------------------------------------
(* The API: manifests.                                                        *)

(* newManifest: manifests are numbered in the order of their timestamps.        *)
NewManifest(m) ==
  /\ manifests[m] = "none"
  /\ m > 1 => manifests[m - 1] # "none"
  /\ manifests' = [manifests EXCEPT ![m] = "staged"]
  /\ UNCHANGED <<signatures, signedBy, calls, row, installed, running, loader, changes, faults>>

(* What is left to do of a call, ManifestUpdateStatus.                         *)
Call(m) == [manifest |-> m, pc |-> "count", status |-> "staged"]

(* signManifest: the insertion fails for a manifest that is disabled and for a    *)
(* second signature of an investigator.                                           *)
SignManifest(m, i) ==
  /\ Cardinality(calls) < MaxCalls
  /\ manifests[m] \in {"staged", "active"}
  /\ i \notin signatures[m]
  /\ signatures' = [signatures EXCEPT ![m] = @ \union {i}]
  /\ signedBy' = [signedBy EXCEPT ![m] = @ \union {i}]
  /\ calls' = calls \union {Call(m)}
  /\ UNCHANGED <<manifests, row, installed, running, loader, changes, faults>>

(* statusManifest with "staged": the signatures are deleted whatever the status.  *)
StageManifest(m) ==
  /\ Cardinality(calls) < MaxCalls
  /\ manifests[m] # "none"
  /\ Change
  /\ signatures' = [signatures EXCEPT ![m] = {}]
  /\ calls' = calls \union {Call(m)}
  /\ UNCHANGED <<manifests, signedBy, row, installed, running, loader, faults>>

DisableManifest(m) ==
  /\ manifests[m] # "none"
  /\ Change
  /\ manifests' = [manifests EXCEPT ![m] = "disabled"]
  /\ UNCHANGED <<signatures, signedBy, calls, row, installed, running, loader, faults>>

CountSignatures(c) ==
  /\ c.pc = "count"
  /\ LET status == IF Cardinality(signatures[c.manifest]) >= ApiRequired
                   THEN "active" ELSE "staged" IN
       calls' = (calls \ {c}) \union {[c EXCEPT !.pc = "update", !.status = status]}
  /\ UNCHANGED <<manifests, signatures, signedBy, row, installed, running, loader, changes, faults>>

(* UPDATE ... WHERE status != 'disabled'                                       *)
Updated(m, status) == IF manifests[m] = "disabled" THEN "disabled" ELSE status

UpdateStatus(c) ==
  /\ c.pc = "update"
  /\ manifests' = [manifests EXCEPT ![c.manifest] = Updated(c.manifest, c.status)]
  /\ calls' = calls \ {c}
  /\ UNCHANGED <<signatures, signedBy, row, installed, running, loader, changes, faults>>

(* An error of the database ends a call half-way.                              *)
CallFails(c) ==
  /\ Fault
  /\ calls' = calls \ {c}
  /\ UNCHANGED <<manifests, signatures, signedBy, row, installed, running, loader, changes>>

--------------------------------------------------------------------------------
(* The API: the row of the loader.                                            *)

(* LoaderAdd: a new row is disabled; its key is copied to the host.             *)
NewLoader ==
  /\ ~ row.known
  /\ row' = [known |-> TRUE, enabled |-> FALSE, key |-> TRUE, expect |-> TRUE]
  /\ UNCHANGED <<apiVars, installed, running, loader, changes, faults>>

StatusLoader(enabled) ==
  /\ row.known
  /\ row.enabled # enabled
  /\ IF enabled THEN UNCHANGED changes ELSE Change
  /\ row' = [row EXCEPT !.enabled = enabled]
  /\ UNCHANGED <<apiVars, installed, running, loader, faults>>

(* keyLoader makes a new key, which somebody has to copy to the host.           *)
KeyLoader ==
  /\ row.known /\ row.key
  /\ Change
  /\ row' = [row EXCEPT !.key = FALSE]
  /\ UNCHANGED <<apiVars, installed, running, loader, faults>>

CopyKey ==
  /\ row.known /\ ~ row.key
  /\ row' = [row EXCEPT !.key = TRUE]
  /\ UNCHANGED <<apiVars, installed, running, loader, changes, faults>>

(* expectLoader: the environment of the host is as expected, or not.            *)
ExpectLoader(expect) ==
  /\ row.known
  /\ row.expect # expect
  /\ IF expect THEN UNCHANGED changes ELSE Change
  /\ row' = [row EXCEPT !.expect = expect]
  /\ UNCHANGED <<apiVars, installed, running, loader, faults>>

--------------------------------------------------------------------------------
(* mig-loader: a run, and its requests.                                       *)

At(pc) == loader.pc = pc
Exit == loader' = Idle
Step == UNCHANGED <<apiVars, row, installed, running, changes, faults>>

(* A run begins with the hashes of the files; there has to be a loader to run.  *)
StartLoader ==
  /\ At("idle")
  /\ installed[LoaderEntry] # NoFile
  /\ loader' = [loader EXCEPT !.pc = "authenticate", !.have = installed]
  /\ Step

(* The option -c only looks whether an agent runs.                             *)
StartCheckOnly ==
  /\ At("idle")
  /\ installed[LoaderEntry] # NoFile
  /\ loader' = [loader EXCEPT !.pc = "running"]
  /\ Step

(* hashAuthenticateLoader                                                      *)
Authenticate ==
  /\ At("authenticate")
  /\ \/ /\ row.known /\ row.enabled /\ row.key
        /\ loader' = [loader EXCEPT !.pc = "compare",
                        !.before = {m \in Manifests : manifests[m] = "disabled"}]
     \/ /\ ~ (row.known /\ row.enabled /\ row.key)
        /\ Exit
  /\ Step

(* locateManifestFromLoader: UpdateLoaderEntry and CompareLoaderExpectEnv        *)
CompareLoaderExpectEnv ==
  /\ At("compare")
  /\ \/ row.expect /\ loader' = [loader EXCEPT !.pc = "select"]
     \/ ~ row.expect /\ Exit
  /\ Step

(* The newest of the manifests that are active and match.                      *)
AnyMatching == {m \in Targets : manifests[m] # "none"}
Matching == {m \in Targets : manifests[m] = "active"}
IsNewest(m) == m \in Matching /\ \A n \in Matching : n <= m

NoManifest == Exit

ManifestIDFromLoaderID ==
  /\ At("select")
  /\ \/ \E m \in Manifests :
          /\ IsNewest(m)
          /\ loader' = [loader EXCEPT !.pc = "get", !.manifest = m]
     \/ Matching = {} /\ NoManifest
  /\ Step

(* GetManifestFromID does not look at the status again.                        *)
GetManifestFromID ==
  /\ At("get")
  /\ loader' = IF loader.apiManifest = None
               THEN [loader EXCEPT !.pc = "name", !.sigs = signatures[loader.manifest]]
               ELSE [loader EXCEPT !.pc = "fetched"]
  /\ Step

(* getAgentManifest: GetLoaderName                                             *)
GetLoaderName ==
  /\ At("name")
  /\ \/ row.enabled /\ loader' = [loader EXCEPT !.pc = "verify"]
     \/ ~ row.enabled /\ Exit
  /\ Step

(* VerifySignatures: a signature of an unknown key is an error, whatever the      *)
(* others are.                                                                    *)
Counted(sigs) == Cardinality(sigs) >= LoaderRequired
Verified(sigs) == sigs \subseteq Trusted /\ Cardinality(sigs) >= LoaderRequired

CheckManifestSignature ==
  /\ At("verify")
  /\ \/ /\ Verified(loader.sigs)
        /\ loader' = [loader EXCEPT !.pc = "entry", !.apiManifest = loader.manifest,
                        !.manifest = None, !.sigs = {}, !.before = {}]
     \/ ~ Verified(loader.sigs) /\ Exit
  /\ Step

--------------------------------------------------------------------------------
(* compareManifest, checkEntry, fetchAndReplace.                              *)

Wanted(e) == Content[loader.apiManifest][e]

(* An entry that the manifest does not have, or that is the same, is left alone.   *)
(* A file that is missing is not the same.                                         *)
SameOrMissing(e) == Wanted(e) = NoFile \/ loader.have[e] \in {NoFile, Wanted(e)}
Same(e) == Wanted(e) \in {NoFile, loader.have[e]}

CheckEntry ==
  /\ At("entry")
  /\ loader.next <= Len(Bundle)
  /\ LET e == Bundle[loader.next] IN
       loader' = IF Same(e)
                 THEN [loader EXCEPT !.next = @ + 1]
                 ELSE [loader EXCEPT !.pc = "authenticate", !.purpose = e, !.haveChanges = TRUE]
  /\ Step

(* getManifestFile sends the file of the manifest that is the newest by now; the   *)
(* loader stages it and compares its hash.                                         *)
AnyHash(file, wanted) == file # NoFile
SameHash(file, wanted) == file = wanted

ValidateStaged ==
  /\ At("fetched")
  /\ LET file == Content[loader.manifest][loader.purpose] IN
       \/ SameHash(file, Wanted(loader.purpose)) /\ loader' = [loader EXCEPT !.pc = "rename"]
       \/ ~ SameHash(file, Wanted(loader.purpose)) /\ Exit
  /\ Step

(* The file in place is renamed first.                                         *)
RenameExisting ==
  /\ At("rename")
  /\ installed' = [installed EXCEPT ![loader.purpose] = NoFile]
  /\ loader' = [loader EXCEPT !.pc = "install"]
  /\ UNCHANGED <<apiVars, row, running, changes, faults>>

InstallStaged ==
  /\ At("install")
  /\ installed' = [installed EXCEPT ![loader.purpose] = Content[loader.manifest][loader.purpose]]
  /\ loader' = [loader EXCEPT !.pc = "entry", !.next = @ + 1, !.manifest = None,
                  !.before = {}, !.purpose = LoaderEntry]
  /\ UNCHANGED <<apiVars, row, running, changes, faults>>

EndOfBundle ==
  /\ At("entry")
  /\ loader.next > Len(Bundle)
  /\ loader' = [loader EXCEPT !.pc = IF loader.haveChanges THEN "terminate" ELSE "running"]
  /\ Step

--------------------------------------------------------------------------------
(* The agent: agentRunning and runTriggers.                                   *)

AgentRunning ==
  /\ At("running")
  /\ \/ running # NoFile /\ installed[AgentEntry] # NoFile /\ Exit
     \/ /\ running = NoFile \/ installed[AgentEntry] = NoFile
        /\ loader' = [loader EXCEPT !.pc = "terminate"]
  /\ Step

(* terminateAgent calls the new agent to stop the old one; errors are ignored.   *)
TerminateAgent ==
  /\ At("terminate")
  /\ loader' = [loader EXCEPT !.pc = "services"]
  /\ \/ installed[AgentEntry] # NoFile /\ running' = NoFile /\ UNCHANGED faults
     \/ installed[AgentEntry] = NoFile /\ UNCHANGED <<running, faults>>
     \/ UNCHANGED running /\ Fault
  /\ UNCHANGED <<apiVars, row, installed, changes>>

(* agentServices: the new agent replaces the service.                          *)
AgentServices ==
  /\ At("services")
  /\ Exit
  /\ \/ /\ installed[AgentEntry] # NoFile
        /\ running' = installed[AgentEntry]
        /\ UNCHANGED faults
     \/ /\ installed[AgentEntry] = NoFile
        /\ UNCHANGED <<running, faults>>
     \/ Fault /\ UNCHANGED running
  /\ UNCHANGED <<apiVars, row, installed, changes>>

(* The loader ends anywhere: a crash, a request without an answer, an error of      *)
(* the file system.                                                                 *)
LoaderFails ==
  /\ ~ At("idle")
  /\ Fault
  /\ Exit
  /\ UNCHANGED <<apiVars, row, installed, running, changes>>

AgentFails ==
  /\ running # NoFile
  /\ Fault
  /\ running' = NoFile
  /\ UNCHANGED <<apiVars, row, installed, loader, changes>>

--------------------------------------------------------------------------------
Loader ==
  \/ Authenticate \/ CompareLoaderExpectEnv \/ ManifestIDFromLoaderID \/ GetManifestFromID
  \/ GetLoaderName \/ CheckManifestSignature \/ CheckEntry \/ ValidateStaged
  \/ RenameExisting \/ InstallStaged \/ EndOfBundle \/ AgentRunning \/ TerminateAgent
  \/ AgentServices

Calls == \E c \in calls : CountSignatures(c) \/ UpdateStatus(c)

Requests ==
  \/ \E m \in Manifests :
       \/ NewManifest(m) \/ StageManifest(m) \/ DisableManifest(m)
       \/ \E i \in Investigators : SignManifest(m, i)
  \/ NewLoader \/ KeyLoader \/ CopyKey
  \/ \E b \in BOOLEAN : StatusLoader(b) \/ ExpectLoader(b)

Next ==
  \/ Requests \/ Calls \/ (\E c \in calls : CallFails(c))
  \/ StartLoader \/ StartCheckOnly \/ Loader \/ LoaderFails \/ AgentFails

Spec == Init /\ [][Next]_vars

(* The loader is started again and again, and goes on while it runs; so do the       *)
(* calls of the API.  Nobody has to make a request.                                  *)
FairSpec == Spec /\ SF_vars(StartLoader) /\ WF_vars(Loader) /\ WF_vars(Calls)

--------------------------------------------------------------------------------
(* Properties.                                                                *)

ApiType ==
  /\ manifests \in [Manifests -> {"none", "staged", "active", "disabled"}]
  /\ signatures \in [Manifests -> SUBSET Investigators]
  /\ signedBy \in [Manifests -> SUBSET Investigators]
  /\ calls \subseteq [manifest : Manifests, pc : {"count", "update"}, status : {"staged", "active"}]

HostType ==
  /\ row \in [known : BOOLEAN, enabled : BOOLEAN, key : BOOLEAN, expect : BOOLEAN]
  /\ installed \in [Entries -> Files]
  /\ running \in Files
  /\ changes \in 0..MaxChanges /\ faults \in 0..MaxFaults

LoaderState ==
  [pc : {"idle", "authenticate", "compare", "select", "get", "name", "verify", "entry",
         "fetched", "rename", "install", "running", "terminate", "services"},
   have : [Entries -> Files], purpose : Entries, manifest : Manifests \union {None},
   sigs : SUBSET Investigators, before : SUBSET Manifests,
   apiManifest : Manifests \union {None}, next : 1..(Len(Bundle) + 1),
   haveChanges : BOOLEAN]

LoaderType ==
  /\ loader \in LoaderState
  /\ loader.pc \in {"get", "name", "verify", "fetched", "rename", "install"} =>
       loader.manifest # None

(* The values that manifests, rows, files and the loader may have; a manifest is   *)
(* only read, and files are only fetched, once one has been found.                  *)
TypeOK == ApiType /\ HostType /\ LoaderType

(* checkManifestSignature and fetchAndReplace: each file in place, and the agent    *)
(* that runs, comes from a manifest that enough of the loader's keys have signed,    *)
(* whatever the API has answered in between. Tables and loader are as TypeOK says.   *)
Signed(m) == Cardinality(signedBy[m] \intersect Trusted) >= LoaderRequired

InstalledIsSigned ==
  /\ TypeOK
  /\ \A e \in Entries : installed[e] \in {NoFile, Initial} \union
       {Content[m][e] : m \in {n \in Manifests : Signed(n)}}
  /\ running \in {NoFile, Initial} \union
       {Content[m][AgentEntry] : m \in {n \in Manifests : Signed(n)}}

(* compareManifest: when the files have been gone through, all are those of the one  *)
(* manifest that was verified, although each was fetched from what was the newest.   *)
InstallIsWhole ==
  loader.apiManifest # None /\ loader.pc \in {"terminate", "services"} =>
    \A e \in Entries : Wanted(e) # NoFile => installed[e] = Wanted(e)

(* ManifestIDFromLoaderID: a manifest that is disabled when a request begins is not    *)
(* served to it.                                                                       *)
DisabledIsNotServed == loader.manifest \notin loader.before

(* If the API serves one manifest from some time on, the host comes to have its        *)
(* files, unless a crash has left it without a loader.                                 *)
Serves(m) == row.known /\ row.enabled /\ row.key /\ row.expect /\ IsNewest(m) /\ Verified(signatures[m])

Installed(m) == \A e \in Entries : Content[m][e] \in {NoFile, installed[e]}

Converges ==
  \A m \in Manifests :
    <>[]Serves(m) => <>[](Installed(m) \/ installed[LoaderEntry] = NoFile)

================================================================================
