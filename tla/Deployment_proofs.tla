---------------------------- MODULE Deployment_proofs ---------------------------
(******************************************************************************)
(* Theorems about Deployment, for any manifests, entries and investigators,    *)
(* any number of calls of the API at once and any number of faults.            *)
(******************************************************************************)
EXTENDS Deployment, FiniteSetTheorems, SequenceTheorems, TLAPS

(* Where the loader is in its run: it holds no manifest before it has verified     *)
(* one, fetches the entry that it has come to, and the API holds an answer only     *)
(* between choosing it and its arrival.                                             *)
Phases ==
  /\ loader.pc = "idle" => loader = Idle
  /\ loader.pc \in {"name", "verify"} => loader.apiManifest = None
  /\ loader.pc \in {"entry", "fetched", "rename", "install"} => loader.apiManifest # None
  /\ loader.pc \in {"authenticate", "compare", "select", "entry"} => loader.manifest = None
  /\ /\ loader.apiManifest # None
     /\ loader.pc \in {"authenticate", "compare", "select", "get", "fetched", "rename", "install"}
     => loader.next <= Len(Bundle) /\ loader.purpose = Bundle[loader.next]

(* A manifest that was disabled when a request began still is.                 *)
Disabled == \A m \in loader.before : manifests[m] = "disabled"

(* Signatures in the table, and those on their way to the loader, have been made by   *)
(* those who have signed; what the loader has accepted had enough of them, and the    *)
(* file that it installs is the one that this manifest has.                           *)
SignaturesAreMade ==
  /\ \A m \in Manifests : IsFiniteSet(signedBy[m]) /\ signatures[m] \subseteq signedBy[m]
  /\ loader.pc \in {"name", "verify"} => loader.sigs \subseteq signedBy[loader.manifest]

AcceptedIsSigned ==
  /\ loader.apiManifest # None => Signed(loader.apiManifest)
  /\ loader.pc \in {"rename", "install"} =>
       Content[loader.manifest][loader.purpose] = Wanted(loader.purpose)

(* The files before the entry that the loader has come to are those of the manifest,   *)
(* and the others have not changed since the run began, save for the one that has      *)
(* been renamed.                                                                       *)
InPlace(e) == ~ (loader.pc = "install" /\ loader.purpose = e)
GoneThrough(e) == \E i \in 1..(loader.next - 1) : Bundle[i] = e

FilesFollow ==
  /\ /\ loader.apiManifest = None
     /\ loader.pc \in {"authenticate", "compare", "select", "get", "name", "verify"}
     => loader.have = installed /\ loader.next = 1
  /\ loader.apiManifest # None =>
       \A e \in Entries : InPlace(e) =>
         /\ installed[e] \in {loader.have[e], Wanted(e)}
         /\ GoneThrough(e) /\ Wanted(e) # NoFile => installed[e] = Wanted(e)
  /\ loader.apiManifest # None /\ loader.pc \in {"running", "terminate", "services"} =>
       loader.next > Len(Bundle)

--------------------------------------------------------------------------------
(* What the constants are: the files that manifests have are files, manifests are   *)
(* numbered from 1, and the entries of a bundle are those at its indices.           *)
LEMMA FileConstants ==
  /\ NoFile \in Files /\ Initial \in Files
  /\ \A m \in Manifests, e \in Entries : Content[m][e] \in Files
BY DEF Files

LEMMA NoneConstant == None \notin Manifests
BY DeploymentAssumption DEF None

LEMMA BundleConstants ==
  /\ AgentEntry \in Entries /\ LoaderEntry \in Entries
  /\ Len(Bundle) \in Nat
  /\ \A i \in 1..Len(Bundle) : Bundle[i] \in Entries
BY DeploymentAssumption

LEMMA BundleIndices == \A e \in Entries : \E i \in 1..Len(Bundle) : Bundle[i] = e
BY DeploymentAssumption, LenProperties, Zenon DEF Entries

LEMMA BoundConstants ==
  /\ LoaderRequired \in Nat /\ MaxChanges \in Nat /\ MaxFaults \in Nat
  /\ Trusted \subseteq Investigators
BY DeploymentAssumption

(* The process mig-loader when it does not run.                                *)
LEMMA IdleIs ==
  /\ Idle \in LoaderState
  /\ Idle.pc = "idle" /\ Idle.manifest = None /\ Idle.apiManifest = None
  /\ Idle.before = {} /\ Idle.sigs = {} /\ Idle.next = 1
BY FileConstants, BundleConstants DEF Idle, LoaderState

(* Types and phases of the loader, which are inductive together: the index of an    *)
(* entry stays within the bundle because a file is only installed for an entry of it. *)
THEOREM TypesAndPhases == Spec => [](TypeOK /\ Phases)
<1> USE DEF apiVars
<1>1. Init => TypeOK /\ Phases
  BY FileConstants, IdleIs, BoundConstants DEF Init, TypeOK, ApiType, HostType, LoaderType, Phases
<1>2. TypeOK /\ Phases /\ [Next]_vars => (TypeOK /\ Phases)'
  <2> SUFFICES ASSUME TypeOK, Phases, [Next]_vars PROVE TypeOK' /\ Phases'
    OBVIOUS
  <2> USE DEF TypeOK
  <2>1. ASSUME NEW m \in Manifests, NewManifest(m) PROVE TypeOK' /\ Phases'
    <3>1. ApiType'
      BY <2>1 DEF ApiType, NewManifest
    <3>2. HostType'
      BY <2>1 DEF HostType, NewManifest
    <3>3. LoaderType'
      BY <2>1 DEF LoaderType, NewManifest
    <3>4. Phases'
      BY <2>1 DEF Phases, NewManifest
    <3> QED
      BY <3>1, <3>2, <3>3, <3>4
  <2>2. ASSUME NEW m \in Manifests, NEW i \in Investigators, SignManifest(m, i) PROVE TypeOK' /\ Phases'
    <3>1. ApiType'
      BY <2>2 DEF ApiType, SignManifest, Call
    <3>2. HostType'
      BY <2>2 DEF HostType, SignManifest, Call
    <3>3. LoaderType'
      BY <2>2 DEF LoaderType, SignManifest, Call
    <3>4. Phases'
      BY <2>2 DEF Phases, SignManifest, Call
    <3> QED
      BY <3>1, <3>2, <3>3, <3>4
  <2>3. ASSUME NEW m \in Manifests, StageManifest(m) PROVE TypeOK' /\ Phases'
    <3>1. ApiType'
      BY <2>3 DEF ApiType, StageManifest, Call, Change
    <3>2. HostType'
      BY <2>3, BoundConstants DEF HostType, StageManifest, Call, Change
    <3>3. LoaderType'
      BY <2>3 DEF LoaderType, StageManifest, Call, Change
    <3>4. Phases'
      BY <2>3 DEF Phases, StageManifest, Call, Change
    <3> QED
      BY <3>1, <3>2, <3>3, <3>4
  <2>4. ASSUME NEW m \in Manifests, DisableManifest(m) PROVE TypeOK' /\ Phases'
    <3>1. ApiType'
      BY <2>4 DEF ApiType, DisableManifest, Change
    <3>2. HostType'
      BY <2>4, BoundConstants DEF HostType, DisableManifest, Change
    <3>3. LoaderType'
      BY <2>4 DEF LoaderType, DisableManifest, Change
    <3>4. Phases'
      BY <2>4 DEF Phases, DisableManifest, Change
    <3> QED
      BY <3>1, <3>2, <3>3, <3>4
  <2>5. ASSUME NEW c \in calls, CountSignatures(c) PROVE TypeOK' /\ Phases'
    <3>1. ApiType'
      BY <2>5 DEF ApiType, CountSignatures
    <3>2. HostType'
      BY <2>5 DEF HostType, CountSignatures
    <3>3. LoaderType'
      BY <2>5 DEF LoaderType, CountSignatures
    <3>4. Phases'
      BY <2>5 DEF Phases, CountSignatures
    <3> QED
      BY <3>1, <3>2, <3>3, <3>4
  <2>6. ASSUME NEW c \in calls, UpdateStatus(c) PROVE TypeOK' /\ Phases'
    <3>1. ApiType'
      BY <2>6 DEF ApiType, UpdateStatus, Updated
    <3>2. HostType'
      BY <2>6 DEF HostType, UpdateStatus, Updated
    <3>3. LoaderType'
      BY <2>6 DEF LoaderType, UpdateStatus, Updated
    <3>4. Phases'
      BY <2>6 DEF Phases, UpdateStatus, Updated
    <3> QED
      BY <3>1, <3>2, <3>3, <3>4
  <2>7. ASSUME NEW c \in calls, CallFails(c) PROVE TypeOK' /\ Phases'
    <3>1. ApiType'
      BY <2>7 DEF ApiType, CallFails, Fault
    <3>2. HostType'
      BY <2>7, BoundConstants DEF HostType, CallFails, Fault
    <3>3. LoaderType'
      BY <2>7 DEF LoaderType, CallFails, Fault
    <3>4. Phases'
      BY <2>7 DEF Phases, CallFails, Fault
    <3> QED
      BY <3>1, <3>2, <3>3, <3>4
  <2>8. CASE NewLoader
    <3>1. ApiType'
      BY <2>8 DEF ApiType, NewLoader
    <3>2. HostType'
      BY <2>8 DEF HostType, NewLoader
    <3>3. LoaderType'
      BY <2>8 DEF LoaderType, NewLoader
    <3>4. Phases'
      BY <2>8 DEF Phases, NewLoader
    <3> QED
      BY <3>1, <3>2, <3>3, <3>4
  <2>9. CASE KeyLoader
    <3>1. ApiType'
      BY <2>9 DEF ApiType, KeyLoader, Change
    <3>2. HostType'
      <4>1. row' \in [known : BOOLEAN, enabled : BOOLEAN, key : BOOLEAN, expect : BOOLEAN]
        BY <2>9 DEF HostType, KeyLoader
      <4>2. changes' \in 0..MaxChanges
        BY <2>9, BoundConstants DEF HostType, KeyLoader, Change
      <4> QED
        BY <2>9, <4>1, <4>2 DEF HostType, KeyLoader
    <3>3. LoaderType'
      BY <2>9 DEF LoaderType, KeyLoader, Change
    <3>4. Phases'
      BY <2>9 DEF Phases, KeyLoader, Change
    <3> QED
      BY <3>1, <3>2, <3>3, <3>4
  <2>10. CASE CopyKey
    <3>1. ApiType'
      BY <2>10 DEF ApiType, CopyKey
    <3>2. HostType'
      BY <2>10 DEF HostType, CopyKey
    <3>3. LoaderType'
      BY <2>10 DEF LoaderType, CopyKey
    <3>4. Phases'
      BY <2>10 DEF Phases, CopyKey
    <3> QED
      BY <3>1, <3>2, <3>3, <3>4
  <2>11. ASSUME NEW b \in BOOLEAN, StatusLoader(b) PROVE TypeOK' /\ Phases'
    <3>1. ApiType'
      BY <2>11 DEF ApiType, StatusLoader, Change
    <3>2. HostType'
      BY <2>11, BoundConstants DEF HostType, StatusLoader, Change
    <3>3. LoaderType'
      BY <2>11 DEF LoaderType, StatusLoader, Change
    <3>4. Phases'
      BY <2>11 DEF Phases, StatusLoader, Change
    <3> QED
      BY <3>1, <3>2, <3>3, <3>4
  <2>12. ASSUME NEW b \in BOOLEAN, ExpectLoader(b) PROVE TypeOK' /\ Phases'
    <3>1. ApiType'
      BY <2>12 DEF ApiType, ExpectLoader, Change
    <3>2. HostType'
      BY <2>12, BoundConstants DEF HostType, ExpectLoader, Change
    <3>3. LoaderType'
      BY <2>12 DEF LoaderType, ExpectLoader, Change
    <3>4. Phases'
      BY <2>12 DEF Phases, ExpectLoader, Change
    <3> QED
      BY <3>1, <3>2, <3>3, <3>4
  <2>13. CASE StartLoader
    <3>1. ApiType'
      BY <2>13 DEF ApiType, StartLoader, Step, At
    <3>2. HostType'
      BY <2>13 DEF HostType, StartLoader, Step, At
    <3>3. LoaderType'
      BY <2>13 DEF LoaderType, LoaderState, HostType, StartLoader, Step, At
    <3>4. Phases'
      BY <2>13, IdleIs DEF Phases, LoaderType, LoaderState, HostType, StartLoader, Step, At
    <3> QED
      BY <3>1, <3>2, <3>3, <3>4
  <2>14. CASE StartCheckOnly
    <3>1. ApiType'
      BY <2>14 DEF ApiType, StartCheckOnly, Step, At
    <3>2. HostType'
      BY <2>14 DEF HostType, StartCheckOnly, Step, At
    <3>3. LoaderType'
      BY <2>14 DEF LoaderType, LoaderState, StartCheckOnly, Step, At
    <3>4. Phases'
      BY <2>14, IdleIs DEF Phases, LoaderType, LoaderState, StartCheckOnly, Step, At
    <3> QED
      BY <3>1, <3>2, <3>3, <3>4
  <2>15. CASE Authenticate
    <3>1. ApiType'
      BY <2>15 DEF ApiType, Authenticate, Step, Exit, At
    <3>2. HostType'
      BY <2>15 DEF HostType, Authenticate, Step, Exit, At
    <3>3. LoaderType'
      BY <2>15, IdleIs, ZenonT(30) DEF LoaderType, LoaderState, Authenticate, Step, Exit, At
    <3>4. Phases'
      BY <2>15, IdleIs, ZenonT(30) DEF Phases, LoaderType, LoaderState, Authenticate, Step, Exit, At
    <3> QED
      BY <3>1, <3>2, <3>3, <3>4
  <2>16. CASE CompareLoaderExpectEnv
    <3>1. ApiType'
      BY <2>16 DEF ApiType, CompareLoaderExpectEnv, Step, Exit, At
    <3>2. HostType'
      BY <2>16 DEF HostType, CompareLoaderExpectEnv, Step, Exit, At
    <3>3. LoaderType'
      BY <2>16, IdleIs DEF LoaderType, LoaderState, CompareLoaderExpectEnv, Step, Exit, At
    <3>4. Phases'
      BY <2>16, IdleIs DEF Phases, LoaderType, LoaderState, CompareLoaderExpectEnv, Step, Exit, At
    <3> QED
      BY <3>1, <3>2, <3>3, <3>4
  <2>17. CASE ManifestIDFromLoaderID
    <3>1. ApiType'
      BY <2>17 DEF ApiType, ManifestIDFromLoaderID, Step, Exit, NoManifest, At
    <3>2. HostType'
      BY <2>17 DEF HostType, ManifestIDFromLoaderID, Step, Exit, NoManifest, At
    <3>3. LoaderType'
      BY <2>17, IdleIs, BundleConstants, NoneConstant, ZenonT(30) DEF LoaderType, LoaderState,
         ManifestIDFromLoaderID, Step, Exit, NoManifest, At
    <3>4. Phases'
      BY <2>17, IdleIs, BundleConstants, NoneConstant DEF Phases, LoaderType, LoaderState,
         ManifestIDFromLoaderID, Step, Exit, NoManifest, At
    <3> QED
      BY <3>1, <3>2, <3>3, <3>4
  <2>18. CASE GetManifestFromID
    <3>1. ApiType'
      BY <2>18 DEF ApiType, GetManifestFromID, Step, At
    <3>2. HostType'
      BY <2>18 DEF HostType, GetManifestFromID, Step, At
    <3>3. LoaderType'
      BY <2>18 DEF LoaderType, LoaderState, ApiType, GetManifestFromID, Step, At
    <3>4. Phases'
      BY <2>18 DEF Phases, LoaderType, LoaderState, ApiType, GetManifestFromID, Step, At
    <3> QED
      BY <3>1, <3>2, <3>3, <3>4
  <2>19. CASE GetLoaderName
    <3>1. ApiType'
      BY <2>19 DEF ApiType, GetLoaderName, Step, Exit, At
    <3>2. HostType'
      BY <2>19 DEF HostType, GetLoaderName, Step, Exit, At
    <3>3. LoaderType'
      BY <2>19, IdleIs DEF LoaderType, LoaderState, GetLoaderName, Step, Exit, At
    <3>4. Phases'
      BY <2>19, IdleIs DEF Phases, LoaderType, LoaderState, GetLoaderName, Step, Exit, At
    <3> QED
      BY <3>1, <3>2, <3>3, <3>4
  <2>20. CASE CheckManifestSignature
    <3>1. ApiType'
      BY <2>20 DEF ApiType, CheckManifestSignature, Step, Exit, At
    <3>2. HostType'
      BY <2>20 DEF HostType, CheckManifestSignature, Step, Exit, At
    <3>3. LoaderType'
      BY <2>20, IdleIs, NoneConstant, ZenonT(30) DEF LoaderType, LoaderState, CheckManifestSignature, Step,
         Exit, At
    <3>4. Phases'
      <4>1. CASE Exit
        BY <4>1, IdleIs DEF Exit, Phases
      <4>2. CASE loader' = [loader EXCEPT !.pc = "entry", !.apiManifest = loader.manifest,
                              !.manifest = None, !.sigs = {}, !.before = {}]
        BY <2>20, <4>2 DEF Phases, LoaderType, LoaderState, CheckManifestSignature, At
      <4> QED
        BY <2>20, <4>1, <4>2 DEF CheckManifestSignature
    <3> QED
      BY <3>1, <3>2, <3>3, <3>4
  <2>21. CASE CheckEntry
    <3>1. ApiType'
      BY <2>21 DEF ApiType, CheckEntry, Step, At
    <3>2. HostType'
      BY <2>21 DEF HostType, CheckEntry, Step, At
    <3>3. LoaderType'
      <4>1. Bundle[loader.next] \in Entries /\ loader.next + 1 \in 1..(Len(Bundle) + 1)
        BY <2>21, BundleConstants DEF LoaderType, LoaderState, CheckEntry
      <4> QED
        BY <2>21, <4>1 DEF LoaderType, LoaderState, CheckEntry, At
    <3>4. Phases'
      BY <2>21, BundleConstants DEF Phases, LoaderType, LoaderState, CheckEntry, Step, At
    <3> QED
      BY <3>1, <3>2, <3>3, <3>4
  <2>22. CASE ValidateStaged
    <3>1. ApiType'
      BY <2>22 DEF ApiType, ValidateStaged, Step, Exit, At
    <3>2. HostType'
      BY <2>22 DEF HostType, ValidateStaged, Step, Exit, At
    <3>3. LoaderType'
      BY <2>22, IdleIs DEF LoaderType, LoaderState, ValidateStaged, Step, Exit, At
    <3>4. Phases'
      BY <2>22, IdleIs DEF Phases, LoaderType, LoaderState, ValidateStaged, Step, Exit, At
    <3> QED
      BY <3>1, <3>2, <3>3, <3>4
  <2>23. CASE RenameExisting
    <3>1. ApiType'
      BY <2>23 DEF ApiType, RenameExisting, At
    <3>2. HostType'
      BY <2>23, FileConstants DEF HostType, LoaderType, LoaderState, RenameExisting, At
    <3>3. LoaderType'
      BY <2>23 DEF LoaderType, LoaderState, RenameExisting, At
    <3>4. Phases'
      BY <2>23 DEF Phases, LoaderType, LoaderState, RenameExisting, At
    <3> QED
      BY <3>1, <3>2, <3>3, <3>4
  <2>24. CASE InstallStaged
    <3>1. ApiType'
      BY <2>24 DEF ApiType, InstallStaged, At
    <3>2. HostType'
      BY <2>24, FileConstants DEF HostType, LoaderType, LoaderState, InstallStaged, At
    <3>3. LoaderType'
      <4>1. loader.next + 1 \in 1..(Len(Bundle) + 1)
        BY <2>24, BundleConstants DEF LoaderType, LoaderState, Phases, InstallStaged, At
      <4> QED
        BY <2>24, <4>1, BundleConstants DEF LoaderType, LoaderState, InstallStaged, At
    <3>4. Phases'
      BY <2>24, BundleConstants DEF Phases, LoaderType, LoaderState, InstallStaged, At
    <3> QED
      BY <3>1, <3>2, <3>3, <3>4
  <2>25. CASE EndOfBundle
    <3>1. ApiType'
      BY <2>25 DEF ApiType, EndOfBundle, Step, At
    <3>2. HostType'
      BY <2>25 DEF HostType, EndOfBundle, Step, At
    <3>3. LoaderType'
      BY <2>25 DEF LoaderType, LoaderState, EndOfBundle, Step, At
    <3>4. Phases'
      BY <2>25 DEF Phases, LoaderType, LoaderState, EndOfBundle, Step, At
    <3> QED
      BY <3>1, <3>2, <3>3, <3>4
  <2>26. CASE AgentRunning
    <3>1. ApiType'
      BY <2>26 DEF ApiType, AgentRunning, Step, Exit, At
    <3>2. HostType'
      BY <2>26 DEF HostType, AgentRunning, Step, Exit, At
    <3>3. LoaderType'
      BY <2>26, IdleIs DEF LoaderType, LoaderState, AgentRunning, Step, Exit, At
    <3>4. Phases'
      BY <2>26, IdleIs DEF Phases, LoaderType, LoaderState, AgentRunning, Step, Exit, At
    <3> QED
      BY <3>1, <3>2, <3>3, <3>4
  <2>27. CASE TerminateAgent
    <3>1. ApiType'
      BY <2>27 DEF ApiType, TerminateAgent, Fault, At
    <3>2. HostType'
      BY <2>27, BoundConstants, FileConstants DEF HostType, TerminateAgent, Fault, At
    <3>3. LoaderType'
      BY <2>27 DEF LoaderType, LoaderState, TerminateAgent, Fault, At
    <3>4. Phases'
      BY <2>27 DEF Phases, LoaderType, LoaderState, TerminateAgent, Fault, At
    <3> QED
      BY <3>1, <3>2, <3>3, <3>4
  <2>28. CASE AgentServices
    <3>1. ApiType'
      BY <2>28 DEF ApiType, AgentServices, Fault, Exit, At
    <3>2. HostType'
      BY <2>28, BoundConstants, FileConstants, BundleConstants DEF HostType, AgentServices, Fault,
         Exit, At
    <3>3. LoaderType'
      BY <2>28, IdleIs DEF LoaderType, LoaderState, AgentServices, Fault, Exit, At
    <3>4. Phases'
      BY <2>28, IdleIs DEF Phases, LoaderType, LoaderState, AgentServices, Fault, Exit, At
    <3> QED
      BY <3>1, <3>2, <3>3, <3>4
  <2>29. CASE LoaderFails
    <3>1. ApiType'
      BY <2>29 DEF ApiType, LoaderFails, Fault, Exit
    <3>2. HostType'
      BY <2>29, BoundConstants DEF HostType, LoaderFails, Fault, Exit
    <3>3. LoaderType'
      BY <2>29, IdleIs DEF LoaderType, LoaderState, LoaderFails, Fault, Exit
    <3>4. Phases'
      BY <2>29, IdleIs DEF Phases, LoaderType, LoaderState, LoaderFails, Fault, Exit
    <3> QED
      BY <3>1, <3>2, <3>3, <3>4
  <2>30. CASE AgentFails
    <3>1. ApiType'
      BY <2>30 DEF ApiType, AgentFails, Fault
    <3>2. HostType'
      BY <2>30, BoundConstants, FileConstants DEF HostType, AgentFails, Fault
    <3>3. LoaderType'
      BY <2>30 DEF LoaderType, AgentFails, Fault
    <3>4. Phases'
      BY <2>30 DEF Phases, AgentFails, Fault
    <3> QED
      BY <3>1, <3>2, <3>3, <3>4
  <2>31. CASE UNCHANGED vars
    BY <2>31 DEF vars, ApiType, HostType, LoaderType, Phases
  <2> QED
    BY <2>1, <2>2, <2>3, <2>4, <2>5, <2>6, <2>7, <2>8, <2>9, <2>10, <2>11, <2>12, <2>13, <2>14,
       <2>15, <2>16, <2>17, <2>18, <2>19, <2>20, <2>21, <2>22, <2>23, <2>24, <2>25, <2>26, <2>27,
       <2>28, <2>29, <2>30, <2>31
    DEF Next, Requests, Calls, Loader
<1> QED
  BY <1>1, <1>2, PTL DEF Spec

(* Type correctness of the tables of manifests and loaders, of the files of the   *)
(* host and of the process mig-loader.                                            *)
THEOREM TypeCorrect == Spec => []TypeOK
BY TypesAndPhases, PTL

--------------------------------------------------------------------------------
(* What a step may change.                                                    *)

(* The calls of the API and a failure of the agent do not touch the loader.     *)
LEMMA LoaderChanges ==
  [Next]_vars => loader' = loader \/ StartLoader \/ StartCheckOnly \/ Loader \/ LoaderFails
BY DEF Next, vars, Requests, Calls, NewManifest, SignManifest, StageManifest, DisableManifest,
   CountSignatures, UpdateStatus, CallFails, NewLoader, KeyLoader, CopyKey, StatusLoader,
   ExpectLoader, AgentFails

(* The loader, and a failure of the agent, do not touch the tables of manifests.  *)
LEMMA ApiUnchanged ==
  StartLoader \/ StartCheckOnly \/ Loader \/ LoaderFails \/ AgentFails => UNCHANGED apiVars
BY DEF StartLoader, StartCheckOnly, Loader, LoaderFails, AgentFails, Step, Authenticate,
   CompareLoaderExpectEnv, ManifestIDFromLoaderID, GetManifestFromID, GetLoaderName,
   CheckManifestSignature, CheckEntry, ValidateStaged, RenameExisting, InstallStaged,
   EndOfBundle, AgentRunning, TerminateAgent, AgentServices

(* Files only change where the loader replaces them.                          *)
LEMMA InstalledChanges ==
  [Next]_vars => installed' = installed \/ RenameExisting \/ InstallStaged
BY DEF Next, vars, Requests, Calls, NewManifest, SignManifest, StageManifest, DisableManifest,
   CountSignatures, UpdateStatus, CallFails, NewLoader, KeyLoader, CopyKey, StatusLoader,
   ExpectLoader, AgentFails, StartLoader, StartCheckOnly, Loader, LoaderFails, Step,
   Authenticate, CompareLoaderExpectEnv, ManifestIDFromLoaderID, GetManifestFromID,
   GetLoaderName, CheckManifestSignature, CheckEntry, ValidateStaged, EndOfBundle,
   AgentRunning, TerminateAgent, AgentServices

LEMMA RunningChanges ==
  [Next]_vars => running' \in {running, NoFile} \/ (AgentServices /\ running' = installed[AgentEntry])
BY DEF Next, vars, Requests, Calls, NewManifest, SignManifest, StageManifest, DisableManifest,
   CountSignatures, UpdateStatus, CallFails, NewLoader, KeyLoader, CopyKey, StatusLoader,
   ExpectLoader, AgentFails, StartLoader, StartCheckOnly, Loader, LoaderFails, Step,
   Authenticate, CompareLoaderExpectEnv, ManifestIDFromLoaderID, GetManifestFromID,
   GetLoaderName, CheckManifestSignature, CheckEntry, ValidateStaged, RenameExisting,
   InstallStaged, EndOfBundle, AgentRunning, TerminateAgent, AgentServices

(* A manifest that is disabled stays so, whatever calls are half-way.           *)
LEMMA DisabledForever ==
  ASSUME TypeOK, [Next]_vars, NEW m \in Manifests, manifests[m] = "disabled"
  PROVE  manifests'[m] = "disabled"
<1> USE DEF TypeOK, ApiType, apiVars
<1>1. ASSUME NEW n \in Manifests, NewManifest(n) \/ DisableManifest(n) PROVE manifests'[m] = "disabled"
  BY <1>1 DEF NewManifest, DisableManifest
<1>2. ASSUME NEW c \in calls, UpdateStatus(c) PROVE manifests'[m] = "disabled"
  BY <1>2 DEF UpdateStatus, Updated
<1>3. CASE UNCHANGED manifests
  BY <1>3
<1> QED
  BY <1>1, <1>2, <1>3, ApiUnchanged DEF Next, vars, Requests, Calls, SignManifest, StageManifest,
     CountSignatures, CallFails, NewLoader, KeyLoader, CopyKey, StatusLoader, ExpectLoader

(* Those who have signed a manifest have signed it, although signatures are deleted. *)
LEMMA SignedByGrows ==
  ASSUME TypeOK, [Next]_vars, NEW m \in Manifests
  PROVE  /\ signedBy[m] \subseteq signedBy'[m]
         /\ IsFiniteSet(signedBy[m]) => IsFiniteSet(signedBy'[m])
<1> USE DEF TypeOK, ApiType, apiVars
<1>1. ASSUME NEW n \in Manifests, NEW i \in Investigators, SignManifest(n, i)
      PROVE  /\ signedBy[m] \subseteq signedBy'[m]
             /\ IsFiniteSet(signedBy[m]) => IsFiniteSet(signedBy'[m])
  <2>1. signedBy'[m] \in {signedBy[m], signedBy[m] \union {i}}
    BY <1>1 DEF SignManifest
  <2> QED
    BY <2>1, FS_AddElement, SMTT(30)
<1>2. CASE UNCHANGED signedBy
  BY <1>2
<1> QED
  BY <1>1, <1>2, ApiUnchanged DEF Next, vars, Requests, Calls, NewManifest, StageManifest,
     DisableManifest, CountSignatures, UpdateStatus, CallFails, NewLoader, KeyLoader, CopyKey,
     StatusLoader, ExpectLoader

(* So a manifest with enough signatures once had enough of them for ever.        *)
LEMMA SignedForever ==
  ASSUME TypeOK, [Next]_vars, NEW m \in Manifests, IsFiniteSet(signedBy[m]), Signed(m)
  PROVE  Signed(m)'
<1>1. IsFiniteSet(signedBy'[m] \intersect Trusted)
  BY SignedByGrows, FS_Intersection
<1>2. signedBy[m] \intersect Trusted \in SUBSET (signedBy'[m] \intersect Trusted)
  BY SignedByGrows
<1>3. Cardinality(signedBy[m] \intersect Trusted) <= Cardinality(signedBy'[m] \intersect Trusted)
  BY <1>1, <1>2, FS_Subset
<1>4. /\ Cardinality(signedBy[m] \intersect Trusted) \in Nat
      /\ Cardinality(signedBy'[m] \intersect Trusted) \in Nat
  BY <1>1, <1>2, FS_Subset, FS_CardinalityType
<1> QED
  BY <1>3, <1>4, BoundConstants DEF Signed

--------------------------------------------------------------------------------
(* ManifestIDFromLoaderID: a manifest that is disabled when a request begins is not    *)
(* served to it.  The answer is chosen among the active manifests, and Disabled says   *)
(* that none of those noted when the request began has become one.                     *)
THEOREM DisabledNotServed == Spec => []DisabledIsNotServed
<1> DEFINE Inv == Disabled /\ DisabledIsNotServed
<1>1. Init => Inv
  BY IdleIs DEF Init, Disabled, DisabledIsNotServed
<1>2. Inv /\ TypeOK /\ Phases /\ TypeOK' /\ [Next]_vars => Inv'
  <2> SUFFICES ASSUME Inv, TypeOK, Phases, TypeOK', [Next]_vars PROVE Inv'
    OBVIOUS
  <2> USE DEF Disabled, DisabledIsNotServed
  <2>1. loader \in LoaderState /\ loader.before \subseteq Manifests
    BY DEF TypeOK, LoaderType, LoaderState
  <2>2. CASE loader'.before = loader.before /\ loader'.manifest = loader.manifest
    BY <2>1, <2>2, DisabledForever
  <2>3. CASE loader'.before = {}
    BY <2>3
  <2>4. CASE Authenticate
    <3>1. CASE Exit
      BY <2>3, <3>1, IdleIs DEF Exit
    <3>2. CASE loader' = [loader EXCEPT !.pc = "compare",
                            !.before = {m \in Manifests : manifests[m] = "disabled"}]
      <4>1. loader'.before = {m \in Manifests : manifests[m] = "disabled"} /\ loader'.manifest = None
        BY <2>1, <2>4, <3>2 DEF LoaderState, Phases, Authenticate, At
      <4> QED
        BY <4>1, DisabledForever, NoneConstant
    <3> QED
      BY <2>4, <3>1, <3>2 DEF Authenticate
  <2>5. CASE ManifestIDFromLoaderID
    <3>1. CASE Exit
      BY <2>3, <3>1, IdleIs DEF Exit
    <3>2. ASSUME NEW m \in Manifests, IsNewest(m),
                 loader' = [loader EXCEPT !.pc = "get", !.manifest = m]
          PROVE  Inv'
      <4>1. loader'.before = loader.before /\ loader'.manifest = m
        BY <2>1, <3>2 DEF LoaderState
      <4>2. m \notin loader.before
        BY <3>2 DEF IsNewest, Matching
      <4> QED
        BY <2>1, <4>1, <4>2, DisabledForever
    <3> QED
      BY <2>5, <3>1, <3>2 DEF ManifestIDFromLoaderID, NoManifest
  <2>6. CASE loader' = loader \/ StartLoader \/ StartCheckOnly \/ CompareLoaderExpectEnv
             \/ GetManifestFromID \/ GetLoaderName \/ CheckEntry \/ ValidateStaged
             \/ RenameExisting \/ EndOfBundle \/ AgentRunning \/ TerminateAgent
    <3>1. CASE Exit
      BY <2>3, <3>1, IdleIs DEF Exit
    <3>2. ASSUME ~ Exit
          PROVE  loader'.before = loader.before /\ loader'.manifest = loader.manifest
      BY <2>1, <2>6, <3>2, ZenonT(30) DEF LoaderState, StartLoader, StartCheckOnly, CompareLoaderExpectEnv,
         GetManifestFromID, GetLoaderName, CheckEntry, ValidateStaged, RenameExisting,
         EndOfBundle, AgentRunning, TerminateAgent
    <3> QED
      BY <2>2, <3>1, <3>2
  <2>7. CASE CheckManifestSignature \/ InstallStaged \/ AgentServices \/ LoaderFails
    <3>1. loader'.before = {}
      BY <2>1, <2>7, IdleIs DEF LoaderState, Exit, CheckManifestSignature, InstallStaged,
         AgentServices, LoaderFails
    <3> QED
      BY <2>3, <3>1
  <2> QED
    BY <2>4, <2>5, <2>6, <2>7, LoaderChanges DEF Loader
<1>3. Inv => DisabledIsNotServed
  OBVIOUS
<1> QED
  BY <1>1, <1>2, <1>3, TypesAndPhases, PTL DEF Spec

--------------------------------------------------------------------------------
(* VerifySignatures: a set of signatures that the loader accepts is no larger than the  *)
(* set of the trusted investigators who have signed.                                    *)
LEMMA VerifiedIsSigned ==
  ASSUME NEW m \in Manifests, NEW sigs, sigs \subseteq signedBy[m], IsFiniteSet(signedBy[m]),
         Verified(sigs)
  PROVE  Signed(m)
<1>1. IsFiniteSet(signedBy[m] \intersect Trusted)
  BY FS_Intersection
<1>2. sigs \in SUBSET (signedBy[m] \intersect Trusted)
  BY DEF Verified
<1>3. /\ Cardinality(sigs) <= Cardinality(signedBy[m] \intersect Trusted)
      /\ Cardinality(sigs) \in Nat
      /\ Cardinality(signedBy[m] \intersect Trusted) \in Nat
  BY <1>1, <1>2, FS_Subset, FS_CardinalityType
<1> QED
  BY <1>3, BoundConstants DEF Signed, Verified

(* Signatures in the table, and those on their way to the loader, have been made, by a   *)
(* finite number of investigators.                                                       *)
LEMMA SignaturesMade == Spec => []SignaturesAreMade
<1>1. Init => SignaturesAreMade
  BY FS_EmptySet, IdleIs DEF Init, SignaturesAreMade
<1>2. SignaturesAreMade /\ TypeOK /\ Phases /\ [Next]_vars => SignaturesAreMade'
  <2> SUFFICES ASSUME SignaturesAreMade, TypeOK, Phases, [Next]_vars PROVE SignaturesAreMade'
    OBVIOUS
  <2> USE DEF SignaturesAreMade
  <2>1. \A m \in Manifests : signatures'[m] \subseteq signedBy'[m]
    <3>1. ASSUME NEW n \in Manifests, NEW i \in Investigators, SignManifest(n, i)
          PROVE  \A m \in Manifests : signatures'[m] \subseteq signedBy'[m]
      BY <3>1 DEF SignManifest, TypeOK, ApiType
    <3>2. ASSUME NEW n \in Manifests, StageManifest(n)
          PROVE  \A m \in Manifests : signatures'[m] \subseteq signedBy'[m]
      BY <3>2 DEF StageManifest, TypeOK, ApiType
    <3>3. CASE UNCHANGED <<signatures, signedBy>>
      BY <3>3
    <3> QED
      BY <3>1, <3>2, <3>3, ApiUnchanged DEF Next, vars, apiVars, Requests, Calls, NewManifest,
         DisableManifest, CountSignatures, UpdateStatus, CallFails, NewLoader, KeyLoader, CopyKey,
         StatusLoader, ExpectLoader
  <2>2. \A m \in Manifests : IsFiniteSet(signedBy'[m])
    BY SignedByGrows
  <2>3. loader'.pc \in {"name", "verify"} => loader'.sigs \subseteq signedBy'[loader'.manifest]
    <3>1. loader \in LoaderState
      BY DEF TypeOK, LoaderType
    <3>2. loader.pc \in {"get", "name", "verify"} => loader.manifest \in Manifests
      BY <3>1 DEF TypeOK, LoaderType, LoaderState
    <3>3. CASE loader' = loader
      BY <3>2, <3>3, SignedByGrows
    <3>4. CASE GetManifestFromID
      <4>1. CASE loader' = [loader EXCEPT !.pc = "name", !.sigs = signatures[loader.manifest]]
        <5>1. loader'.sigs = signatures[loader.manifest] /\ loader'.manifest = loader.manifest
          BY <3>1, <4>1 DEF LoaderState
        <5> QED
          BY <3>2, <3>4, <5>1, SignedByGrows DEF GetManifestFromID, At
      <4>2. CASE loader' = [loader EXCEPT !.pc = "fetched"]
        BY <3>1, <4>2 DEF LoaderState
      <4> QED
        BY <3>4, <4>1, <4>2 DEF GetManifestFromID
    <3>5. CASE GetLoaderName
      <4>1. CASE Exit
        BY <4>1, IdleIs DEF Exit
      <4>2. CASE loader' = [loader EXCEPT !.pc = "verify"]
        <5>1. loader'.sigs = loader.sigs /\ loader'.manifest = loader.manifest
          BY <3>1, <4>2 DEF LoaderState
        <5> QED
          BY <3>2, <3>5, <5>1, SignedByGrows DEF GetLoaderName, At
      <4> QED
        BY <3>5, <4>1, <4>2 DEF GetLoaderName
    <3>6. CASE StartLoader \/ StartCheckOnly \/ Authenticate \/ CompareLoaderExpectEnv
               \/ ManifestIDFromLoaderID \/ CheckManifestSignature \/ CheckEntry
               \/ ValidateStaged \/ RenameExisting \/ InstallStaged \/ EndOfBundle
               \/ AgentRunning \/ TerminateAgent \/ AgentServices \/ LoaderFails
      <4>1. loader'.pc \notin {"name", "verify"}
        BY <3>1, <3>6, IdleIs, ZenonT(30) DEF LoaderState, Exit, NoManifest, At, StartLoader, StartCheckOnly,
           Authenticate, CompareLoaderExpectEnv, ManifestIDFromLoaderID, CheckManifestSignature,
           CheckEntry, ValidateStaged, RenameExisting, InstallStaged, EndOfBundle, AgentRunning,
           TerminateAgent, AgentServices, LoaderFails
      <4> QED
        BY <4>1
    <3> QED
      BY <3>3, <3>4, <3>5, <3>6, LoaderChanges DEF Loader
  <2> QED
    BY <2>1, <2>2, <2>3
<1> QED
  BY <1>1, <1>2, TypesAndPhases, PTL DEF Spec

(* What the loader has accepted, and what is installed, go together: the hash ties the  *)
(* file that the API sends to the manifest that was verified.                           *)
LEMMA AcceptedAndInstalled == Spec => [](AcceptedIsSigned /\ InstalledIsSigned)
<1> DEFINE Inv == AcceptedIsSigned /\ InstalledIsSigned
<1>1. Init /\ TypeOK => Inv
  BY IdleIs DEF Init, AcceptedIsSigned, InstalledIsSigned
<1>2. Inv /\ TypeOK /\ Phases /\ SignaturesAreMade /\ TypeOK' /\ [Next]_vars => Inv'
  <2> SUFFICES ASSUME Inv, TypeOK, Phases, SignaturesAreMade, TypeOK', [Next]_vars PROVE Inv'
    OBVIOUS
  <2>1. loader \in LoaderState
    BY DEF TypeOK, LoaderType
  <2>2. \A m \in Manifests : Signed(m) => Signed(m)'
    BY SignedForever DEF SignaturesAreMade
  <2>3. AcceptedIsSigned'
    <3> USE DEF AcceptedIsSigned
    <3>1. loader.apiManifest # None => loader.apiManifest \in Manifests
      BY <2>1 DEF LoaderState
    <3>2. CASE loader' = loader
      BY <2>2, <3>1, <3>2 DEF Wanted
    <3>3. CASE Exit
      BY <3>3, IdleIs DEF Exit
    <3>4. CASE CheckManifestSignature
      <4>1. CASE /\ Verified(loader.sigs)
                 /\ loader' = [loader EXCEPT !.pc = "entry", !.apiManifest = loader.manifest,
                                 !.manifest = None, !.sigs = {}, !.before = {}]
        <5>1. loader'.apiManifest = loader.manifest /\ loader'.pc = "entry"
          BY <2>1, <4>1 DEF LoaderState
        <5>2. loader.manifest \in Manifests
          BY <2>1, <3>4 DEF LoaderState, TypeOK, LoaderType, CheckManifestSignature, At
        <5>3. Signed(loader.manifest)
          BY <3>4, <4>1, <5>2, VerifiedIsSigned DEF SignaturesAreMade, CheckManifestSignature, At
        <5> QED
          BY <2>2, <5>1, <5>2, <5>3
      <4> QED
        BY <3>3, <3>4, <4>1 DEF CheckManifestSignature
    <3>5. CASE ValidateStaged
      <4>1. CASE /\ SameHash(Content[loader.manifest][loader.purpose], Wanted(loader.purpose))
                 /\ loader' = [loader EXCEPT !.pc = "rename"]
        <5>1. /\ loader'.apiManifest = loader.apiManifest /\ loader'.manifest = loader.manifest
              /\ loader'.purpose = loader.purpose
          BY <2>1, <4>1 DEF LoaderState
        <5> QED
          BY <2>2, <3>1, <4>1, <5>1 DEF SameHash, Wanted
      <4> QED
        BY <3>3, <3>5, <4>1 DEF ValidateStaged
    <3>6. CASE RenameExisting
      <4>1. /\ loader'.apiManifest = loader.apiManifest /\ loader'.manifest = loader.manifest
            /\ loader'.purpose = loader.purpose /\ loader.pc = "rename"
        BY <2>1, <3>6 DEF LoaderState, RenameExisting, At
      <4> QED
        BY <2>2, <3>1, <4>1 DEF Wanted
    <3>7. CASE StartLoader \/ StartCheckOnly \/ Authenticate \/ CompareLoaderExpectEnv
               \/ ManifestIDFromLoaderID \/ GetManifestFromID \/ GetLoaderName \/ CheckEntry
               \/ InstallStaged \/ EndOfBundle \/ AgentRunning \/ TerminateAgent
      <4>1. ASSUME ~ Exit
            PROVE  loader'.apiManifest = loader.apiManifest /\ loader'.pc \notin {"rename", "install"}
        BY <2>1, <3>7, <4>1 DEF LoaderState, NoManifest, StartLoader, StartCheckOnly, Authenticate,
           CompareLoaderExpectEnv, ManifestIDFromLoaderID, GetManifestFromID, GetLoaderName,
           CheckEntry, InstallStaged, EndOfBundle, AgentRunning, TerminateAgent, At
      <4> QED
        BY <2>2, <3>1, <3>3, <4>1
    <3> QED
      BY <3>2, <3>3, <3>4, <3>5, <3>6, <3>7, LoaderChanges DEF Loader, AgentServices, LoaderFails
  <2>4. \A e \in Entries : installed'[e] \in {NoFile, Initial} \union
          {Content[m][e] : m \in {n \in Manifests : Signed(n)'}}
    <3>1. \A e \in Entries : installed[e] \in {NoFile, Initial} \union
            {Content[m][e] : m \in {n \in Manifests : Signed(n)'}}
      BY <2>2 DEF InstalledIsSigned
    <3>2. installed \in [Entries -> Files] /\ loader.purpose \in Entries
      BY <2>1 DEF TypeOK, HostType, LoaderState
    <3>3. CASE installed' = installed
      BY <3>1, <3>3
    <3>4. CASE RenameExisting
      <4>1. installed' = [installed EXCEPT ![loader.purpose] = NoFile]
        BY <3>4 DEF RenameExisting
      <4> QED
        BY <3>1, <3>2, <4>1
    <3>5. CASE InstallStaged
      <4>1. PICK m \in Manifests : m = loader.apiManifest /\ Signed(m)
        BY <2>1, <3>5 DEF LoaderState, Phases, InstallStaged, AcceptedIsSigned, At
      <4>2. installed' = [installed EXCEPT ![loader.purpose] = Content[m][loader.purpose]]
        BY <3>5, <4>1 DEF InstallStaged, AcceptedIsSigned, Wanted, At
      <4> QED
        BY <2>2, <3>1, <3>2, <4>1, <4>2
    <3> QED
      BY <3>3, <3>4, <3>5, InstalledChanges
  <2>5. running' \in {NoFile, Initial} \union
          {Content[m][AgentEntry] : m \in {n \in Manifests : Signed(n)'}}
    BY <2>2, RunningChanges, BundleConstants DEF InstalledIsSigned
  <2> QED
    BY <2>3, <2>4, <2>5 DEF InstalledIsSigned, Signed
<1> QED
  BY <1>1, <1>2, TypesAndPhases, SignaturesMade, PTL DEF Spec

(* checkManifestSignature and fetchAndReplace: each file in place, and the agent    *)
(* that runs, comes from a manifest that enough of the loader's keys have signed,    *)
(* whatever the API has answered in between.                                         *)
THEOREM InstalledFromSigned == Spec => []InstalledIsSigned
BY AcceptedAndInstalled, PTL

--------------------------------------------------------------------------------
(* The files of the entries already gone through are those of the manifest that was    *)
(* verified; the others are still those that the loader hashed when it began.          *)
LEMMA FilesFollowed == Spec => []FilesFollow
<1>1. Init => FilesFollow
  BY IdleIs DEF Init, FilesFollow
<1>2. FilesFollow /\ TypeOK /\ Phases /\ AcceptedIsSigned /\ [Next]_vars => FilesFollow'
  <2> SUFFICES ASSUME FilesFollow, TypeOK, Phases, AcceptedIsSigned, [Next]_vars
               PROVE  FilesFollow'
    OBVIOUS
  <2>1. loader \in LoaderState /\ installed \in [Entries -> Files] /\ Len(Bundle) \in Nat
    BY BundleConstants DEF TypeOK, LoaderType, HostType
  <2>2. CASE Exit
    BY <2>2, IdleIs DEF Exit, FilesFollow
  <2>3. CASE loader' = loader /\ installed' = installed
    BY <2>3 DEF FilesFollow, InPlace, GoneThrough, Wanted
  <2>4. CASE StartLoader \/ StartCheckOnly
    <3>1. loader.apiManifest = None /\ loader.next = 1
      BY <2>4, IdleIs DEF Phases, StartLoader, StartCheckOnly, At
    <3>2. /\ loader'.apiManifest = None /\ loader'.next = 1 /\ installed' = installed
          /\ loader'.pc = "authenticate" => loader'.have = installed
          /\ loader'.pc \in {"authenticate", "running"}
      BY <2>1, <2>4, <3>1 DEF LoaderState, StartLoader, StartCheckOnly, Step
    <3> QED
      BY <3>2 DEF FilesFollow
  <2>5. CASE ~ Exit /\ (Authenticate \/ CompareLoaderExpectEnv \/ ManifestIDFromLoaderID
               \/ GetManifestFromID \/ GetLoaderName \/ ValidateStaged)
    <3>1. /\ loader.pc \in {"authenticate", "compare", "select", "get", "name", "fetched"}
          /\ loader'.pc \in {"compare", "select", "get", "name", "verify", "fetched", "rename"}
          /\ loader'.apiManifest = loader.apiManifest /\ loader'.have = loader.have
          /\ loader'.next = loader.next /\ installed' = installed
          /\ loader.pc = "fetched" => loader.apiManifest # None
      BY <2>1, <2>5, ZenonT(30) DEF LoaderState, Phases, NoManifest, Step, At, Authenticate,
         CompareLoaderExpectEnv, ManifestIDFromLoaderID, GetManifestFromID, GetLoaderName,
         ValidateStaged
    <3> QED
      BY <3>1 DEF FilesFollow, InPlace, GoneThrough, Wanted
  <2>6. CASE CheckManifestSignature /\ ~ Exit
    <3>1. /\ loader.pc = "verify" /\ loader.apiManifest = None /\ loader'.pc = "entry"
          /\ loader'.have = loader.have /\ loader'.next = loader.next /\ installed' = installed
      BY <2>1, <2>6 DEF LoaderState, Phases, CheckManifestSignature, Step, At
    <3>2. loader.next = 1
      BY <2>6, <3>1 DEF FilesFollow
    <3> QED
      BY <3>1, <3>2 DEF FilesFollow, InPlace, GoneThrough
  <2>7. CASE CheckEntry
    <3> DEFINE e == Bundle[loader.next]
    <3>1. loader.pc = "entry" /\ loader.apiManifest # None /\ installed' = installed
      BY <2>7 DEF Phases, CheckEntry, Step, At
    <3>2. CASE Same(e) /\ loader' = [loader EXCEPT !.next = @ + 1]
      <4>1. /\ loader'.pc = "entry" /\ loader'.next = loader.next + 1 /\ loader'.have = loader.have
            /\ loader'.apiManifest = loader.apiManifest
        BY <2>1, <3>1, <3>2 DEF LoaderState
      <4>2. e \in Entries /\ Wanted(e) # NoFile => installed[e] = Wanted(e)
        BY <3>1, <3>2 DEF FilesFollow, Same, InPlace
      <4>3. \A d \in Entries : GoneThrough(d)' => GoneThrough(d) \/ d = e
        BY <2>1, <4>1 DEF GoneThrough, LoaderState
      <4> QED
        BY <3>1, <4>1, <4>2, <4>3 DEF FilesFollow, InPlace, Wanted
    <3>3. CASE loader' = [loader EXCEPT !.pc = "authenticate", !.purpose = e, !.haveChanges = TRUE]
      <4>1. /\ loader'.pc = "authenticate" /\ loader'.next = loader.next
            /\ loader'.have = loader.have /\ loader'.apiManifest = loader.apiManifest
        BY <2>1, <3>1, <3>3 DEF LoaderState
      <4> QED
        BY <3>1, <4>1 DEF FilesFollow, InPlace, GoneThrough, Wanted
    <3> QED
      BY <2>7, <3>2, <3>3 DEF CheckEntry
  <2>8. CASE RenameExisting
    <3>1. /\ loader'.pc = "install" /\ loader'.next = loader.next /\ loader'.have = loader.have
          /\ loader'.apiManifest = loader.apiManifest /\ loader'.purpose = loader.purpose
          /\ loader.pc = "rename" /\ loader.apiManifest # None
      BY <2>1, <2>8 DEF LoaderState, Phases, RenameExisting, At
    <3>2. \A d \in Entries : d # loader.purpose => installed'[d] = installed[d]
      BY <2>1, <2>8 DEF RenameExisting
    <3> QED
      BY <3>1, <3>2 DEF FilesFollow, InPlace, GoneThrough, Wanted
  <2>9. CASE InstallStaged
    <3> DEFINE e == loader.purpose
    <3>1. /\ loader'.pc = "entry" /\ loader'.next = loader.next + 1 /\ loader'.have = loader.have
          /\ loader'.apiManifest = loader.apiManifest
          /\ loader.pc = "install" /\ loader.apiManifest # None
          /\ e = Bundle[loader.next]
      BY <2>1, <2>9 DEF LoaderState, Phases, InstallStaged, At
    <3>2. e \in Entries /\ installed'[e] = Wanted(e)
      BY <2>1, <2>9 DEF LoaderState, AcceptedIsSigned, InstallStaged, At
    <3>3. \A d \in Entries : d # e => installed'[d] = installed[d]
      BY <2>1, <2>9 DEF InstallStaged
    <3>4. \A d \in Entries : GoneThrough(d)' => GoneThrough(d) \/ d = e
      BY <2>1, <3>1 DEF GoneThrough, LoaderState
    <3> QED
      BY <3>1, <3>2, <3>3, <3>4 DEF FilesFollow, InPlace, Wanted
  <2>10. CASE EndOfBundle
    <3>1. /\ loader.pc = "entry" /\ loader.next > Len(Bundle) /\ installed' = installed
          /\ loader'.next = loader.next /\ loader'.have = loader.have
          /\ loader'.apiManifest = loader.apiManifest /\ loader'.pc \in {"terminate", "running"}
      BY <2>1, <2>10 DEF LoaderState, EndOfBundle, Step, At
    <3> QED
      BY <3>1 DEF FilesFollow, InPlace, GoneThrough, Wanted
  <2>11. CASE ~ Exit /\ (AgentRunning \/ TerminateAgent)
    <3>1. /\ loader.pc \in {"running", "terminate"} /\ loader'.pc \in {"terminate", "services"}
          /\ loader'.next = loader.next /\ loader'.have = loader.have
          /\ loader'.apiManifest = loader.apiManifest /\ installed' = installed
      BY <2>1, <2>11 DEF LoaderState, AgentRunning, TerminateAgent, Step, At
    <3> QED
      BY <3>1 DEF FilesFollow, InPlace, GoneThrough, Wanted
  <2> QED
    BY <2>2, <2>3, <2>4, <2>5, <2>6, <2>7, <2>8, <2>9, <2>10, <2>11, LoaderChanges,
       InstalledChanges DEF Loader, AgentServices, LoaderFails
<1> QED
  BY <1>1, <1>2, TypesAndPhases, AcceptedAndInstalled, PTL DEF Spec

(* compareManifest: when the files have been gone through, all are those of the one  *)
(* manifest that was verified, although each was fetched from what was the newest.   *)
THEOREM WholeInstall == Spec => []InstallIsWhole
<1>1. TypeOK /\ FilesFollow => InstallIsWhole
  <2> SUFFICES ASSUME TypeOK, FilesFollow, loader.apiManifest # None,
                      loader.pc \in {"terminate", "services"}, NEW e \in Entries, Wanted(e) # NoFile
               PROVE  installed[e] = Wanted(e)
    BY DEF InstallIsWhole
  <2>1. loader.next \in Nat /\ loader.next > Len(Bundle) /\ Len(Bundle) \in Nat
    BY BundleConstants DEF TypeOK, LoaderType, LoaderState, FilesFollow
  <2>2. GoneThrough(e)
    BY <2>1, BundleIndices DEF GoneThrough
  <2> QED
    BY <2>2 DEF FilesFollow, InPlace
<1> QED
  BY <1>1, TypesAndPhases, FilesFollowed, PTL

================================================================================
