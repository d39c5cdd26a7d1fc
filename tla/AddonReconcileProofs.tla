----------------------- MODULE AddonReconcileProofs -----------------------
(***************************************************************************)
(* Proofs about AddonReconcile, for any sets of versions and               *)
(* configurations, any service names and any bounds.                       *)
(***************************************************************************)
EXTENDS AddonReconcile, TLAPS

-----------------------------------------------------------------------------
(* The inductive invariant *)

Pass == {"loaded", "extracted", "prepared", "started", "activated", "down"}

Starting == {"extracted", "prepared", "started", "activated"}

\* The pass works on the desired state that is still there.
IsCurrent == desired.revision = want.revision /\ desired.state = "running"

\* Revisions are fresh, and every recorded one was handed out.
RevisionInv ==
    /\ desired.revision <= clock
    /\ runtime.revision <= clock
    /\ desired.state # "none" =>
          /\ desired.version \in Versions
          /\ desired.config \in Configs
          /\ runtime.revision <= desired.revision

\* While an uninstall runs, nothing is desired to run and no install is under way.
RemovalInv == removal # NoRemoval => desired.state # "running" /\ install = None

\* What the pass read, and how it relates to what is there now.
PassInv ==
    worker.pc \in Pass =>
        /\ want.state # "none"
        /\ want.version \in Versions
        /\ want.config \in Configs
        /\ runtime.revision <= want.revision
        /\ want.revision <= clock
        /\ desired.state # "none" => want.revision <= desired.revision
        /\ IsCurrent => want = desired

\* A pass that reads a running revision finds it as FinishStart left it.
PriorInv ==
    worker.pc = "loaded" =>
        /\ runtime = prior \/ runtime = NoRuntime
        /\ want.state = "running" /\ prior.state = "running"
              /\ prior.revision = want.revision =>
           prior.active = want.version /\ (want.force => prior.forced = want.revision)

\* A pass that starts or stops containers works on a revision not recorded as running.
StepInv ==
    /\ worker.pc \in Starting => want.state = "running"
    /\ worker.pc = "down" => want.state = "stopped"
    /\ worker.pc \in Starting =>
          ~(runtime.state = "running" /\ runtime.revision = want.revision)
    /\ worker.pc \in {"started", "activated"} /\ IsCurrent => up.version = want.version
    /\ worker.pc = "activated" /\ IsCurrent => current = want.version

\* AppliedMeansRunning, with what the next pass will compare.
AppliedInv ==
    desired.state = "running" /\ runtime.state = "running"
        /\ runtime.revision = desired.revision =>
        /\ runtime.active = desired.version
        /\ desired.force => runtime.forced = desired.revision
        /\ current = desired.version
        /\ up.version = desired.version

IndInv == /\ TypeOK
          /\ RevisionInv
          /\ RemovalInv
          /\ PassInv
          /\ PriorInv
          /\ StepInv
          /\ AppliedInv

\* Without an uninstall nothing is removed but by cleanup.
QuietInv ==
    uninstalls = 0 =>
        /\ removal = NoRemoval
        /\ RollbackIsPossible
        /\ InUseIsInstalled
        /\ runtime.state = "running" => runtime.files = runtime.active
        /\ worker.pc \in Pass => {worker.prev, worker.prior.files} \ {None, Link} \subseteq staged
        /\ worker.pc \in Pass \ {"activated"} => worker.prev = current
        /\ worker.pc \in {"loaded", "hooks"} => prior = runtime
        /\ worker.pc \in Starting => want.version \in staged
        /\ worker.pc = "activated" => current = want.version
        /\ worker.pc = "loaded" /\ want.state = "running" /\ IsApplied => current = prior.active
        /\ worker.pc = "hooks" => runtime.state = "running" /\ current = runtime.active
        /\ worker.pc = "prune" =>
              worker.victims \cap {current, runtime.active, runtime.previous, runtime.files} = {}

-----------------------------------------------------------------------------
(* Every step keeps the invariant *)

\* The empty records are well typed.
LEMMA EmptyTypes ==
    /\ NoDesired \in DesiredRecord
    /\ NoRuntime \in RuntimeRecord
    /\ Resting \in WorkerRecord
    /\ NoRemoval \in RemovalRecord
<1>1. NoDesired \in DesiredRecord
  BY DEF NoDesired, DesiredRecord
<1>2. NoRuntime \in RuntimeRecord
  BY DEF NoRuntime, RuntimeRecord
<1>3. NoRemoval \in RemovalRecord
  BY DEF NoRemoval, RemovalRecord
<1>4. QED
  BY <1>1, <1>2, <1>3 DEF Resting, WorkerRecord

\* The record of a failed pass is well typed.
LEMMA FailedPassType ==
    ASSUME TypeOK, FailedPass
    PROVE  runtime' \in RuntimeRecord /\ worker' \in WorkerRecord
<1>1. worker.prev \in Versions \cup {None}
  BY DEF TypeOK, WorkerRecord
<1>2. [NoRuntime EXCEPT !.state = "error", !.previous = worker.prev,
                        !.rollback = worker.prev # None] \in RuntimeRecord
  BY <1>1, EmptyTypes DEF RuntimeRecord
<1>3. QED
  BY <1>2, EmptyTypes DEF FailedPass, TypeOK

\* Building and starting containers keeps their types.
LEMMA BuiltType ==
    ASSUME TypeOK, PassInv, worker.pc = "prepared", compose[want.version] # None
    PROVE  Built \in [Services -> Versions \cup {None}] /\ Started(Built) \in Containers
<1>1. want.version \in Versions /\ compose[want.version] \in Configs
  BY DEF TypeOK, PassInv, Pass
<1>2. service \in Services
  BY <1>1 DEF service, Services
<1>3. Built \in [Services -> Versions \cup {None}]
  BY <1>1, <1>2 DEF Built, TypeOK
<1>4. QED
  BY <1>1, <1>2, <1>3 DEF Started, Containers

\* Staging an artifact touches neither the desired nor the runtime state.
LEMMA StageArtifactStep ==
    ASSUME IndInv, NEW v \in Versions, StageArtifact(v)
    PROVE  IndInv'
<1> USE DEF IndInv
<1>1. TypeOK'
  BY EmptyTypes DEF TypeOK, coreVars, WorkerRecord, DesiredRecord, PassInv, Pass,
     StageArtifact, CoreIsFree, Touch
<1>2. (RevisionInv /\ PassInv /\ PriorInv /\ StepInv /\ AppliedInv)'
  BY DEF RevisionInv, PassInv, IsCurrent, Pass, want, PriorInv, prior, StepInv,
     Starting, AppliedInv, StageArtifact, coreVars
<1>3. RemovalInv'
  BY DEF RemovalInv, StageArtifact, CoreIsFree, Touch, coreVars, TypeOK,
     WorkerRecord, DesiredRecord, RuntimeRecord
<1>4. QED
  BY <1>1, <1>2, <1>3

\* A fresh revision is newer than every recorded one, so nothing counts as applied.
LEMMA WriteDesiredStep ==
    ASSUME IndInv, NEW s \in {"running", "stopped"}, NEW v \in Versions,
           NEW c \in Configs, NEW f \in BOOLEAN, WriteDesired(s, v, c, f)
    PROVE  IndInv'
<1> USE DEF IndInv
<1>1. TypeOK'
  BY EmptyTypes DEF TypeOK, coreVars, WorkerRecord, DesiredRecord, PassInv, Pass,
     WriteDesired
<1>2. (RemovalInv /\ PriorInv)'
  BY DEF RemovalInv, PriorInv, want, prior, WriteDesired, coreVars
<1>3. RevisionInv'
  BY DEF RevisionInv, WriteDesired, coreVars, TypeOK, WorkerRecord, DesiredRecord,
     RuntimeRecord
<1>4. PassInv'
  BY DEF PassInv, IsCurrent, Pass, want, WriteDesired, coreVars, TypeOK,
     WorkerRecord, DesiredRecord, RuntimeRecord
<1>5. StepInv'
  BY DEF StepInv, Starting, IsCurrent, want, RevisionInv, PassInv, Pass, prior,
     WriteDesired, coreVars, TypeOK, WorkerRecord, DesiredRecord, RuntimeRecord
<1>6. AppliedInv'
  BY DEF AppliedInv, RevisionInv, PassInv, IsCurrent, Pass, want, prior,
     WriteDesired, coreVars, TypeOK, WorkerRecord, DesiredRecord, RuntimeRecord
<1>7. QED
  BY <1>1, <1>2, <1>3, <1>4, <1>5, <1>6

\* Giving an install up changes nothing the invariant speaks of.
LEMMA AbandonInstallStep ==
    ASSUME IndInv, AbandonInstall
    PROVE  IndInv'
<1> USE DEF IndInv
<1>1. TypeOK'
  BY DEF TypeOK, coreVars, AbandonInstall
<1>2. (RevisionInv /\ RemovalInv /\ PassInv /\ PriorInv /\ StepInv /\ AppliedInv)'
  BY DEF RevisionInv, RemovalInv, PassInv, IsCurrent, Pass, want, PriorInv, prior,
     StepInv, Starting, AppliedInv, AbandonInstall, coreVars
<1>3. QED
  BY <1>1, <1>2

\* A fresh revision is newer than every recorded one, so nothing counts as applied.
LEMMA UpdateDesiredStep ==
    ASSUME IndInv, NEW s \in {"running", "stopped"}, NEW v \in Versions,
           NEW c \in Configs, UpdateDesired(s, v, c)
    PROVE  IndInv'
<1> USE DEF IndInv
<1>1. TypeOK'
  BY EmptyTypes DEF TypeOK, coreVars, WorkerRecord, DesiredRecord, PassInv, Pass,
     UpdateDesired, CoreIsFree
<1>2. PriorInv'
  BY DEF PriorInv, want, prior, UpdateDesired, coreVars
<1>3. RevisionInv'
  BY DEF RevisionInv, UpdateDesired, CoreIsFree, coreVars, TypeOK, WorkerRecord,
     DesiredRecord, RuntimeRecord
<1>4. RemovalInv'
  BY DEF RemovalInv, UpdateDesired, CoreIsFree, coreVars, TypeOK, WorkerRecord,
     DesiredRecord, RuntimeRecord
<1>5. PassInv'
  BY DEF PassInv, IsCurrent, Pass, want, UpdateDesired, CoreIsFree, coreVars, TypeOK,
     WorkerRecord, DesiredRecord, RuntimeRecord
<1>6. StepInv'
  BY DEF StepInv, Starting, IsCurrent, want, RevisionInv, PassInv, Pass, prior,
     UpdateDesired, coreVars, TypeOK, WorkerRecord, DesiredRecord, RuntimeRecord
<1>7. AppliedInv'
  BY DEF AppliedInv, RevisionInv, PassInv, IsCurrent, Pass, want, prior,
     UpdateDesired, coreVars, TypeOK, WorkerRecord, DesiredRecord, RuntimeRecord
<1>8. QED
  BY <1>1, <1>2, <1>3, <1>4, <1>5, <1>6, <1>7

\* Asking for a stop keeps the revision but wants nothing running.
LEMMA UninstallStopStep ==
    ASSUME IndInv, UninstallStop
    PROVE  IndInv'
<1> USE DEF IndInv
<1>1. TypeOK'
  <2>1. UninstallFiles \subseteq Versions \cup {None, Link}
    BY DEF TypeOK, RuntimeRecord, UninstallFiles
  <2>2. removal' \in RemovalRecord
    BY <2>1 DEF UninstallStop, RemovalRecord
  <2>3. desired' \in DesiredRecord
    BY DEF TypeOK, DesiredRecord, UninstallStop
  <2>4. QED
    BY <2>2, <2>3 DEF TypeOK, UninstallStop
<1>2. (RevisionInv /\ PassInv /\ PriorInv /\ StepInv /\ AppliedInv)'
  BY DEF RevisionInv, PassInv, IsCurrent, Pass, want, PriorInv, prior, StepInv,
     Starting, AppliedInv, UninstallStop, coreVars
<1>3. RemovalInv'
  BY DEF RemovalInv, UninstallStop, CoreIsFree, IsInstalled, coreVars, TypeOK,
     WorkerRecord, DesiredRecord, RuntimeRecord
<1>4. QED
  BY <1>1, <1>2, <1>3

\* Containers go while nothing is desired to run.
LEMMA UninstallDownStep ==
    ASSUME IndInv, UninstallDown
    PROVE  IndInv'
<1> USE DEF IndInv
<1>1. TypeOK'
  <2>1. removal' \in RemovalRecord
    BY DEF TypeOK, RemovalRecord, UninstallDown
  <2>2. image' \in [Services -> Versions \cup {None}]
    BY DEF TypeOK, UninstallDown
  <2>3. up' \in Containers
    BY DEF TypeOK, Containers, Down, UninstallDown
  <2>4. failures' \in Nat
    BY DEF TypeOK, UninstallDown
  <2>5. QED
    BY <2>1, <2>2, <2>3, <2>4 DEF TypeOK, UninstallDown
<1>. removal # NoRemoval
  BY DEF UninstallDown, NoRemoval
<1>2. (RevisionInv /\ RemovalInv /\ PassInv /\ PriorInv)'
  BY DEF RevisionInv, RemovalInv, PassInv, IsCurrent, Pass, want, PriorInv, prior,
     UninstallDown, coreVars
<1>3. StepInv'
  BY AddonAssumption DEF TypeOK, DesiredRecord, RuntimeRecord, WorkerRecord,
     Containers, RevisionInv, RemovalInv, PassInv, PriorInv, StepInv, AppliedInv,
     IsCurrent, Pass, Starting, want, prior, UninstallDown, Down, coreVars
<1>4. AppliedInv'
  BY AddonAssumption DEF TypeOK, DesiredRecord, RuntimeRecord, WorkerRecord,
     Containers, RevisionInv, RemovalInv, PassInv, PriorInv, StepInv, AppliedInv,
     IsCurrent, Pass, Starting, want, prior, UninstallDown, Down, coreVars
<1>5. QED
  BY <1>1, <1>2, <1>3, <1>4

\* Without a desired state nothing can count as applied.
LEMMA UninstallRemoveStep ==
    ASSUME IndInv, UninstallRemove
    PROVE  IndInv'
<1> USE DEF IndInv
<1>1. TypeOK'
  BY EmptyTypes DEF TypeOK, coreVars, WorkerRecord, UninstallRemove
<1>2. (RemovalInv /\ PriorInv)'
  BY DEF RemovalInv, PriorInv, want, prior, UninstallRemove, coreVars
<1>3. RevisionInv'
  BY DEF RevisionInv, UninstallRemove, NoDesired, NoRuntime, coreVars, TypeOK,
     WorkerRecord, DesiredRecord, RuntimeRecord
<1>4. PassInv'
  BY DEF PassInv, IsCurrent, Pass, want, UninstallRemove, NoDesired, NoRuntime,
     coreVars, TypeOK, WorkerRecord, DesiredRecord, RuntimeRecord
<1>5. StepInv'
  BY DEF StepInv, Starting, IsCurrent, want, UninstallRemove, NoDesired, NoRuntime,
     coreVars, TypeOK, WorkerRecord, DesiredRecord, RuntimeRecord
<1>6. AppliedInv'
  BY DEF AppliedInv, UninstallRemove, NoDesired, NoRuntime, coreVars, TypeOK,
     WorkerRecord, DesiredRecord, RuntimeRecord
<1>7. QED
  BY <1>1, <1>2, <1>3, <1>4, <1>5, <1>6

\* A pass starts from what is recorded.
LEMMA LoadStep ==
    ASSUME IndInv, Load
    PROVE  IndInv'
<1> USE DEF IndInv
<1>1. TypeOK'
  BY EmptyTypes DEF coreVars, Load, TypeOK, WorkerRecord
<1>2. (RevisionInv /\ RemovalInv /\ StepInv /\ AppliedInv)'
  BY DEF RevisionInv, RemovalInv, StepInv, Starting, IsCurrent, want, AppliedInv,
     Load, Resting, coreVars
<1>3. PassInv'
  BY DEF PassInv, IsCurrent, Pass, want, RevisionInv, prior, Load, Resting, coreVars,
     TypeOK, WorkerRecord, DesiredRecord, RuntimeRecord
<1>4. PriorInv'
  BY AddonAssumption DEF TypeOK, DesiredRecord, RuntimeRecord, WorkerRecord,
     Containers, RevisionInv, RemovalInv, PassInv, PriorInv, StepInv, AppliedInv,
     IsCurrent, Pass, Starting, want, prior, Load, Resting, NoDesired, NoRuntime,
     coreVars
<1>5. QED
  BY <1>1, <1>2, <1>3, <1>4

\* A pass over an applied revision changes neither link nor containers.
LEMMA SkipStep ==
    ASSUME IndInv, Skip
    PROVE  IndInv'
<1> USE DEF IndInv
<1>1. TypeOK'
  <2>1. want.version \in Versions
    BY DEF Skip, PassInv, Pass
  <2>2. dirs' \subseteq Versions /\ newer' \subseteq Versions \X Versions
    BY <2>1 DEF Skip, MakeDir, Touch, TypeOK
  <2>3. worker' \in WorkerRecord
    BY DEF Skip, TypeOK, WorkerRecord
  <2>4. QED
    BY <2>2, <2>3 DEF coreVars, Skip, TypeOK
<1>2. (RevisionInv /\ RemovalInv /\ PassInv /\ PriorInv /\ StepInv /\ AppliedInv)'
  BY DEF RevisionInv, RemovalInv, PassInv, IsCurrent, Pass, want, PriorInv, prior,
     StepInv, Starting, AppliedInv, Skip, coreVars
<1>3. QED
  BY <1>1, <1>2

\* A pass that goes on works on a revision that is not recorded as running.
LEMMA PrepareStep ==
    ASSUME IndInv, Prepare
    PROVE  IndInv'
<1> USE DEF IndInv
<1>1. TypeOK'
  BY EmptyTypes DEF TypeOK, coreVars, WorkerRecord, DesiredRecord, PassInv, Pass,
     Prepare, Extract, MakeDir, Touch, IsApplied, MustRebuild
<1>2. (RevisionInv /\ RemovalInv /\ PassInv /\ PriorInv /\ AppliedInv)'
  BY DEF RevisionInv, RemovalInv, PassInv, IsCurrent, Pass, want, PriorInv, prior,
     AppliedInv, Prepare, coreVars
<1>3. StepInv'
  BY AddonAssumption DEF TypeOK, DesiredRecord, RuntimeRecord, WorkerRecord,
     Containers, RevisionInv, RemovalInv, PassInv, PriorInv, StepInv, AppliedInv,
     IsCurrent, Pass, Starting, want, prior, Prepare, Extract, MakeDir, Touch, IsApplied,
     MustRebuild, coreVars, NoRuntime
<1>4. QED
  BY <1>1, <1>2, <1>3

\* Writing the compose file disturbs no other file.
LEMMA WriteComposeStep ==
    ASSUME IndInv, WriteCompose
    PROVE  IndInv'
<1> USE DEF IndInv
<1>1. TypeOK'
  BY EmptyTypes DEF TypeOK, coreVars, WorkerRecord, DesiredRecord, PassInv, Pass,
     WriteCompose, Touch
<1>2. (RevisionInv /\ RemovalInv /\ PassInv /\ PriorInv /\ StepInv /\ AppliedInv)'
  BY DEF RevisionInv, RemovalInv, PassInv, IsCurrent, Pass, want, PriorInv, prior,
     StepInv, Starting, AppliedInv, WriteCompose, coreVars
<1>3. QED
  BY <1>1, <1>2

\* The containers change while the revision is not recorded as running.
LEMMA ComposeUpStep ==
    ASSUME IndInv, ComposeUp
    PROVE  IndInv'
<1> USE DEF IndInv
<1>1. TypeOK'
  <2>1. worker' \in WorkerRecord
    BY DEF ComposeUp, TypeOK, WorkerRecord
  <2>2. QED
    BY <2>1, BuiltType DEF coreVars, ComposeUp, TypeOK
<1>2. (RevisionInv /\ RemovalInv /\ PassInv /\ PriorInv)'
  BY DEF RevisionInv, RemovalInv, PassInv, IsCurrent, Pass, want, PriorInv, prior,
     ComposeUp, coreVars
<1>3. StepInv'
  BY DEF StepInv, Starting, IsCurrent, want, ComposeUp, Built, Started, service,
     Services, coreVars, TypeOK, WorkerRecord, DesiredRecord, RuntimeRecord
<1>4. AppliedInv'
  BY DEF AppliedInv, RevisionInv, PassInv, IsCurrent, Pass, want, prior, ComposeUp,
     Built, Started, service, Services, coreVars, TypeOK, WorkerRecord,
     DesiredRecord, RuntimeRecord
<1>5. QED
  BY <1>1, <1>2, <1>3, <1>4

\* The link follows the containers, still unrecorded.
LEMMA ActivateStep ==
    ASSUME IndInv, Activate
    PROVE  IndInv'
<1> USE DEF IndInv
<1>1. TypeOK'
  BY EmptyTypes DEF TypeOK, coreVars, WorkerRecord, DesiredRecord, PassInv, Pass,
     Activate
<1>2. (RevisionInv /\ RemovalInv /\ PassInv /\ PriorInv /\ StepInv)'
  BY DEF RevisionInv, RemovalInv, PassInv, IsCurrent, Pass, want, PriorInv, prior,
     StepInv, Starting, Activate, coreVars
<1>3. AppliedInv'
  BY DEF AppliedInv, RevisionInv, PassInv, IsCurrent, Pass, want, prior, Activate,
     coreVars, TypeOK, WorkerRecord, DesiredRecord, RuntimeRecord
<1>4. QED
  BY <1>1, <1>2, <1>3

\* The recorded revision is the one whose version was started and activated.
LEMMA FinishStartStep ==
    ASSUME IndInv, FinishStart
    PROVE  IndInv'
<1> USE DEF IndInv
<1>1. TypeOK'
  <2>1. /\ want \in DesiredRecord /\ want.version \in Versions /\ want.config \in Configs
        /\ worker.prev \in Versions \cup {None}
    BY DEF FinishStart, PassInv, Pass, TypeOK, WorkerRecord, want
  <2>2. runtime' \in RuntimeRecord
    BY <2>1 DEF FinishStart, RuntimeRecord, DesiredRecord, AppliedRevision,
       ForcedRevision
  <2>3. worker' \in WorkerRecord
    BY <2>2 DEF FinishStart, TypeOK, WorkerRecord
  <2>4. QED
    BY <2>2, <2>3 DEF coreVars, FinishStart, TypeOK
<1>2. (RemovalInv /\ PassInv /\ PriorInv /\ StepInv)'
  BY DEF RemovalInv, PassInv, IsCurrent, Pass, want, PriorInv, prior, StepInv,
     Starting, FinishStart, coreVars
<1>3. RevisionInv'
  BY DEF RevisionInv, PassInv, IsCurrent, Pass, want, prior, FinishStart,
     AppliedRevision, ForcedRevision, coreVars, TypeOK, WorkerRecord, DesiredRecord,
     RuntimeRecord
<1>4. AppliedInv'
  BY AddonAssumption DEF TypeOK, DesiredRecord, RuntimeRecord, WorkerRecord,
     Containers, RevisionInv, RemovalInv, PassInv, PriorInv, StepInv, AppliedInv,
     IsCurrent, Pass, Starting, want, prior, FinishStart, AppliedRevision,
     ForcedRevision, coreVars
<1>5. QED
  BY <1>1, <1>2, <1>3, <1>4

\* Containers stop for a revision that wants them stopped.
LEMMA ComposeDownStep ==
    ASSUME IndInv, ComposeDown
    PROVE  IndInv'
<1> USE DEF IndInv
<1>1. TypeOK'
  <2>1. StopFiles \in Versions \cup {None, Link} /\ prior \in RuntimeRecord
    BY DEF StopFiles, prior, TypeOK, WorkerRecord, RuntimeRecord
  <2>2. [prior EXCEPT !.files = StopFiles] \in RuntimeRecord
    BY <2>1 DEF RuntimeRecord
  <2>3. worker' = [[worker EXCEPT !.pc = "down"] EXCEPT !.prior = [prior EXCEPT !.files = StopFiles]]
    BY DEF ComposeDown, prior, TypeOK, WorkerRecord
  <2>4. worker' \in WorkerRecord
    BY <2>2, <2>3 DEF TypeOK, WorkerRecord
  <2>5. up' \in Containers
    BY DEF ComposeDown, Down, Containers, TypeOK
  <2>6. QED
    BY <2>4, <2>5 DEF coreVars, ComposeDown, TypeOK
<1>2. (RevisionInv /\ RemovalInv /\ PassInv /\ PriorInv /\ StepInv)'
  BY DEF RevisionInv, RemovalInv, PassInv, IsCurrent, Pass, want, PriorInv, prior,
     StepInv, Starting, ComposeDown, coreVars
<1>3. AppliedInv'
  BY DEF AppliedInv, RevisionInv, PassInv, IsCurrent, Pass, want, prior, ComposeDown,
     coreVars, TypeOK, WorkerRecord, DesiredRecord, RuntimeRecord
<1>4. QED
  BY <1>1, <1>2, <1>3

\* A stopped addon counts as applied to nothing.
LEMMA FinishStopStep ==
    ASSUME IndInv, FinishStop
    PROVE  IndInv'
<1> USE DEF IndInv
<1>1. TypeOK'
  <2>1. want \in DesiredRecord /\ prior \in RuntimeRecord
    BY DEF TypeOK, WorkerRecord, want, prior
  <2>2. runtime' \in RuntimeRecord
    BY <2>1 DEF FinishStop, RuntimeRecord, DesiredRecord, NoRuntime, AppliedRevision,
       ForcedRevision
  <2>3. QED
    BY <2>2, EmptyTypes DEF coreVars, FinishStop, TypeOK
<1>2. (RemovalInv /\ PassInv /\ PriorInv /\ StepInv /\ AppliedInv)'
  BY DEF RemovalInv, PassInv, IsCurrent, Pass, want, PriorInv, prior, StepInv,
     Starting, AppliedInv, FinishStop, Resting, coreVars
<1>3. RevisionInv'
  BY DEF RevisionInv, PassInv, IsCurrent, Pass, want, prior, FinishStop,
     AppliedRevision, ForcedRevision, NoRuntime, Resting, NoDesired, coreVars,
     TypeOK, WorkerRecord, DesiredRecord, RuntimeRecord
<1>4. QED
  BY <1>1, <1>2, <1>3

\* A failed pass counts as applied to nothing.
LEMMA ArtifactMissingStep ==
    ASSUME IndInv, ArtifactMissing
    PROVE  IndInv'
<1> USE DEF IndInv
<1>1. TypeOK'
  <2>1. want.version \in Versions
    BY DEF ArtifactMissing, PassInv, Pass
  <2>2. dirs' \subseteq Versions /\ newer' \subseteq Versions \X Versions
    BY <2>1 DEF ArtifactMissing, MakeDir, Touch, TypeOK
  <2>3. QED
    BY <2>2, FailedPassType DEF coreVars, ArtifactMissing, TypeOK
<1>2. (RemovalInv /\ PassInv /\ PriorInv /\ StepInv /\ AppliedInv)'
  BY DEF RemovalInv, PassInv, IsCurrent, Pass, want, PriorInv, prior, StepInv,
     Starting, AppliedInv, ArtifactMissing, FailedPass, Resting, coreVars
<1>3. RevisionInv'
  BY DEF RevisionInv, ArtifactMissing, MakeDir, Touch, FailedPass, NoRuntime,
     Resting, NoDesired, coreVars, TypeOK, WorkerRecord, DesiredRecord, RuntimeRecord
<1>4. QED
  BY <1>1, <1>2, <1>3

\* A failed pass counts as applied to nothing.
LEMMA StopFileMissingStep ==
    ASSUME IndInv, StopFileMissing
    PROVE  IndInv'
<1> USE DEF IndInv
<1>1. TypeOK'
  BY FailedPassType DEF coreVars, StopFileMissing, TypeOK
<1>2. (RemovalInv /\ PassInv /\ PriorInv /\ StepInv /\ AppliedInv)'
  BY DEF RemovalInv, PassInv, IsCurrent, Pass, want, PriorInv, prior, StepInv,
     Starting, AppliedInv, StopFileMissing, FailedPass, Resting, coreVars
<1>3. RevisionInv'
  BY DEF RevisionInv, StopFileMissing, FailedPass, NoRuntime, Resting, NoDesired,
     coreVars, TypeOK, WorkerRecord, DesiredRecord, RuntimeRecord
<1>4. QED
  BY <1>1, <1>2, <1>3

\* A failed pass counts as applied to nothing.
LEMMA DirectoryGoneStep ==
    ASSUME IndInv, DirectoryGone
    PROVE  IndInv'
<1> USE DEF IndInv
<1>1. TypeOK'
  BY FailedPassType DEF coreVars, DirectoryGone, TypeOK
<1>2. (RemovalInv /\ PassInv /\ PriorInv /\ StepInv /\ AppliedInv)'
  BY DEF RemovalInv, PassInv, IsCurrent, Pass, want, PriorInv, prior, StepInv,
     Starting, AppliedInv, DirectoryGone, FailedPass, Resting, coreVars
<1>3. RevisionInv'
  BY DEF RevisionInv, DirectoryGone, FailedPass, NoRuntime, Resting, NoDesired,
     coreVars, TypeOK, WorkerRecord, DesiredRecord, RuntimeRecord
<1>4. QED
  BY <1>1, <1>2, <1>3

\* A failed pass counts as applied to nothing, whatever it did to the containers.
LEMMA StepFailsStep ==
    ASSUME IndInv, StepFails
    PROVE  IndInv'
<1> USE DEF IndInv
<1>1. TypeOK'
  <2>1. worker.pc = "loaded" => want.version \in Versions
    BY DEF PassInv, Pass
  <2>2. dirs' \subseteq Versions /\ newer' \subseteq Versions \X Versions
    BY <2>1 DEF StepFails, Extract, MakeDir, Touch, TypeOK
  <2>3. image' \in [Services -> Versions \cup {None}] /\ up' \in Containers
    BY BuiltType DEF StepFails, TypeOK, Down, Containers
  <2>4. QED
    BY <2>2, <2>3, FailedPassType DEF coreVars, StepFails, TypeOK
<1>2. (RemovalInv /\ PassInv /\ PriorInv /\ StepInv)'
  BY DEF RemovalInv, PassInv, IsCurrent, Pass, want, PriorInv, prior, StepInv,
     Starting, StepFails, FailedPass, Resting, coreVars
<1>3. RevisionInv'
  BY DEF RevisionInv, StepFails, Extract, MakeDir, Touch, FailedPass, NoRuntime,
     Resting,
     NoDesired, Built, Started, service, Services, Down, coreVars, TypeOK,
     WorkerRecord, DesiredRecord, RuntimeRecord
<1>4. AppliedInv'
  BY DEF AppliedInv, RevisionInv, PassInv, IsCurrent, Pass, want, prior, StepFails,
     Extract, MakeDir, Touch, FailedPass, NoRuntime, Resting, NoDesired, Built, Started,
     service, Services, Down, coreVars, TypeOK, WorkerRecord, DesiredRecord,
     RuntimeRecord
<1>5. QED
  BY <1>1, <1>2, <1>3, <1>4

\* Choosing what to prune changes nothing else.
LEMMA CleanupStep ==
    ASSUME IndInv, Cleanup
    PROVE  IndInv'
<1> USE DEF IndInv
<1>1. TypeOK'
  <2>1. worker' \in WorkerRecord
    BY EmptyTypes DEF Cleanup, TypeOK, WorkerRecord
  <2>2. QED
    BY <2>1 DEF coreVars, Cleanup, TypeOK
<1>2. (RevisionInv /\ RemovalInv /\ PassInv /\ PriorInv /\ StepInv /\ AppliedInv)'
  BY DEF RevisionInv, RemovalInv, PassInv, IsCurrent, Pass, want, PriorInv, prior,
     StepInv, Starting, AppliedInv, Cleanup, Resting, coreVars
<1>3. QED
  BY <1>1, <1>2

\* Pruning touches neither records, link nor containers.
LEMMA PruneStep ==
    ASSUME IndInv, NEW v \in Versions, Prune(v)
    PROVE  IndInv'
<1> USE DEF IndInv
<1>1. TypeOK'
  BY EmptyTypes DEF TypeOK, coreVars, WorkerRecord, Prune, Resting
<1>2. (RevisionInv /\ RemovalInv /\ PassInv /\ PriorInv /\ StepInv /\ AppliedInv)'
  BY DEF RevisionInv, RemovalInv, PassInv, IsCurrent, Pass, want, PriorInv, prior,
     StepInv, Starting, AppliedInv, Prune, Resting, coreVars
<1>3. QED
  BY <1>1, <1>2

\* A crash forgets the pass and nothing else.
LEMMA CrashStep ==
    ASSUME IndInv, Crash
    PROVE  IndInv'
<1> USE DEF IndInv
<1>1. TypeOK'
  BY EmptyTypes DEF TypeOK, coreVars, WorkerRecord, Crash, Resting
<1>2. (RevisionInv /\ RemovalInv /\ PassInv /\ PriorInv /\ StepInv /\ AppliedInv)'
  BY DEF RevisionInv, RemovalInv, PassInv, IsCurrent, Pass, want, PriorInv, prior,
     StepInv, Starting, AppliedInv, Crash, Resting, coreVars
<1>3. QED
  BY <1>1, <1>2

-----------------------------------------------------------------------------
(* Steps while nothing is uninstalled *)

\* Cleanup keeps the active and the previous version.
LEMMA KeepsNamed ==
    ASSUME NEW a, NEW b
    PROVE  {a, b} \ {None} \subseteq KeepSet(a, b)
BY DEF KeepSet

\* It only adds an installed version.
LEMMA StageArtifactQuiet ==
    ASSUME IndInv, QuietInv, NEW v \in Versions, StageArtifact(v)
    PROVE  QuietInv'
BY DEF QuietInv, Pass, Starting, want, prior, IsApplied, MustRebuild,
   RollbackIsPossible, InUseIsInstalled, Resolve, StageArtifact, coreVars

\* The desired state is not part of what is installed.
LEMMA WriteDesiredQuiet ==
    ASSUME IndInv, QuietInv, NEW s \in {"running", "stopped"}, NEW v \in Versions,
           NEW c \in Configs, NEW f \in BOOLEAN, WriteDesired(s, v, c, f)
    PROVE  QuietInv'
BY DEF QuietInv, Pass, Starting, want, prior, IsApplied, MustRebuild,
   RollbackIsPossible, InUseIsInstalled, Resolve, WriteDesired, coreVars

\* Nor what is installed.
LEMMA AbandonInstallQuiet ==
    ASSUME IndInv, QuietInv, AbandonInstall
    PROVE  QuietInv'
BY DEF QuietInv, Pass, Starting, want, prior, IsApplied, MustRebuild,
   RollbackIsPossible, InUseIsInstalled, Resolve, AbandonInstall, coreVars

\* The desired state is not part of what is installed.
LEMMA UpdateDesiredQuiet ==
    ASSUME IndInv, QuietInv, NEW s \in {"running", "stopped"}, NEW v \in Versions,
           NEW c \in Configs, UpdateDesired(s, v, c)
    PROVE  QuietInv'
BY DEF QuietInv, Pass, Starting, want, prior, IsApplied, MustRebuild,
   RollbackIsPossible, InUseIsInstalled, Resolve, UpdateDesired, coreVars

\* From here on an uninstall has begun.
LEMMA UninstallStopQuiet ==
    ASSUME IndInv, QuietInv, UninstallStop
    PROVE  QuietInv'
BY DEF QuietInv, Pass, Starting, want, prior, IsApplied, MustRebuild,
   RollbackIsPossible, InUseIsInstalled, Resolve, UninstallStop, CoreIsFree,
   IsInstalled, coreVars, IndInv, TypeOK, WorkerRecord

\* An uninstall has begun.
LEMMA UninstallDownQuiet ==
    ASSUME IndInv, QuietInv, UninstallDown
    PROVE  QuietInv'
BY DEF QuietInv, UninstallDown, NoRemoval, coreVars

\* An uninstall has begun.
LEMMA UninstallRemoveQuiet ==
    ASSUME IndInv, QuietInv, UninstallRemove
    PROVE  QuietInv'
BY DEF QuietInv, UninstallRemove, NoRemoval, coreVars

\* The current link it reads points to an installed version.
LEMMA LoadQuiet ==
    ASSUME IndInv, QuietInv, Load
    PROVE  QuietInv'
BY AddonAssumption DEF IndInv, coreVars, TypeOK, DesiredRecord, RuntimeRecord,
   WorkerRecord, Containers, QuietInv, RollbackIsPossible, InUseIsInstalled, Resolve,
   Pass, Starting, want, prior, AppliedInv, IsApplied, Load, Resting

\* The link and the active version agree when a revision is applied.
LEMMA SkipQuiet ==
    ASSUME IndInv, QuietInv, Skip
    PROVE  QuietInv'
BY DEF QuietInv, Pass, Starting, want, prior, IsApplied, MustRebuild,
   RollbackIsPossible, InUseIsInstalled, Resolve, Skip, coreVars

\* The artifact was found.
LEMMA PrepareQuiet ==
    ASSUME IndInv, QuietInv, Prepare
    PROVE  QuietInv'
BY DEF QuietInv, Pass, Starting, want, prior, IsApplied, MustRebuild,
   RollbackIsPossible, InUseIsInstalled, Resolve, Prepare, coreVars

\* Nor any artifact.
LEMMA WriteComposeQuiet ==
    ASSUME IndInv, QuietInv, WriteCompose
    PROVE  QuietInv'
BY DEF QuietInv, Pass, Starting, want, prior, IsApplied, MustRebuild,
   RollbackIsPossible, InUseIsInstalled, Resolve, WriteCompose, coreVars

\* No version is removed.
LEMMA ComposeUpQuiet ==
    ASSUME IndInv, QuietInv, ComposeUp
    PROVE  QuietInv'
BY DEF QuietInv, Pass, Starting, want, prior, IsApplied, MustRebuild,
   RollbackIsPossible, InUseIsInstalled, Resolve, ComposeUp, coreVars

\* The link moves to an installed version.
LEMMA ActivateQuiet ==
    ASSUME IndInv, QuietInv, Activate
    PROVE  QuietInv'
BY DEF QuietInv, Pass, Starting, want, prior, IsApplied, MustRebuild,
   RollbackIsPossible, InUseIsInstalled, Resolve, Activate, coreVars

\* The version to roll back to was installed when the pass read it, and still is.
LEMMA FinishStartQuiet ==
    ASSUME IndInv, QuietInv, FinishStart
    PROVE  QuietInv'
BY AddonAssumption, ZenonT(60) DEF IndInv, coreVars, TypeOK, DesiredRecord, RuntimeRecord,
   WorkerRecord, Containers, QuietInv, RollbackIsPossible, InUseIsInstalled, Resolve,
   Pass, Starting, want, prior, IsApplied, MustRebuild, FinishStart, AppliedRevision,
   ForcedRevision

\* The files it used are recorded as they were found.
LEMMA ComposeDownQuiet ==
    ASSUME IndInv, QuietInv, ComposeDown
    PROVE  QuietInv'
BY AddonAssumption DEF IndInv, coreVars, TypeOK, DesiredRecord, RuntimeRecord,
   WorkerRecord, Containers, QuietInv, RollbackIsPossible, InUseIsInstalled, Resolve,
   Pass, Starting, want, prior, IsApplied, MustRebuild, ComposeDown, StopFiles, Down

\* The files in use stay those of an installed version.
LEMMA FinishStopQuiet ==
    ASSUME IndInv, QuietInv, FinishStop
    PROVE  QuietInv'
BY DEF QuietInv, Pass, Starting, want, prior, IsApplied, MustRebuild,
   RollbackIsPossible, InUseIsInstalled, Resolve, FinishStop, AppliedRevision,
   ForcedRevision, NoRuntime, Resting, NoDesired, coreVars, IndInv, TypeOK,
   WorkerRecord

\* The version to roll back to is the one the link points to.
LEMMA ArtifactMissingQuiet ==
    ASSUME IndInv, QuietInv, ArtifactMissing
    PROVE  QuietInv'
BY DEF QuietInv, Pass, Starting, want, prior, IsApplied, MustRebuild,
   RollbackIsPossible, InUseIsInstalled, Resolve, ArtifactMissing, MakeDir, Touch,
   FailedPass, NoRuntime, Resting, NoDesired, coreVars, IndInv, TypeOK, WorkerRecord

\* The version to roll back to is the one the link points to.
LEMMA StopFileMissingQuiet ==
    ASSUME IndInv, QuietInv, StopFileMissing
    PROVE  QuietInv'
BY DEF QuietInv, Pass, Starting, want, prior, IsApplied, MustRebuild,
   RollbackIsPossible, InUseIsInstalled, Resolve, StopFileMissing, FailedPass,
   NoRuntime, Resting, NoDesired, coreVars, IndInv, TypeOK, WorkerRecord

\* Unless the pass had activated, the version to roll back to is the link's.
LEMMA DirectoryGoneQuiet ==
    ASSUME IndInv, QuietInv, DirectoryGone
    PROVE  QuietInv'
BY AddonAssumption DEF IndInv, coreVars, TypeOK, DesiredRecord, RuntimeRecord,
   WorkerRecord, Containers, QuietInv, RollbackIsPossible, InUseIsInstalled, Resolve,
   Pass, Starting, want, prior, IsApplied, MustRebuild, DirectoryGone, FailedPass,
   NoRuntime, Resting, NoDesired

\* The version to roll back to is the one the link points to.
LEMMA StepFailsQuiet ==
    ASSUME IndInv, QuietInv, StepFails
    PROVE  QuietInv'
BY DEF QuietInv, Pass, Starting, want, prior, IsApplied, MustRebuild,
   RollbackIsPossible, InUseIsInstalled, Resolve, StepFails, Extract, MakeDir, Touch,
   FailedPass, NoRuntime, Resting, NoDesired, Built, Started, service, Services,
   Down, coreVars, IndInv, TypeOK, WorkerRecord

\* Cleanup chooses none of the versions in use or offered for rollback.
LEMMA CleanupQuiet ==
    ASSUME IndInv, QuietInv, Cleanup
    PROVE  QuietInv'
<1>1. uninstalls = 0 => {current, runtime.active, runtime.previous, runtime.files} \ {None}
                            \subseteq KeepSet(prior.active, prior.previous)
  <2>1. {prior.active, prior.previous} \ {None} \subseteq KeepSet(prior.active, prior.previous)
    BY KeepsNamed
  <2>2. QED
    BY <2>1 DEF Cleanup, QuietInv
<1>2. worker' = Resting \/
        /\ worker'.pc = "prune"
        /\ worker'.victims = dirs \ KeepSet(prior.active, prior.previous)
  BY EmptyTypes DEF Cleanup, WorkerRecord
<1>3. None \notin dirs /\ UNCHANGED <<current, runtime, staged, uninstalls, removal>>
  BY AddonAssumption DEF Cleanup, IndInv, TypeOK, coreVars
<1>4. QED
  BY <1>1, <1>2, <1>3 DEF QuietInv, RollbackIsPossible, InUseIsInstalled, Resolve, Pass,
     Starting, Resting, want, prior

\* What is pruned is not in use.
LEMMA PruneQuiet ==
    ASSUME IndInv, QuietInv, NEW v \in Versions, Prune(v)
    PROVE  QuietInv'
BY DEF QuietInv, Pass, Starting, want, prior, IsApplied, MustRebuild,
   RollbackIsPossible, InUseIsInstalled, Resolve, Prune, Resting, coreVars

\* A crash forgets the pass and nothing else.
LEMMA CrashQuiet ==
    ASSUME IndInv, QuietInv, Crash
    PROVE  QuietInv'
BY DEF QuietInv, Pass, Starting, want, prior, IsApplied, MustRebuild,
   RollbackIsPossible, InUseIsInstalled, Resolve, Crash, Resting, coreVars

-----------------------------------------------------------------------------
(* The theorems *)

\* The invariant holds initially, and until something is uninstalled so does QuietInv.
LEMMA InitInv == Init => IndInv /\ QuietInv
<1> SUFFICES ASSUME Init PROVE IndInv /\ QuietInv
  OBVIOUS
<1>1. TypeOK
  BY EmptyTypes DEF Init, TypeOK, Down, Containers
<1>2. QED
  BY <1>1, EmptyTypes
  DEF Init, IndInv, QuietInv, RevisionInv, RemovalInv, PassInv, PriorInv, StepInv,
      AppliedInv, RollbackIsPossible, InUseIsInstalled, Resolve, Pass, Starting,
      Resting, NoDesired, NoRuntime

\* Every step of Core, of the supervisor, and every failure keeps both.
LEMMA NextInv ==
    ASSUME IndInv, QuietInv, [Next]_vars
    PROVE  IndInv' /\ QuietInv'
<1>1. CASE Core
  BY <1>1,
     StageArtifactStep, WriteDesiredStep, AbandonInstallStep, UpdateDesiredStep,
     UninstallStopStep, UninstallDownStep, UninstallRemoveStep, StageArtifactQuiet,
     WriteDesiredQuiet, AbandonInstallQuiet, UpdateDesiredQuiet, UninstallStopQuiet,
     UninstallDownQuiet, UninstallRemoveQuiet
  DEF Core
<1>2. CASE Supervisor
  BY <1>2,
     LoadStep, SkipStep, PrepareStep, WriteComposeStep, ComposeUpStep, ActivateStep,
     FinishStartStep, ComposeDownStep, FinishStopStep, ArtifactMissingStep,
     StopFileMissingStep, DirectoryGoneStep, CleanupStep, PruneStep, LoadQuiet,
     SkipQuiet, PrepareQuiet, WriteComposeQuiet, ComposeUpQuiet, ActivateQuiet,
     FinishStartQuiet, ComposeDownQuiet, FinishStopQuiet, ArtifactMissingQuiet,
     StopFileMissingQuiet, DirectoryGoneQuiet, CleanupQuiet, PruneQuiet
  DEF Supervisor
<1>3. CASE StepFails
  BY <1>3, StepFailsStep, StepFailsQuiet
<1>4. CASE Crash
  BY <1>4, CrashStep, CrashQuiet
<1>5. CASE UNCHANGED vars
  <2>1. IndInv'
    BY <1>5 DEF vars, coreVars, IndInv, TypeOK, RevisionInv, RemovalInv, PassInv,
       PriorInv, StepInv, AppliedInv, IsCurrent, want, prior
  <2>2. QuietInv'
    BY <1>5 DEF vars, coreVars, QuietInv, RollbackIsPossible, InUseIsInstalled, Resolve,
       IsApplied, MustRebuild, want, prior
  <2>3. QED
    BY <2>1, <2>2
<1>6. QED
  BY <1>1, <1>2, <1>3, <1>4, <1>5 DEF Next

\* The inductive invariant, for every behaviour of Core and the supervisor.
THEOREM Invariance == Spec => [](IndInv /\ QuietInv)
<1>1. IndInv /\ QuietInv /\ [Next]_vars => (IndInv /\ QuietInv)'
  BY NextInv
<1>2. QED
  BY InitInv, <1>1, PTL DEF Spec

\* Type correctness of the files, the docker state and the pass.
THEOREM TypeCorrect == Spec => []TypeOK
<1>1. IndInv => TypeOK
  BY DEF IndInv
<1>2. QED
  BY Invariance, <1>1, PTL

\* reconcile_one skips a revision only when its version is linked and started, also
\* when Core writes, uninstalls, or the supervisor crashes in the middle of a pass.
THEOREM AppliedTheorem == Spec => []AppliedMeansRunning
<1>1. IndInv => AppliedMeansRunning
  BY DEF IndInv, AppliedInv, AppliedMeansRunning
<1>2. QED
  BY Invariance, <1>1, PTL

\* Without uninstalls there is none.
LEMMA NoUninstall ==
    ASSUME MaxUninstalls = 0
    PROVE  Spec => [](uninstalls = 0)
<1>1. Init => uninstalls = 0
  BY DEF Init
<1>2. uninstalls = 0 /\ [Next]_vars => (uninstalls = 0)'
  <2> SUFFICES ASSUME uninstalls = 0, [Next]_vars PROVE uninstalls' = 0
    OBVIOUS
  <2>1. CASE Core
    BY <2>1 DEF Core, StageArtifact, WriteDesired, AbandonInstall, UpdateDesired,
       UninstallStop, UninstallDown, UninstallRemove
  <2>2. CASE Supervisor
    BY <2>2 DEF Supervisor, coreVars, Load, Skip, Prepare, WriteCompose, ComposeUp,
       Activate, FinishStart, ComposeDown, FinishStop, ArtifactMissing, StopFileMissing,
       DirectoryGone, Cleanup, Prune
  <2>3. CASE StepFails
    BY <2>3 DEF StepFails, coreVars
  <2>4. CASE Crash
    BY <2>4 DEF Crash, coreVars
  <2>5. CASE UNCHANGED vars
    BY <2>5 DEF vars, coreVars
  <2>6. QED
    BY <2>1, <2>2, <2>3, <2>4, <2>5 DEF Next
<1>3. QED
  BY <1>1, <1>2, PTL DEF Spec

\* Without uninstalls, a rollback that runtime.json offers is to an installed version.
THEOREM RollbackTheorem ==
    ASSUME MaxUninstalls = 0
    PROVE  Spec => []RollbackIsPossible
<1>1. uninstalls = 0 /\ QuietInv => RollbackIsPossible
  BY DEF QuietInv
<1>2. QED
  BY Invariance, NoUninstall, <1>1, PTL

\* Without uninstalls, cleanup never removes the linked version or the one whose compose
\* files are in use.
THEOREM InUseTheorem ==
    ASSUME MaxUninstalls = 0
    PROVE  Spec => []InUseIsInstalled
<1>1. uninstalls = 0 /\ QuietInv => InUseIsInstalled
  BY DEF QuietInv
<1>2. QED
  BY Invariance, NoUninstall, <1>1, PTL

\* Only the exception handler records an error, before the link is switched.
LEMMA ErrorKeepsCurrent ==
    ASSUME uninstalls = 0, IndInv, QuietInv, Next,
           runtime' # runtime, runtime'.state = "error"
    PROVE  current' = current /\ runtime'.previous = current
<1>1. worker.pc \in Pass \ {"activated"} => worker.prev = current
  BY DEF QuietInv
<1>2. FailedPass => runtime'.previous = worker.prev /\ dirs' # {}
  BY DEF FailedPass, NoRuntime
<1>3. CASE ArtifactMissing
  BY <1>1, <1>2, <1>3 DEF ArtifactMissing, Pass
<1>4. CASE StopFileMissing
  BY <1>1, <1>2, <1>4 DEF StopFileMissing, Pass
<1>5. CASE DirectoryGone
  BY <1>1, <1>2, <1>5 DEF DirectoryGone, IsInstalled, Pass
<1>6. CASE StepFails
  BY <1>1, <1>2, <1>6 DEF StepFails, Pass
<1>7. CASE Core \/ Crash
  BY <1>7 DEF Core, Crash, StageArtifact, WriteDesired, AbandonInstall, UpdateDesired,
     UninstallStop, UninstallDown, UninstallRemove, NoRuntime
<1>8. ASSUME Supervisor, ~ArtifactMissing, ~StopFileMissing, ~DirectoryGone
      PROVE  FALSE
  <2>1. CASE FinishStart
    BY <2>1 DEF FinishStart
  <2>2. CASE FinishStop
    BY <2>2 DEF FinishStop, NoRuntime
  <2>3. QED
    BY <1>8, <2>1, <2>2 DEF Supervisor, Load, Skip, Prepare, WriteCompose, ComposeUp,
       Activate, ComposeDown, Cleanup, Prune
<1>9. QED
  BY <1>3, <1>4, <1>5, <1>6, <1>7, <1>8 DEF Next

\* Without uninstalls, a pass that fails leaves the current link alone and names its
\* target as the version to roll back to.
THEOREM FailureTheorem ==
    ASSUME MaxUninstalls = 0
    PROVE  Spec => FailureKeepsCurrent
<1>1. uninstalls = 0 /\ IndInv /\ QuietInv /\ [Next]_vars =>
        [runtime' # runtime /\ runtime'.state = "error" =>
            current' = current /\ runtime'.previous = current]_vars
  BY ErrorKeepsCurrent
<1>2. QED
  BY <1>1, Invariance, NoUninstall, PTL DEF Spec, FailureKeepsCurrent

=============================================================================
