--------------------------- MODULE AddonReconcile ---------------------------
(***************************************************************************)
(* One standalone addon: the desired state that Core's store writes, the   *)
(* version directories it stages artifacts into, and the reconcile loop of *)
(* hexe_supervisor that brings the addon's containers in line with it.     *)
(*                                                                         *)
(* Core and the supervisor are two processes that share a directory and no *)
(* lock.  desired.json and runtime.json are replaced atomically.  A pass   *)
(* of the loop is a worker that moves from one file or docker operation to *)
(* the next; Core may write, and the supervisor may crash, in between.     *)
(***************************************************************************)
EXTENDS Integers, FiniteSets

CONSTANTS
    Versions,      \* addon versions
    Configs,       \* compose inputs: network, ports, limits, docker groups
    Service,       \* the primary service name each configuration gives
    None,          \* Python's None, a missing file or link
    Link,          \* the compose file reached through the current link
    KeepVersions,  \* _retention_keep_versions
    MaxRevision,   \* bound: writes of desired.json by installs and updates
    MaxUninstalls, \* bound: uninstalls
    MaxFailures    \* bound: failing docker or tar calls, and crashes

ASSUME AddonAssumption ==
    /\ None \notin Versions \cup Configs
    /\ Link \notin Versions \cup {None}
    /\ KeepVersions \in Nat /\ KeepVersions >= 2
    /\ MaxRevision \in Nat
    /\ MaxUninstalls \in Nat
    /\ MaxFailures \in Nat

VARIABLES
    desired,    \* desired.json
    staged,     \* versions whose addon.tgz is in its directory
    dirs,       \* version directories
    newer,      \* pairs of directories, the first modified after the second
    compose,    \* configuration each version's docker-compose.yml was written for
    current,    \* target of the current link
    runtime,    \* runtime.json
    image,      \* version each service's docker image was built from
    up,         \* the project's containers
    clock,      \* the last revision handed out: time_ns
    install,    \* version an install in Core has staged and not yet requested
    removal,    \* how far an uninstall in Core is
    uninstalls, \* uninstalls so far
    worker,     \* the pass of the loop in progress
    failures    \* failures so far

coreVars == <<clock, install, removal, uninstalls>>

vars == <<desired, staged, dirs, newer, compose, current, runtime, image, up,
          coreVars, worker, failures>>

-----------------------------------------------------------------------------
(* Records *)

DesiredRecord == [state    : {"none", "running", "stopped"},
                  version  : Versions \cup {None},
                  config   : Configs \cup {None},
                  revision : Nat,
                  force    : BOOLEAN]

NoDesired == [state |-> "none", version |-> None, config |-> None,
              revision |-> 0, force |-> FALSE]

\* previous, rollback: what an operator may roll back to.  files: the version whose
\* compose files are in use.  State "none" is a missing or unreadable file.
RuntimeRecord == [state    : {"none", "running", "stopped", "error"},
                  active   : Versions \cup {None},
                  previous : Versions \cup {None},
                  rollback : BOOLEAN,
                  revision : Nat,
                  digest   : Configs \cup {None},
                  forced   : Nat,
                  files    : Versions \cup {None, Link}]

NoRuntime == [state |-> "none", active |-> None, previous |-> None, rollback |-> FALSE,
              revision |-> 0, digest |-> None, forced |-> 0, files |-> None]

Services == {Service[c] : c \in Configs}

\* version and config are those of the compose file the containers were made from,
\* image is the version of the code they run.
Containers == [version : Versions \cup {None},
               config  : Configs \cup {None},
               image   : Versions \cup {None}]

Down == [version |-> None, config |-> None, image |-> None]

\* want, prior and prev are what the pass read of desired.json, runtime.json and the
\* current link at its start.
WorkerRecord == [pc      : {"idle", "loaded", "extracted", "prepared", "started",
                            "activated", "down", "hooks", "prune"},
                 want    : DesiredRecord,
                 prior   : RuntimeRecord,
                 prev    : Versions \cup {None},
                 victims : SUBSET Versions]

Resting == [pc |-> "idle", want |-> NoDesired, prior |-> NoRuntime, prev |-> None,
            victims |-> {}]

\* An uninstall in progress, and the compose file it found.
RemovalRecord == [pc   : {"none", "stopping", "removing"},
                  file : Versions \cup {None, Link}]

NoRemoval == [pc |-> "none", file |-> None]

Init ==
    /\ desired = NoDesired
    /\ staged = {}
    /\ dirs = {}
    /\ newer = {}
    /\ compose = [v \in Versions |-> None]
    /\ current = None
    /\ runtime = NoRuntime
    /\ image = [s \in Services |-> None]
    /\ up = Down
    /\ clock = 0
    /\ install = None
    /\ removal = NoRemoval
    /\ uninstalls = 0
    /\ worker = Resting
    /\ failures = 0

\* The desired state this pass works towards.
want == worker.want

\* The runtime state it found.
prior == worker.prior

-----------------------------------------------------------------------------
(* Version directories *)

\* The directory of v is created or one of its entries changes: it is the newest now.
Touch(v) ==
    /\ dirs' = dirs \cup {v}
    /\ newer' = {p \in newer : p[1] # v /\ p[2] # v} \cup {<<v, u>> : u \in dirs \ {v}}

\* mkdir with exist_ok.
MakeDir(v) == IF v \in dirs THEN UNCHANGED <<dirs, newer>> ELSE Touch(v)

\* The version whose directory a recorded path leads to.
Resolve(file) == IF file = Link THEN current ELSE file

\* The file is there.
Exists(file) == Resolve(file) # None /\ compose[Resolve(file)] # None

\* Mutant: only the newest directories are kept.
KeepNewest(active, previous) ==
    {v \in dirs : Cardinality({u \in dirs : <<u, v>> \in newer}) < KeepVersions}

\* Mutant: the previous version is not pinned.
KeepActive(active, previous) ==
    {active} \cup {v \in dirs \ {active} :
        Cardinality({u \in dirs \ {active} : <<u, v>> \in newer}) < KeepVersions - 1}

\* _cleanup_old_versions: the active and the previous version, and then the newest of
\* the others up to KeepVersions.
KeepSet(active, previous) ==
    LET named == {active, previous} \ {None}
        others == dirs \ named
    IN named \cup {v \in others :
          Cardinality({u \in others : <<u, v>> \in newer})
              < KeepVersions - Cardinality(named)}

-----------------------------------------------------------------------------
(* Core *)

\* Handlers of Core do not await between their steps: the supervisor may come in
\* between, another handler does not.
CoreIsFree == install = None /\ removal = NoRemoval

\* install of a standalone service: _stage_standalone_artifact ...
StageArtifact(v) ==
    /\ CoreIsFree
    /\ staged' = staged \cup {v}
    /\ Touch(v)
    /\ install' = v
    /\ UNCHANGED <<desired, compose, current, runtime, image, up, clock, removal,
                   uninstalls, worker, failures>>

\* ... then write_desired_state_atomic with a fresh revision.  The request may pin
\* another version than the one it brings ...
WriteDesired(state, v, c, force) ==
    /\ install # None
    /\ clock < MaxRevision
    /\ clock' = clock + 1
    /\ desired' = [state |-> state, version |-> v, config |-> c,
                   revision |-> clock + 1, force |-> force]
    /\ install' = None
    /\ UNCHANGED <<staged, dirs, newer, compose, current, runtime, image, up, removal,
                   uninstalls, worker, failures>>

\* ... or the request is refused after the staging.
AbandonInstall ==
    /\ install # None
    /\ install' = None
    /\ UNCHANGED <<desired, staged, dirs, newer, compose, current, runtime, image, up,
                   clock, removal, uninstalls, worker, failures>>

\* update_standalone_desired: any pinned version, and always a forced rebuild.
UpdateDesired(state, v, c) ==
    /\ CoreIsFree
    /\ desired.state # "none"
    /\ clock < MaxRevision
    /\ clock' = clock + 1
    /\ desired' = [state |-> state, version |-> v, config |-> c,
                   revision |-> clock + 1, force |-> TRUE]
    /\ UNCHANGED <<staged, dirs, newer, compose, current, runtime, image, up, install,
                   removal, uninstalls, worker, failures>>

\* The service directory exists.
IsInstalled == dirs # {}

\* _standalone_compose_file: the current link's, the active version's or any other.
UninstallFiles ==
    IF Exists(Link) THEN {Link}
    ELSE IF Exists(runtime.active) THEN {runtime.active}
    ELSE {v \in Versions : Exists(v)}

\* _uninstall_standalone_service looks for a compose file, and asks for a stop under
\* the revision that is there ...
UninstallStop ==
    /\ CoreIsFree
    /\ uninstalls < MaxUninstalls
    /\ IsInstalled
    /\ uninstalls' = uninstalls + 1
    /\ \/ \E file \in UninstallFiles : removal' = [pc |-> "stopping", file |-> file]
       \/ UninstallFiles = {} /\ removal' = [pc |-> "removing", file |-> None]
    /\ desired' = IF desired.state = "none" THEN desired
                  ELSE [desired EXCEPT !.state = "stopped"]
    /\ UNCHANGED <<staged, dirs, newer, compose, current, runtime, image, up, clock,
                   install, worker, failures>>

\* ... runs docker compose down and removes the image the containers ran; an error of
\* either is only reported ...
UninstallDown ==
    /\ removal.pc = "stopping"
    /\ removal' = [removal EXCEPT !.pc = "removing"]
    /\ \/ /\ Exists(removal.file)
          /\ up' = Down
          /\ image' = IF up = Down THEN image
                      ELSE [image EXCEPT ![Service[up.config]] = None]
          /\ UNCHANGED failures
       \/ /\ ~Exists(removal.file)
          /\ UNCHANGED <<image, up, failures>>
       \/ /\ failures < MaxFailures
          /\ failures' = failures + 1
          /\ up' \in {up, Down}
          /\ UNCHANGED image
    /\ UNCHANGED <<desired, staged, dirs, newer, compose, current, runtime, clock,
                   install, uninstalls, worker>>

\* ... and removes the service directory.
UninstallRemove ==
    /\ removal.pc = "removing"
    /\ removal' = NoRemoval
    /\ desired' = NoDesired
    /\ staged' = {}
    /\ dirs' = {}
    /\ newer' = {}
    /\ compose' = [v \in Versions |-> None]
    /\ current' = None
    /\ runtime' = NoRuntime
    /\ UNCHANGED <<image, up, clock, install, uninstalls, worker, failures>>

-----------------------------------------------------------------------------
(* reconcile_one *)

\* Mutant: the version to roll back to is the active one of runtime.json.
LoadFromRuntime ==
    /\ worker.pc = "idle"
    /\ desired.state # "none"
    /\ worker' = [Resting EXCEPT !.pc = "loaded", !.want = desired, !.prior = runtime,
                           !.prev = runtime.active]
    /\ UNCHANGED <<desired, staged, dirs, newer, compose, current, runtime, image, up,
                   coreVars, failures>>

\* Mutant: a failed pass is not tried again.
LoadUnlessFailed ==
    /\ worker.pc = "idle"
    /\ desired.state # "none"
    /\ runtime.state # "error"
    /\ worker' = [Resting EXCEPT !.pc = "loaded", !.want = desired, !.prior = runtime,
                           !.prev = current]
    /\ UNCHANGED <<desired, staged, dirs, newer, compose, current, runtime, image, up,
                   coreVars, failures>>

\* Reads desired.json, runtime.json and the current link.
Load ==
    /\ worker.pc = "idle"
    /\ desired.state # "none"
    /\ worker' = [Resting EXCEPT !.pc = "loaded", !.want = desired, !.prior = runtime,
                           !.prev = current]
    /\ UNCHANGED <<desired, staged, dirs, newer, compose, current, runtime, image, up,
                   coreVars, failures>>

\* force_rebuild_already_applied does not hold of a forced rebuild.
MustRebuild == want.force /\ prior.forced # want.revision

IsApplied ==
    /\ prior.state = "running"
    /\ prior.active = want.version
    /\ prior.revision = want.revision
    /\ ~MustRebuild

\* The revision has been applied: nothing to do but the hooks.
Skip ==
    /\ worker.pc = "loaded"
    /\ want.state = "running"
    /\ IsApplied
    /\ MakeDir(want.version)
    /\ worker' = [worker EXCEPT !.pc = "hooks"]
    /\ UNCHANGED <<desired, staged, compose, current, runtime, image, up, coreVars,
                   failures>>

\* A docker-compose.yml that exists is kept unless one of these holds.
MustRegenerate(v) ==
    \/ MustRebuild
    \/ prior.active = v /\ prior.digest # None /\ prior.digest # want.config
    \/ Service[compose[v]] # Service[want.config]

\* ensure_extracted: the tree is there already, or it is made or replaced.
Extract(v) == MakeDir(v) \/ Touch(v)

\* The artifact is there: extract it, and remove a docker-compose.yml that will not do.
Prepare ==
    /\ worker.pc = "loaded"
    /\ want.state = "running"
    /\ ~IsApplied
    /\ want.version \in staged
    /\ LET v == want.version IN
          IF compose[v] # None /\ MustRegenerate(v)
          THEN Touch(v) /\ compose' = [compose EXCEPT ![v] = None]
          ELSE Extract(v) /\ UNCHANGED compose
    /\ worker' = [worker EXCEPT !.pc = "extracted"]
    /\ UNCHANGED <<desired, staged, current, runtime, image, up, coreVars, failures>>

\* ensure_compose_files writes docker-compose.yml if there is none.
WriteCompose ==
    /\ worker.pc = "extracted"
    /\ want.version \in dirs
    /\ LET v == want.version IN
          IF compose[v] = None
          THEN Touch(v) /\ compose' = [compose EXCEPT ![v] = want.config]
          ELSE UNCHANGED <<dirs, newer, compose>>
    /\ worker' = [worker EXCEPT !.pc = "prepared"]
    /\ UNCHANGED <<desired, staged, current, runtime, image, up, coreVars, failures>>

VersionTransition == prior.active # None /\ prior.active # want.version

service == Service[compose[want.version]]

\* docker compose build runs for a forced rebuild and when the version changes;
\* otherwise docker compose up builds an image only if the service has none.
Built ==
    IF MustRebuild \/ VersionTransition \/ image[service] = None
    THEN [image EXCEPT ![service] = want.version]
    ELSE image

Started(images) ==
    [version |-> want.version,
     config  |-> compose[want.version],
     image   |-> images[service]]

\* compose_up.
ComposeUp ==
    /\ worker.pc = "prepared"
    /\ compose[want.version] # None
    /\ image' = Built
    /\ up' = Started(Built)
    /\ worker' = [worker EXCEPT !.pc = "started"]
    /\ UNCHANGED <<desired, staged, dirs, newer, compose, current, runtime, coreVars,
                   failures>>

\* activate_current_symlink.
Activate ==
    /\ worker.pc = "started"
    /\ IsInstalled
    /\ current' = want.version
    /\ worker' = [worker EXCEPT !.pc = "activated"]
    /\ UNCHANGED <<desired, staged, dirs, newer, compose, runtime, image, up,
                   coreVars, failures>>

\* Mutant: the revision before, as if revisions started at 1.
ForcedOffByOne == IF want.force THEN want.revision - 1 ELSE -1

\* last_force_rebuild_revision, 0 for None.
ForcedRevision == IF want.force THEN want.revision ELSE 0

\* Mutant: the revision that desired.json has by now.
LatestRevision == desired.revision

\* last_applied_desired_revision.
AppliedRevision == want.revision

\* runtime.json of a started addon.  The hooks are given the same.
FinishStart ==
    /\ worker.pc = "activated"
    /\ IsInstalled
    /\ runtime' = [state    |-> "running",
                   active   |-> want.version,
                   previous |-> worker.prev,
                   rollback |-> worker.prev # None /\ worker.prev # want.version,
                   revision |-> AppliedRevision,
                   digest   |-> want.config,
                   forced   |-> ForcedRevision,
                   files    |-> want.version]
    /\ worker' = [worker EXCEPT !.pc = "hooks", !.prior = runtime']
    /\ UNCHANGED <<desired, staged, dirs, newer, compose, current, image, up,
                   coreVars, failures>>

\* The compose files that compose_down is given: those in use, or the current link's.
StopFiles ==
    IF prior.files # None THEN prior.files
    ELSE IF current # None /\ compose[current] # None THEN Link
    ELSE None

\* compose_down, when there is a file to give it.
ComposeDown ==
    /\ worker.pc = "loaded"
    /\ want.state = "stopped"
    /\ StopFiles # None => Exists(StopFiles)
    /\ up' = IF StopFiles = None THEN up ELSE Down
    /\ worker' = [worker EXCEPT !.pc = "down", !.prior.files = StopFiles]
    /\ UNCHANGED <<desired, staged, dirs, newer, compose, current, runtime, image,
                   coreVars, failures>>

\* runtime.json of a stopped addon.
FinishStop ==
    /\ worker.pc = "down"
    /\ IsInstalled
    /\ runtime' = [NoRuntime EXCEPT
                     !.state = "stopped",
                     !.revision = AppliedRevision,
                     !.forced = ForcedRevision,
                     !.files = prior.files]
    /\ worker' = Resting
    /\ UNCHANGED <<desired, staged, dirs, newer, compose, current, image, up,
                   coreVars, failures>>

\* The exception handler writes runtime.json of a failed pass, and the hooks do nothing
\* then.  Without the directory the write fails too: the loop dies and is restarted.
FailedPass ==
    /\ runtime' = IF dirs' = {} THEN runtime
                  ELSE [NoRuntime EXCEPT
                          !.state = "error",
                          !.previous = worker.prev,
                          !.rollback = worker.prev # None]
    /\ worker' = Resting

\* The directory, or a file in it, was removed under the pass.
DirectoryGone ==
    /\ \/ worker.pc = "extracted" /\ want.version \notin dirs
       \/ worker.pc = "prepared" /\ compose[want.version] = None
       \/ worker.pc \in {"started", "activated", "down"} /\ ~IsInstalled
    /\ UNCHANGED <<dirs, newer>>
    /\ FailedPass
    /\ UNCHANGED <<desired, staged, compose, current, image, up, coreVars, failures>>

\* No artifact in the directory the pass has made.
ArtifactMissing ==
    /\ worker.pc = "loaded"
    /\ want.state = "running"
    /\ ~IsApplied
    /\ want.version \notin staged
    /\ MakeDir(want.version)
    /\ FailedPass
    /\ UNCHANGED <<desired, staged, compose, current, image, up, coreVars, failures>>

\* docker compose down refuses a file that is not there.
StopFileMissing ==
    /\ worker.pc = "loaded"
    /\ want.state = "stopped"
    /\ StopFiles # None
    /\ ~Exists(StopFiles)
    /\ UNCHANGED <<dirs, newer>>
    /\ FailedPass
    /\ UNCHANGED <<desired, staged, compose, current, image, up, coreVars, failures>>

\* tar, a write or docker fails.  A failing compose up may have built the image and
\* replaced the containers, a failing compose down may have removed them.
StepFails ==
    /\ failures < MaxFailures
    /\ failures' = failures + 1
    /\ \/ /\ worker.pc = "loaded"
          /\ want.state = "running"
          /\ ~IsApplied
          /\ want.version \in staged
          /\ Extract(want.version)
          /\ UNCHANGED <<image, up>>
       \/ /\ worker.pc = "extracted"
          /\ UNCHANGED <<image, up, dirs, newer>>
       \/ /\ worker.pc = "prepared"
          /\ compose[want.version] # None
          /\ \/ UNCHANGED <<image, up>>
             \/ image' = Built /\ up' \in {up, Started(Built)}
          /\ UNCHANGED <<dirs, newer>>
       \/ /\ worker.pc = "loaded"
          /\ want.state = "stopped"
          /\ StopFiles # None
          /\ Exists(StopFiles)
          /\ up' \in {up, Down}
          /\ UNCHANGED <<image, dirs, newer>>
    /\ FailedPass
    /\ UNCHANGED <<desired, staged, compose, current, coreVars>>

-----------------------------------------------------------------------------
(* run_post_reconcile_hooks *)

\* _cleanup_old_versions lists the directories ...
Cleanup ==
    /\ worker.pc = "hooks"
    /\ LET victims == dirs \ KeepSet(prior.active, prior.previous) IN
          worker' = IF victims = {} THEN Resting
                    ELSE [Resting EXCEPT !.pc = "prune", !.victims = victims]
    /\ UNCHANGED <<desired, staged, dirs, newer, compose, current, runtime, image, up,
                   coreVars, failures>>

\* ... and removes them one by one.
Prune(v) ==
    /\ worker.pc = "prune"
    /\ v \in worker.victims
    /\ staged' = staged \ {v}
    /\ dirs' = dirs \ {v}
    /\ newer' = {p \in newer : p[1] # v /\ p[2] # v}
    /\ compose' = [compose EXCEPT ![v] = None]
    /\ worker' = IF worker.victims = {v} THEN Resting
                 ELSE [worker EXCEPT !.victims = @ \ {v}]
    /\ UNCHANGED <<desired, current, runtime, image, up, coreVars, failures>>

\* The supervisor dies and is started again.
Crash ==
    /\ failures < MaxFailures
    /\ failures' = failures + 1
    /\ worker.pc # "idle"
    /\ worker' = Resting
    /\ UNCHANGED <<desired, staged, dirs, newer, compose, current, runtime, image, up,
                   coreVars>>

-----------------------------------------------------------------------------
(* Specification *)

Core ==
    \/ \E v \in Versions : StageArtifact(v)
    \/ AbandonInstall
    \/ \E state \in {"running", "stopped"}, c \in Configs :
          \E v \in Versions :
             \/ \E force \in BOOLEAN : WriteDesired(state, v, c, force)
             \/ UpdateDesired(state, v, c)
    \/ UninstallStop
    \/ UninstallDown
    \/ UninstallRemove

Supervisor ==
    \/ Load
    \/ Skip
    \/ Prepare
    \/ WriteCompose
    \/ ComposeUp
    \/ Activate
    \/ FinishStart
    \/ ComposeDown
    \/ FinishStop
    \/ ArtifactMissing
    \/ StopFileMissing
    \/ DirectoryGone
    \/ Cleanup
    \/ \E v \in Versions : Prune(v)

Next == Core \/ Supervisor \/ StepFails \/ Crash

Spec == Init /\ [][Next]_vars

\* The loop never ends, and a crashed supervisor is restarted by its service unit.
FairSpec == Spec /\ WF_vars(Supervisor)

-----------------------------------------------------------------------------
(* Properties *)

\* Every file, link, image and container the reconciler keeps has its type.
TypeOK ==
    /\ desired \in DesiredRecord
    /\ staged \subseteq Versions
    /\ dirs \subseteq Versions
    /\ newer \subseteq Versions \X Versions
    /\ compose \in [Versions -> Configs \cup {None}]
    /\ current \in Versions \cup {None}
    /\ runtime \in RuntimeRecord
    /\ image \in [Services -> Versions \cup {None}]
    /\ up \in Containers
    /\ clock \in Nat
    /\ install \in Versions \cup {None}
    /\ removal \in RemovalRecord
    /\ uninstalls \in Nat
    /\ worker \in WorkerRecord
    /\ failures \in Nat

\* When runtime.json offers a rollback, the version it names is still installed:
\* cleanup never removes it, whatever failed or crashed and however Core changed the
\* desired state meanwhile.
RollbackIsPossible == runtime.rollback => runtime.previous \in staged

\* The version the current link points to, and the one whose compose files a later stop
\* will use, are never pruned.
InUseIsInstalled == {current, Resolve(runtime.files)} \ {None} \subseteq staged

\* When runtime.json says that the desired revision is running, the current link and the
\* containers' compose file are of the desired version: skipping the pass is right, also
\* after crashes between starting the containers and recording them.
AppliedMeansRunning ==
    desired.state = "running" /\ runtime.state = "running"
        /\ runtime.revision = desired.revision =>
        /\ current = desired.version
        /\ up.version = desired.version

\* A failed pass leaves the current link alone and names its target as the version to
\* roll back to.
FailureKeepsCurrent ==
    [][runtime' # runtime /\ runtime'.state = "error" =>
          current' = current /\ runtime'.previous = current]_vars

\* Once Core stops changing the desired state, an installed version that it wants running
\* gets and stays running, by the compose file that is up and by the current link, and an
\* addon that it wants stopped is recorded as stopped, after any finite number of failures
\* and crashes.  When a rebuild was asked for, as every update does, the code that runs is of
\* that version too.  An install that asks for none is excepted: after a failed pass or a
\* stop runtime.json names no active version, a change of version is not seen, and the image
\* of the version before may run under the compose file of the new one for good.
Converges ==
    <>[](/\ desired.state = "running" /\ desired.version \in staged =>
              /\ up.version = desired.version /\ current = desired.version
              /\ desired.force => up.image = desired.version
         /\ desired.state = "stopped" => runtime.state = "stopped")

=============================================================================
