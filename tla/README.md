# TLA+ models of Hexe Core

Hexe Core is a home-automation platform: a FastAPI backend (`core/backend/app`) that
admits nodes, owns the MQTT broker's identities and installs addons, and a supervisor
process (`core/backend/hexe_supervisor`) that runs standalone addons with docker
compose. This directory models the parts of it in which the order of steps matters:
which parts there are, what was modelled, what TLC checks and what TLAPS proves.

All paths are relative to the repository. A module's definitions carry the names of the
functions they model where TLA+ allows it, and `PROJECT.json` maps every definition to
its source lines.

## 1. Inventory

| Component | State | Operations | Interacts with |
| --- | --- | --- | --- |
| Node onboarding, re-auth, trust (`system/onboarding/{sessions,reauth,registrations,trust}.py`, `api/system_legacy.py`) | four JSON stores: onboarding sessions, re-auth sessions, registrations, trust records | start, approve, reject, cancel, expire, archive, finalize, revoke, remove, update metadata | provisions and removes the node's MQTT principal and password; maintenance loop in `main.py` |
| MQTT authority (`system/mqtt`) | `integration_state` (principals, grants, setup state), credentials, live and staged broker configuration | approve, provision and revoke grants, reconcile, apply, roll back, publish bootstrap | called by onboarding and addons; restarts the broker |
| Standalone addons (`hexe_supervisor`, `store/router_legacy.py`, `store/standalone_desired.py`) | `desired.json`, `runtime.json`, `versions/*`, `current` link, containers, images | install, update, uninstall (Core); reconcile, clean up (supervisor) | two processes over one directory, no lock |
| Addon store (`store`) | sources, catalog cache, embedded addons, audit | install, update, uninstall, roll back | downloads, signature checks, standalone desired state |
| Internal scheduler (`system/internal_scheduler.py`) | tasks and their status, persisted | register, start, stop, run, fail | background loops of Core |
| Node budgets (`system/onboarding/node_budgeting.py`) | declarations, configurations, allocations, usage reports | configure, allocate, report, reset | grants published over MQTT |
| Capabilities and governance (`system/onboarding`) | profiles, governance versions, status | declare, accept, issue, refresh | registrations |
| Hardware leases and BLE pairing (`system/hardware.py`) | access requests, pairing sessions | request, decide, release, expire, pair | supervisors |
| Supervisor fleet (`system/supervisors.py`, `supervisor_version_audit.py`) | supervisors, enrollment tokens, update status | enroll, heartbeat, update | host supervisors |
| Host supervisor (`supervisor`) | runtimes, resource history, update packages | start, stop, update, report | systemd, docker |
| Auth and devices (`system/auth`, `assistant_auth`) | enrollments, devices, passkeys, tokens (SQLite) | enroll, approve, log in, revoke, prune | web push |
| Service resolution (`system/services`, `service_access`) | provider catalog | resolve, authorise | nodes, budgets |
| Notifications and web push (`core`) | outbox, subscriptions, conversations | publish, deliver, clean up | MQTT, gateway |
| Edge gateway, proxies, UI, stores of settings, users, policy, audit | one table each | create, read, update, delete | – |
| `src/supervisor` | – | a packaged copy of the Core tree | – |

What is hard here, and where:

* Handlers of one process interleave. FastAPI runs `def` handlers in a thread pool and
  `async def` handlers on the event loop; no lock spans two store calls. Every
  check-then-act and every object that is read, changed and written back is exposed.
* A finalize handler makes five store calls in a row; a crash, or an exception in the
  broker reload between them, leaves any prefix done, and the node tries again.
* Credentials are issued, superseded and revoked by different handlers, and a session
  can hand its credentials out again.
* Core and the supervisor share files. A pass of the supervisor lasts as long as a
  docker build, and Core stages, requests and uninstalls meanwhile.
* The supervisor decides what to do from what the last pass wrote down, and a pass can
  fail or crash between doing and writing.
* Reconciles of the broker overlap at every await, and each may roll the live directory
  back to what it found.
* Devices, users and sessions live in two SQLite stores; revoking or suspending crosses
  both, while logins and completions are under way.
* Core calls gateways and supervisors over the network and writes their answers down
  later, whatever happened meanwhile; a call that timed out may still be carried out.
* An update restarts the process that carries it out, and its state file is read, checked
  and written back by handlers and polls without a lock.
* The authority state of the broker is also changed where no reconcile follows.

`PROJECT.json` lists these hazards at their lines, each with the properties that would
catch it.

## 2. Modules

| Module | What it is |
| --- | --- |
| `NodeTrust` | the four onboarding stores, the node's MQTT principal and credential, and every handler that changes them |
| `MCNodeTrust` | symmetry for TLC |
| `NodeTrustProofs` | inductive invariant and theorems |
| `AddonReconcile` | one standalone addon: Core's desired state, the shared directory, docker, the supervisor's loop |
| `MCAddonReconcile` | the service names of the instances |
| `AddonReconcileProofs` | inductive invariants and theorems |
| `BrokerApply`, `MCBrokerApply` | the embedded MQTT broker: reconcile, apply pipeline with rollback, container, supervision loop |
| `BrokerApplyProofs` | types, that the live files are of one version, and what may lose a change |
| `OneTimeCode` | abstract: what a single-use code promises |
| `DeviceEnrollment`, `MCDeviceEnrollment` | web-app devices, enrollments, login challenges, sessions, users; implements `OneTimeCode` |
| `DeviceEnrollmentProofs` | types, the refinement, device limits, revocation and suspension |
| `WebPush`, `MCWebPush` | subscriptions, routing of events, delivery to the push gateway and cleanup there |
| `WebPushProofs` | types, cleanup, retention, delivery passes and the rate limit |
| `BlePairing`, `MCBlePairing` | pairing sessions at Core, adverts at the supervisors, the calls between them |
| `BlePairingProofs` | types, where an approved device comes from, expiry, one advert per adapter |
| `SupervisorUpdate`, `MCSupervisorUpdate` | updates of a remote supervisor, the version audit and the operator |
| `SupervisorUpdateProofs` | types, and that a key starts one update |

### NodeTrust

State. `session` holds both session stores (the ids of `Onboarding` and `Reauth` are
disjoint), `archived` the sessions moved to the archive file, `trust`/`trustOf` and
`registration`/`registrationOf` the two indexes of the trust and the registration
store, `principal` and `password` the node's entry in the MQTT state and in the
credential store. `request` holds the handlers in flight: `pc` is the store call that a
handler makes next, the other fields are what it carries there.

Actions. A handler is split where another one may run: in thread-pool handlers after
every store call that matters to others, in `async` handlers at every await. So
finalize is `FinalizeApproved`, `UpsertPrincipal`, `SetPrincipalPassword`,
`ConsumeFinalPayload`, `Promote`; approve is `ApproveOnboarding`, `Register`; start is
`StartOnboarding` (the checks) and `CreateSession`; revoke and remove go on with
`RemovePrincipal` and `RotatePrincipal`; a metadata update is `ReadRegistration` and
`WriteRegistration`. Python hands out the stored object itself, not a copy: a handler
that read a registration sees later changes to it (`held = Shared`) until the store
drops or replaces the object, from which moment it keeps the old value (`Detach`).
`RequestFails` ends a handler in an awaited call that raises, after the steps it has
done; `Restart` drops all of them, and the stores are read back from disk.

Abstractions. A trust token and the MQTT token issued with it are one number, counted
up, because both are fresh random strings issued together; node types, capabilities,
hosts and audit data are left out. A TTL is the flag `overdue`, set at any time. One call
of a store method is one step, and a write of a JSON file is atomic: see section 8.

### AddonReconcile

State. `desired`, `runtime` and `current` are the three files the two processes meet
at, `staged`, `dirs`, `newer` and `compose` the version directories (artifact there,
directory there, order of modification times, configuration that
`docker-compose.yml` was written for). `image` and `up` are docker's: the version each
service's image was built from, and what the containers were made of. `install` and
`removal` are a handler of Core between two of its steps; `worker` is the pass in
progress with what it read at its start.

Actions. Core: `StageArtifact`, then `WriteDesired` or `AbandonInstall`;
`UpdateDesired`; `UninstallStop`, `UninstallDown`, `UninstallRemove`. These handlers
do not await between their steps, so Core runs one at a time (`CoreIsFree`) while the
supervisor moves freely. Supervisor: `Load`, then `Skip`, or `Prepare`, `WriteCompose`,
`ComposeUp`, `Activate`, `FinishStart`, or `ComposeDown`, `FinishStop`; then `Cleanup`
and `Prune`, one directory at a time. `ArtifactMissing`, `StopFileMissing`,
`DirectoryGone` and `StepFails` are the ways into the exception handler, and `Crash`
ends a pass anywhere.

Abstractions. Compose inputs are an opaque configuration, so a digest is the
configuration itself, and `Service` gives the primary service name a configuration leads
to. Docker is external: `up` builds an image only if the service has none, `build`
replaces it, a failing call may have done its work or not. Modification times are an
order. Removing a directory tree and extracting an artifact are one step each;
extraction may change the directory's time or not. The environment file, the refresh of
the restart policy in the no-op branch (it rewrites the file with the same inputs),
signature checks, logging and lifecycle events are left out. Desired states are those
Core writes, with a version pinned.

### BrokerApply

State. `wanted` is the version of the authority state, `dormant` whether it has a grant that
the compiler leaves out and the next healthy reconcile turns active, `live` the version each
compiled file in the live directory is of, `container` and `setup` the broker and the stored
setup status. `owed` is history: the version when a reconcile was last asked for or promoted
its files, 0 once one was rolled back or gave up. `task` holds the coroutines (requests, the startup task and the supervision loop)
with the version they compiled and the backup they would restore; `held` is the coroutine
in the middle of file work, which the event loop does not interrupt, while docker calls
run in threads and interleave with everything.

Actions. A change of the authority that reconciles, `/reload`, the runtime endpoints,
`setup/apply` and startup begin a coroutine (`Change`, `MqttReload`, `RuntimeStart`, ...), and `Stage`,
`Promote`, `Reload`, `Restore`, `Copy`, `Restored`, `Settle` are the steps of
`reconcile_authority` with the apply pipeline. `Ensure`, `StartStopped`, `Remove`, `Look`
and `Run` are the docker calls of the runtime boundary, `Read` and `LoopReport` the loop.
Changes that no reconcile follows are actions of their own: `Provision` and `Provisioned` (a
grant stored as an error while setup is not ready), `Evaluate` (a noisy client blocked or
released by the loop), `Awaken` and `Wake` (a reconcile turns grants active after it has
compiled, and writes back what it read before an await), `ChangeFails` (the handler ends
between its write and its reconcile).

Abstractions. What the ACL compiler and the renderer compute is a version number; which
grants are in error or active is the flag `dormant`. The
bootstrap publish, the external broker mode, the endpoint that sets the setup state
directly, whether a SIGHUP takes effect, and the cached status fields of the boundary are
left out.

### DeviceEnrollment and OneTimeCode

State. The rows of `device_enrollment.py` (`device`, `passkey`, `enrollment`,
`challenge`) and of `users/store.py` (`user`, `session`), and the `request`s in flight.
Every store method runs under its store's lock in one transaction and is one step; an
endpoint awaits several of them. The history variables `reenabled` and `late` name what
the code does not promise: `_set_device_enabled` counts no limit; a session opened by a
login that was under way, or left open by a crash between the stores, survives a revocation;
and a user may be disabled without a session being closed.

Actions. `Complete`, `Consume`, `ReadOwner`, `RetireReplaced`, `OpenSession` are the
completion of an enrollment; `AskChallenge` to `StorePasskey` and `OpenSession` the device
login; `RevokeDevice`, `DisableDevice` and `CloseSessions` the administrative endpoints of devices.
Those of users read the row (`ReadExisting`), await the step-up and write it, and the row as
read decides what follows: `SuspendUser` goes on with `CloseUserSessions` and
`DisableUserDevices`, `DisableAgain` and `SuspendNobody` close nothing. `EnableUser` is one
step, since nothing depends on what it read; `Prune` and
`PruneSessions` retention.

Refinement. `SingleUse` is the specification of `OneTimeCode` under the mapping
`CodeState`: an enrollment is open while pending or approved, spent when consumed, void
when cancelled or expired; a challenge is open until it is consumed.

Abstractions. Users exist from the start; a deleted one does not come back, since a user
created under the same name has another id. Signatures and proofs of possession succeed.
Contents of tokens, refresh
rotation, key rotation, passkey counters, preferences and names are left out.

### WebPush

State. `sub` is the subscription row of each device, `held` the references the gateway
knows, `intent` the intent table, `router` the events being routed, `pub` the delivery
loop with the rows it has read. `configured` says whether Core holds a gateway credential.

Actions. `Receive`, `Suppress`, `HasEvent`, `RecentCount`, `CreateIntent`, `Routed` are
`route`, one step per store call; `Wake` to `PublishDone` one pass of
`web_push_gateway_loop`: cleanup of pending subscriptions first, then due intents.
`GatewayLoses`, `DeleteFails`, `SendFails` and `Abandon` are the gateway and the network.

Abstractions. The preferences that suppress a target are a choice; a message's text and
the badge count of coalesced intents are left out; clocks are flags (`recent`) and choices
(`late`, `early`).

### BlePairing

State. `session` is Core's store, `request` its handlers, `work` the calls the
supervisors have received, `advert` each supervisor's table, `helper` and `file` the
BlueZ helper processes and the identity files they write.

Actions. A handler of Core calls one supervisor after the other (`CallSupervisor`) and
writes each answer down (`UpdateSupervisorResult`) before it goes on to `Approve`,
`Cancel`, `Reuse` or `Finish`. A supervisor refuses, starts, stops or reports an advert.
A call that Core has given up on stays in `work` (`CallFails`), so that it may still be
carried out, after a stop for instance.

Abstractions. Tokens are as valid as their session; a supervisor has one adapter; RSSI,
names, credentials and the Wi-Fi provisioning that follows are left out.

### SupervisorUpdate

State. `file` is `update-state.json`, `unit` the systemd unit of the git updater,
`thread` the handlers of the supervisor's API, `audit` the version audit of Core with the
decision it stored, `release` and `target` what the supervisor runs and what Core offers.

Actions. A status request (`Probe`) and a start read the file (`Look`), and `Finalize` writes
back what they make of the current attempt. A start goes on to `Begin` (second read, replay
and running checks, 409 for a service update in git mode) and `Start` (the attempt is
written), then to `ApplyUpdatePackage` and `FinishPackage`, or `StartUnit` and `UnitDone`. The
file may have changed between any two of these, and a read may fall into a write and find it
empty. `tangled` is history: two updates have overlapped, a handler has written from a read
that was no longer the file's content, or a restart has cut a write short. `Wake`,
`Inspected`, `Checked`, `Started`, `Refreshed` are one audit, with a remote call between any
two of them. `CallFails` leaves the handler of a lost answer running.

Abstractions. One supervisor, so the limit on parallel updates is left out; the replay of
a package id is unreachable, since Core builds every package anew; in a checkout the commit
names the release.

## 3. Runs

Passing runs:

| Run | Instance | States | Shows |
| --- | --- | --- | --- |
| `node_trust` | 1 node, 1 onboarding and 1 re-auth session, 2 requests in flight, 5 tokens, 1 failure or restart, fairness | 698 k | types, `TrustNeedsApproval`, `ReplayOnlyByIssuer`, `TrustedHasRecord`, `ConsumedAfterIssue`, `CredentialIsOwn`, `TokensMoveForward`, `DecisionStands`, `ApprovedIsCollected` |
| `addon_reconcile` | 3 versions, retention limit 2, 3 revisions, 1 failure or crash | 1.8 M | types, `RollbackIsPossible`, `InUseIsInstalled`, `AppliedMeansRunning`, `FailureKeepsCurrent` |
| `addon_reconcile_live` | 2 versions, 2 configurations with service names of their own, 2 revisions, 1 uninstall, 1 failure or crash, fairness | 776 k | `Converges` (compose file, link, and image where a rebuild was asked for) |
| `broker_apply` | 1 request coroutine beside the loop, 2 files, changes up to version 3, 2 upsets, fairness | 2.5 M | types, `OneVersion`, `LostOnlyByFailure`, `Recovers` |
| `device_enrollment` | 1 user, 2 devices (one from before passkeys), 2 enrollments, 1 challenge, 1 password login, limits of 1, 2 requests, 2 operations; symmetry | 2.0 M | types, `WithinLimits`, `RevocationClosesSessions`, `SuspendedUserIsOut`, `RevokedForGood`, `SingleUse` (refinement) |
| `web_push` | 1 device, 3 events, 2 routers, 2 references, rate limit 1, 3 rows, 1 operation; symmetry | 5.1 M | types, `CleanedIsGone`, `PendingKeepsDevice`, `RateHeld` |
| `web_push_live` | 1 device, 2 events, 1 router, 2 references, a store of 1 row, 2 operations, fairness | 376 k | `PassStaysOpen`, `CleanupCompletes`, `IntentsSettle` |
| `ble_pairing` | 1 supervisor, 2 sessions, 2 devices, 2 requests, 5 operations; symmetry | 991 k | types, `ApprovedWasSeen`, `OneAdvert`, `ApprovedInTime` |
| `supervisor_update` | 2 handlers, both modes, 2 releases, 1 operator key, 2 operations, fairness | 1.1 M | types, `KeyOnce`, `NeverStuck`, `AuditReaches` |

Every property has a mutant in `PROJECT.json`: a definition with a plausible mistake
(a check dropped, the wrong version pinned, the session consumed too early) under which
the run fails.

Bounds. Two requests are enough for every pairwise race, which is what the handlers are
exposed to; a third one would only repeat a race. One node with both kinds of session
passes through onboarding, revocation, re-authentication and removal; that nothing leaks
between nodes is proved for any number of them (section 5). Five tokens let every session
finish in spite of failures. Three versions with a retention limit of two, the smallest
the code accepts (`MIN_KEEP_VERSIONS`), are the least with which cleanup removes
something; three revisions allow an update, a rollback and a change during a pass; one
failure can strike at any step. For the broker, a coroutine beside the loop already
overlaps two reconciles, and two upsets allow a failing probe followed by a crash, or a
failure around a change that no reconcile follows. In
`device_enrollment` limits of one make every second enrollment hit them, a device without a
passkey takes the login that registers one, and two operations are a suspension and a second
one that reads the user as disabled; enabling a user is not counted. In `web_push` two routers and a rate
limit of one are the least with which two events count together; a store of one row in
`web_push_live` is full at once. Two releases let the supervisor fall behind again after
an update; two handlers are enough for two starts of one key to read before either writes.
The counter `ops` bounds what users, networks and crashes do, and in `supervisor_update` the
reads that fall into another handler's write; the steps of the code itself are never bounded
by it. Some cases lie outside the instances and are covered by the theorems only: nodes
beside each other in `CredentialIsOwn`, uninstalls in `AppliedMeansRunning`, critical events
in `RateHeld`, and the devices of a deleted user enrolled after a crash in
`RevocationClosesSessions`.

Runs that end in a violation state what a document of the repository says:

| Run | Property | What the code does |
| --- | --- | --- |
| `find_revoked_deprovisioned` | `RevokedIsDeprovisioned` | a finalize of a consumed session replays the activation and provisions a revoked node again |
| `find_canceled_rejected` | `CanceledIsRejected` | a supervisor's answer that comes after the cancellation sets the pairing session back to found, and it is approved |
| `find_one_at_a_time` | `OneAtATime` | a status poll during a package update judges it by the idle git updater, records it as succeeded, and a second update starts beside it |

The quoted lines are under `findings` in `PROJECT.json`.

## 4. Fairness

`NodeTrust`: weak fairness of the next store call of every accepted handler (the event
loop and the thread pool run it to its end) and strong fairness of finalize on an
approved session. A node polls finalize until it is answered; the fairness is strong
because a slot for its request is free again and again, not all the time. No operator
action is assumed, and failures are bounded.

`AddonReconcile`: weak fairness of the supervisor's next step. `main` loops for ever and
its unit restarts it (`Restart=always` in `core/systemd/user/hexe-supervisor.service.in`).
Nothing is assumed of Core, which may stop at any point, also between staging and
requesting, or half way through an uninstall.

`BrokerApply`: weak fairness of every coroutine or thread that has begun, of the startup
task and of the next pass of the supervision loop, which `main.py` runs for as long as
Core does. No request is assumed.

`WebPush`: weak fairness of the loop's next step, and strong fairness of the pass that
finds an intent past its day: time passes, and every pass looks. That the gateway
answers in the end follows from the bound on failing calls.

`SupervisorUpdate`: weak fairness of every handler that has begun, of the updater unit
(systemd ends it), of a scheduled restart and of the audit loop. No operator and no
release is assumed.

`DeviceEnrollment` and `BlePairing` state no liveness.

Deadlock is checked in all runs but `device_enrollment` and `ble_pairing`. These two
components have no loop of their own: when the requests are answered and nobody asks for
more, they stop.

## 5. Proofs

Every safety property of the passing runs, invariant or action property, is a theorem. The
proofs hold for every value of the constants: any number of nodes, sessions, requests,
coroutines, handlers, users, devices, routers and supervisors, any set of versions, any
retention limit of at least two, any bounds on tokens, revisions, uninstalls, changes and
failures. The assumptions are those the modules name (`ConstantsAssumption`,
`AddonAssumption`, `BrokerAssumption`, `DeviceAssumption`, `PushAssumption`,
`PairingAssumption`, `UpdateAssumption`): disjoint ids, `None` and `Link` different from the
values they stand beside, natural bounds, the minimum retention the code enforces, finite
sets where the code counts (devices, events, routers), and no more devices from before the
limits than the limits allow.

### NodeTrustProofs

`IndInv` strengthens the checked invariants, which are not inductive:

* `TokenInv`: tokens are below the next fresh one and belong to one node. Without it
  `CredentialIsOwn` could be broken by the next issue.
* `RegistrationInv`: every registration rests on an approved session of its own node,
  and a trusted one on a trust record.
* `RequestInv`: what every handler in flight carries. A creating one owns its id, a
  finalizing one carries a token of its node that is no newer than the record, and one
  that writes back holds an object that was backed when it was detached and still is,
  because sessions never lose an approval and trust records never vanish.

The last point is the reason for the layout of the proof: `SessionRely` and `TrustRely`
say what every step guarantees to the handlers that did not move. Each action is shown
to keep its own request's part and to respect the two relies, and one set of lemmas
carries all other requests over.

Theorems: `TypeCorrect`, `ApprovalTheorem`, `ReplayTheorem`, `TrustedTheorem`,
`ConsumedTheorem`, `CredentialTheorem`, and the action properties `TokenTheorem` and
`DecisionTheorem`.

### AddonReconcileProofs

`IndInv` holds with uninstalls and gives `AppliedTheorem`. Its core is that revisions are
fresh: what a pass read is never newer than what is there (`PassInv`), so if the desired
revision is still the one it read, the whole desired state is; a pass only touches the
containers when its revision is not recorded as running (`StepInv`); and an uninstall,
which keeps the revision, wants nothing running (`RemovalInv`). `PriorInv` and
`AppliedInv` carry what the next pass compares: without the forced revision in them a
pass could redo an applied revision and break it half way.

`QuietInv` holds until the first uninstall and gives `RollbackTheorem`, `InUseTheorem`
and `FailureTheorem`, which assume `MaxUninstalls = 0`: the current link, the active and
the previous version and the compose files in use are staged, the pass's copy of the link
is the link, and the directories that cleanup has listed for removal are none of these.
The assumption is needed: with `MaxUninstalls = 1` TLC finds a pass that is running
during an uninstall, makes the service directory again (`mkdir` with `parents=True`) and
writes an error `runtime.json` that offers a rollback to a version that is gone.

### BrokerApplyProofs

`BrokerTypes` needs `Counted`: no reconcile was asked for at a version the state has not
reached. `LiveIsOneVersion` is
`OneVersion`, strengthened by `Whole`: file work is exclusive (`Exclusive`: only the
coroutine that holds the event loop is between clearing and copying), every backup is of
one version (`Backups`), and what a restore has copied so far is part of its backup
(`Copying`). Without the exclusiveness two half-done restores could mix.

`LossTheorem` is `LostOnlyByFailure`, which only speaks of moments when no coroutine runs.
Its invariant `Current` says what holds in between: the live files are of a state at least as
new as when a reconcile was last asked for (`Fresh`), or one was rolled back or gave up since,
or some coroutine is still to write (`Pending`), and what is about to be promoted was compiled
from the state as it is now. The last part holds because compiling and promoting happen
without an await in between. Changes that no reconcile follows raise `wanted` and leave `owed`
alone: the theorem says that they do no harm to the others, and promises nothing about them.

### DeviceEnrollmentProofs

`Types` adds to `TypeOK` what a request knows at each label (`Requests`) and that the
enrollment and the challenge it works on exist and have an owner (`Filled`).

* `SingleUseTheorem`: the specification implements `OneTimeCode`. The invariant `Codes` says
  that only a spent code has a request between spending it and opening the session for it,
  that this request is the only one and no session was issued for the code yet, and that a
  challenge about to be written is not in the table and has one writer. Without it `Grant`
  could happen twice. Each action is then shown to be a step of one code (`AbstractStep`) or
  a stutter (`QuietStep`, `QuietMove`).
* `RevokedTheorem` looks only at the steps that write the device table (`DeviceSteps`).
* `LimitsTheorem`: `WithinLimits` is inductive over `Types`. The argument is about
  cardinalities: `Consume` adds one device to a set that it has counted in the same
  transaction (`OneMore`), and retires the one that is replaced.
* `RevocationTheorem` and `SuspensionTheorem` follow from `Outs`. In the second the write of a
  suspension either leaves a request that is to close the sessions (`OutsSuspend`), or closes
  nothing and a user who was enabled becomes late (`OutsAgain`); a later suspension that does
  close takes the user out of `late` again (`OutsUserClose`). `RevocationClosesSessions`
  is not inductive as it stands: it counts a completion that replaced device `d` as somebody
  who is still to close the sessions on `d`, but that completion closes the sessions of its
  own user. If `d` is pruned meanwhile, enrolled for another user and revoked again, the
  completion says nothing about that user. `Outs` therefore counts a completion only while
  the device is its user's.

### WebPushProofs

`Types` is split by table, and each part carries what its own steps rely on: an intent that
is still tried has an attempt left, a router that counts has a target, the publisher marks a
row of its pass. `PassStaysOpen` is one of the parts, because the type of an attempt count
depends on it: `mark_delivery` looks at no status.

* `CleanedTheorem` needs `References`: every reference that Core, a device or the publisher
  knows is at most the last one handed out, so a new subscription never revives one that was
  cleaned up, and the reference that is about to be marked complete is gone at the gateway.
* `PendingTheorem` needs `Owned`: only a device that is active or disabled has an active
  subscription, so giving one up never leaves a cleanup without its device.
* `RateTheorem` needs `Rate`, which counts with the intents the routers that have passed the
  check and not created theirs yet. A creation moves one from the second set to the first;
  a router joins the second set only while the first is below the limit.

### BlePairingProofs

`Types` adds to `TypeOK` what a request knows at each label, that a call somebody waits for
is the only one of its request and at the supervisor it asked (`Calls`), and that a session
that does not exist has no identity (`Fresh`). `TypeOK` itself says that a request waits
exactly as long as its call is in `work`.

* `ApprovedSeenTheorem` needs `Seen`, which follows an identity along its way: from the file
  or the post to the advert, into the answer, into the session. At every station it was given
  to an advert, and at the session it is one of that session. The file is the exception: an
  endpoint may write an identity for another session into it, which the refresh ignores.
* `ApprovedInTimeTheorem` comes from `SessionStep`, which says for every step how it may move
  a session.
* `OneAdvertTheorem` needs `Races`: the claim of `OneAdvert` for every session a supervisor
  is busy with, the starts whose helper is not up yet included. `BusyStep` shows that a
  supervisor becomes busy with a session only by a start that found the adapter free.

### SupervisorUpdateProofs

`KeyStartsOnce` is `KeyOnce`. Its invariant `Remembered` says that as long as nothing is
`tangled`, the latest key is the current or the last one in `update-state.json`, and that an
update in progress is the one of the latest key. `Ready` says the same of what a handler has
read, for as long as the file still has that content, so that a start under the latest key
would have found it; `Steady` steps keep the file, `Calm` steps write it without forgetting
the key. The condition is needed, and each part of it: after an overlap the handler that ends
last writes an older attempt over the newer one; two starts of one key that read before either
writes both start; a poll that writes what it read may erase an attempt.

## 6. What is only model-checked

Liveness under fairness is out of the prover's reach: `ApprovedIsCollected`, `Converges`,
`Recovers`, `CleanupCompletes`, `IntentsSettle`, `NeverStuck`, `AuditReaches`. `Converges`
says that once Core stops writing, an installed version that it wants running gets and
stays running by its compose file and link, and by its image where a rebuild was asked for;
of a stop it only says that it is recorded. `CleanupCompletes` is about one reference at a
time and excepts one whose device subscribes again first. `AuditReaches` assumes that
automatic updates are on, in mode `core_host`, and that downloads and units come to an end.

All other properties of the passing runs are theorems. The three runs that expect a
violation state what a document says and the code does not do, and have nothing to prove.

## 7. Disagreements without a run

The models also show the following; each was met as a counterexample of a property that
states the quoted line, and the steps that lead to it are in the modules.

* Approve writes the registration after the node may have finalized, and turns trusted
  into pending. `docs/nodes/node-trust-activation-payload-contract.md:78`: "linked node
  registration trust status is promoted to `trusted`".
* Two starts of onboarding pass the duplicate check together.
  `docs/nodes/node-onboarding-api-contract.md:70`: "duplicate active sessions for the same
  binding return `duplicate_active_session`".
* A node revoked between approval and finalize becomes trusted.
  `docs/nodes/node-trust-status-contract.md:116`: "a terminal trust state until
  re-onboarded".
* After a first start that failed half way a stop finds no compose file, stops nothing and
  records stopped. `docs/addons/standalone-archive/SSAP_operator_runbook.md:83`:
  "Supervisor runs `docker compose down` for current version."
* A stop or a failure erases the active version and the digest from `runtime.json`: the
  next version starts the old image, and changed inputs start the old compose file.
  `core/backend/tests/test_hexe_supervisor_main.py:169` and `:267` state the intent.
  `Converges` therefore asks for the image only where a rebuild was requested, as every
  update requests it and an install does not.
* Cleanup removes a version between its staging and its request.
* A broker that is slow to listen makes a reconcile roll back, to no files at all at the
  first start; the loop then reports it ready, and nothing applies the state again.
  `docs/operators-guide.md:61`: "Startup reconciliation ensures authority/runtime artifacts
  are aligned."
* Changes of the authority that no reconcile follows stay out of the broker's files until the
  next one that has another reason: a client blocked or released by the noisy-client
  evaluation (`noisy_clients.py:53`), a grant stored as an error (`approval.py:193`), a grant
  that a reconcile turns active after it has compiled (`startup_reconcile.py:141`). The same
  line of `docs/operators-guide.md` states the intent. The last one also writes back a list it
  read before several awaits.
* A request that reads a user as disabled, awaits the step-up and writes disabled closes
  nothing, although somebody enabled the user in between and a session is live.
  `docs/core/api/multi-user-remote-web-app-security-contract.md:375`: "Disabling or deleting a
  Core user also revokes that user's sessions".
* A device that subscribes again while the cleanup of its earlier reference is pending takes
  the row over (`device_enrollment.py:573`), and the gateway keeps the earlier one.
  `docs/task-details.md:1418`: "Revocation and subscription rotation must trigger
  authenticated cleanup of the prior gateway subscription."
* The number of attempts of an intent is bounded as it is counted, in `mark_delivery`; a pass
  abandoned after the gateway has answered is not counted, and the intent is sent again.
* Two starts under one idempotency key, a retry after the client's timeout for instance, may
  both read `update-state.json` before either writes it, and both start; the key of an earlier
  update is not remembered at all. `docs/supervisor/service-configuration.md:67`: "Repeating the
  same idempotency key returns the existing current or completed attempt instead of starting
  another update." The same race is a second way to two updates at a time (`find_one_at_a_time`).
* With `HEXE_SUPERVISOR_AUTO_UPDATE_SOURCE_MODE=git` (`docs/config/environment.md:205`) the
  audit still asks for the service unit to be updated (`supervisor_version_audit.py:320`), and
  the supervisor refuses every such start with 409 (`service.py:735`).
* Intents created before a device was revoked are still delivered to it until the cleanup
  reaches the gateway.
  `docs/core/api/multi-user-remote-web-app-security-contract.md:404`: revoking "prevents
  future delivery to that target".

## 8. Not modelled

* Torn writes: the onboarding stores rewrite their file in place and treat an unreadable
  one as empty. A crash during the write loses every record; no property of the
  handlers survives that, and it belongs to a model of the store.
* Interleaving inside a method of the onboarding stores, such as two threads in
  `_transition`.
* More than one addon in the supervisor's loop: a malformed `desired.json` of one addon
  ends the loop for all.
* A changed project name, which leaves the old project's containers behind.
* The contents of grants and principals: `startup_reconcile.py:341` writes back a list it
  read before several awaits, which the model knows as one new version of the state.
* Users that are created while a request is under way: a request that read no user of that
  name closes nothing, like one that read a disabled user.
* Enrollment of supervisors: the token is checked and consumed without a lock
  (`supervisors.py:844`) and before the supervisor is registered (`:1153`).
* Budgets: a usage report without a period is filed under the window of the moment it
  arrives (`node_budgeting.py:1187`).
* Several supervisors in one audit, and the files an update that fails half way leaves
  behind.
* The components listed as `not_modelled` in `PROJECT.json`, each with its reason.

## 9. Plan

1. `SupervisorEnrollment` (`supervisors.py`): one-time tokens as a second implementation of
   `OneTimeCode`, registration and reporting tokens.
2. `NodeMqtt`: composition of `NodeTrust` with `BrokerApply`, to follow a revocation to the
   broker's password file, and the contents of grants.
3. `NodeBudget`: allocation totals, period windows, reports, as operators checked against
   reference definitions.
4. `InternalScheduler`: tasks, cancellation, restart; liveness of the interval loop.
5. `SupervisorLoop`: several addons in one loop and a malformed desired state, and an
   abstract specification of an addon that `AddonReconcile` implements.
6. `JsonStore`: torn writes and thread races inside a store method, with the abstract
   atomic store that `NodeTrust` assumes.
