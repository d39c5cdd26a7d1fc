--------------------------- MODULE SupervisorUpdate ---------------------------
(***************************************************************************)
(* The update of a remote supervisor: the update API of the supervisor,    *)
(* which remembers the current and the last attempt in update-state.json,  *)
(* the updater unit it starts in git mode, the packages it applies in      *)
(* core_host mode, and the two callers in Core, the version audit loop     *)
(* with its automatic trigger and the operator.                            *)
(*                                                                         *)
(* The API runs its handlers on worker threads and locks nothing: a handler*)
(* is a sequence of steps, one for each call of systemctl, each phase of a *)
(* package and each read and write of the state.  A caller that times out  *)
(* leaves its handler running.                                             *)
(*                                                                         *)
(* Every package Core sends is built anew and has an identifier of its own,*)
(* so that two starts are alike only if they have the same key.            *)
(***************************************************************************)
EXTENDS Naturals, FiniteSets

CONSTANTS
    Request,       \* worker threads of the supervisor's API
    Mode,          \* the modes this supervisor supports
    AuditMode,     \* HEXE_SUPERVISOR_AUTO_UPDATE_SOURCE_MODE
    None,
    MaxTarget,     \* bound: releases of the source Core updates from
    OperatorKey,   \* idempotency keys of manual updates
    MaxOps         \* bound: manual updates, polls, audits without a call, failing
                   \* steps, calls that time out, reads that fall into a write and restarts

ASSUME UpdateAssumption ==
    /\ IsFiniteSet(Request)
    /\ Mode \subseteq {"git", "core_host"}
    /\ AuditMode \in {"git", "core_host"}
    /\ MaxTarget \in Nat \ {0} /\ MaxOps \in Nat
    /\ None \notin OperatorKey \cup 1..MaxTarget
    /\ OperatorKey \cap 1..MaxTarget = {}

VARIABLES
    target,      \* the release of Core's supervisor source
    release,     \* the release the supervisor reports
    file,        \* update-state.json
    unit,        \* hexe-updater.service
    restarting,  \* the restart of the API that a service update has scheduled
    thread,      \* the handlers of the API
    audit,       \* the version audit loop
    recent,      \* history: the key of the latest start, unless tangled
    tangled,     \* history: an update was started while another was running, a handler wrote
                 \* the state from a read that was no longer the file's content, or a restart
                 \* cut a write short
    ops

vars == <<target, release, file, unit, restarting, thread, audit, recent, tangled, ops>>

-----------------------------------------------------------------------------

Release == 1..MaxTarget

\* The automatic key is a function of the target, so the target stands for it.
Key == Release \cup OperatorKey

\* An attempt on disk is always "starting" until it is the last one.
FileRecord == {f \in [current : Key \cup {None}, last : Key \cup {None},
                      outcome : {"none", "succeeded", "failed"}] :
                 f.last = None <=> f.outcome = "none"}

\* No file, or one that cannot be read.
Blank == [current |-> None, last |-> None, outcome |-> "none"]

\* seen: what systemctl show said of the unit.  read: the state a write to come goes back
\* to.  audited: the audit waits for the answer.
Label == {"idle", "probe", "look", "finalize", "begin", "write",
          "apply", "services", "unit", "wait"}
ThreadRecord == [pc : Label, kind : {"status", "start", "report"}, mode : Mode \cup {None},
                 key : Key \cup {None}, service_update : BOOLEAN,
                 seen : {"active", "ok", "failed"}, read : FileRecord, audited : BOOLEAN]
Idle == [pc |-> "idle", kind |-> "status", mode |-> None, key |-> None,
         service_update |-> FALSE, seen |-> "ok", read |-> Blank, audited |-> FALSE]

\* decision, for: auto_update_decision, as far as the next audit looks at it.
Answer == {"running", "current", "outdated", "accepted", "error"}
AuditRecord == [pc : {"sleep", "inspect", "check", "start", "refresh"},
                goal : Release, answer : Answer \cup {None},
                decision : {"none", "started", "failed"}, for : Release]
Asleep == [pc |-> "sleep", goal |-> 1, answer |-> None, decision |-> "none", for |-> 1]

Init ==
    /\ target = 1
    /\ release \in Release
    /\ file = Blank
    /\ unit = "ok"
    /\ restarting = FALSE
    /\ thread = [q \in Request |-> Idle]
    /\ audit = Asleep
    /\ recent = None /\ tangled = FALSE
    /\ ops = 0

\* The history after a step that tangles the updates, or does not, and leaves latest the key
\* of the latest start.
Tangle(now, latest) ==
    /\ tangled' = (tangled \/ now)
    /\ recent' = IF tangled' THEN None ELSE latest

Operation == ops < MaxOps /\ ops' = ops + 1

Call(q, kind, mode, key, service_update, audited) ==
    /\ thread[q].pc = "idle"
    /\ thread' = [thread EXCEPT ![q] = [Idle EXCEPT !.pc = "probe", !.kind = kind, !.mode = mode,
                                                    !.key = key, !.service_update = service_update,
                                                    !.audited = audited]]

\* The handler returns; the audit hears of it if it still waits.
Return(q, a) ==
    /\ thread' = [thread EXCEPT ![q] = Idle]
    /\ audit' = IF thread[q].audited THEN [audit EXCEPT !.answer = a] ELSE audit

\* Handlers that update, and those whose next step may write the state.
Updating == {"apply", "services", "unit", "wait"}
Writing == {"finalize", "write"} \cup Updating

\* A read of the state gives nothing if it falls into another handler's write, which
\* empties the file first.
Reads(q, f) ==
    \/ f = file /\ UNCHANGED ops
    \/ /\ Operation
       /\ f = Blank
       /\ \E p \in Request \ {q} : thread[p].pc \in Writing

-----------------------------------------------------------------------------
(* supervisor_update_status *)

Probe(q) ==
    /\ thread[q].pc = "probe"
    /\ thread' = [thread EXCEPT ![q].seen = unit, ![q].pc = "look"]
    /\ UNCHANGED <<target, release, file, unit, restarting, audit, recent, tangled, ops>>

\* A bug: only a successful run of the unit ends the attempt.
FinalizedIfOk(f, seen) ==
    IF f.current # None /\ seen = "ok"
    THEN [current |-> None, last |-> f.current, outcome |-> "succeeded"]
    ELSE f

\* An attempt whose unit is not active is over, with the unit's result, whatever its mode.
Finalized(f, seen) ==
    IF f.current # None /\ seen # "active"
    THEN [current |-> None, last |-> f.current,
          outcome |-> IF seen = "ok" THEN "succeeded" ELSE "failed"]
    ELSE f

\* The answer to a start is "accepted" whatever the status that goes with it.
Status(q, f) ==
    IF thread[q].kind = "report" THEN "accepted"
    ELSE IF f.current # None THEN "running"
    ELSE IF release = audit.goal THEN "current" ELSE "outdated"

\* The status is complete: a start goes on, any other handler answers.
Summary(q, f) ==
    IF thread[q].kind = "start"
    THEN /\ thread' = [thread EXCEPT ![q].pc = "begin", ![q].read = Blank, ![q].seen = "ok"]
         /\ UNCHANGED audit
    ELSE Return(q, Status(q, f))

\* The state is read; it is written only if that ends an attempt.
Look(q) ==
    /\ thread[q].pc = "look"
    /\ \E f \in {file, Blank} :
         /\ Reads(q, f)
         /\ IF Finalized(f, thread[q].seen) = f
            THEN Summary(q, f)
            ELSE /\ thread' = [thread EXCEPT ![q].pc = "finalize", ![q].read = f]
                 /\ UNCHANGED audit
    /\ UNCHANGED <<target, release, file, unit, restarting, recent, tangled>>

\* The state that was read is written back, over whatever has been written since.
Finalize(q) ==
    LET f == Finalized(thread[q].read, thread[q].seen)
    IN
    /\ thread[q].pc = "finalize"
    /\ file' = f
    /\ Summary(q, f)
    /\ Tangle(thread[q].read # file, recent)
    /\ UNCHANGED <<target, release, unit, restarting, ops>>

-----------------------------------------------------------------------------
(* start_supervisor_update *)

\* A bug: an attempt that failed may be repeated under its key.
ReplayedUnlessFailed(f, key) == key \in {f.current, f.last} /\ (key = f.last => f.outcome # "failed")

Replayed(f, key) == key \in {f.current, f.last}

Overlap == unit = "active" \/ \E q \in Request : thread[q].pc \in Updating

\* A mode is supported or not, and git takes no service_update.
Possible(t) == t.mode \in Mode /\ ~(t.mode = "git" /\ t.service_update)

\* The state is read again, and the request is checked against it.
Begin(q) ==
    /\ thread[q].pc = "begin"
    /\ \E f \in {file, Blank} :
         /\ Reads(q, f)
         /\ \/ /\ Replayed(f, thread[q].key)
               /\ Return(q, "accepted")
            \/ /\ ~Replayed(f, thread[q].key)
               /\ f.current # None \/ ~Possible(thread[q])
               /\ Return(q, "error")
            \/ /\ ~Replayed(f, thread[q].key)
               /\ f.current = None /\ Possible(thread[q])
               /\ thread' = [thread EXCEPT ![q].pc = "write", ![q].read = f]
               /\ UNCHANGED audit
    /\ UNCHANGED <<target, release, file, unit, restarting, recent, tangled>>

\* The attempt is added to the state that was read, and the update starts.
Start(q) ==
    /\ thread[q].pc = "write"
    /\ file' = [thread[q].read EXCEPT !.current = thread[q].key]
    /\ thread' = [thread EXCEPT ![q].pc = IF thread[q].mode = "git" THEN "unit" ELSE "apply",
                                ![q].read = Blank]
    /\ Tangle(Overlap \/ thread[q].read # file, thread[q].key)
    /\ UNCHANGED <<target, release, unit, restarting, audit, ops>>

\* A bug: the outcome is not written.
EndsBlank(q, outcome) == file' = [file EXCEPT !.current = None, !.last = thread[q].key]

\* The state the handler read when it started, without its attempt, which is the last now.
Ends(q, outcome) == file' = [current |-> None, last |-> thread[q].key, outcome |-> outcome]

Report(q) == thread' = [thread EXCEPT ![q] = [Idle EXCEPT !.pc = "probe", !.kind = "report",
                                                          !.audited = thread[q].audited]]

\* The archive is validated, staged and backed up, and its files are copied.
\* config/supervisor.json names the release, unless a checkout's commit does.
ApplyUpdatePackage(q) ==
    /\ thread[q].pc = "apply"
    /\ release' = IF "git" \in Mode THEN release ELSE target
    /\ thread' = [thread EXCEPT ![q].pc = "services"]
    /\ UNCHANGED <<target, file, unit, restarting, audit, recent, tangled, ops>>

\* With service_update the API is restarted two seconds later.
FinishPackage(q) ==
    /\ thread[q].pc = "services"
    /\ restarting' = (restarting \/ thread[q].service_update)
    /\ Ends(q, "succeeded")
    /\ Report(q)
    /\ UNCHANGED <<target, release, unit, audit, recent, tangled, ops>>

\* systemctl start, which waits for the unit, an active one included.
StartUnit(q) ==
    /\ thread[q].pc = "unit"
    /\ unit' = "active"
    /\ thread' = [thread EXCEPT ![q].pc = "wait"]
    /\ UNCHANGED <<target, release, file, restarting, audit, recent, tangled, ops>>

UnitDone(q) ==
    /\ thread[q].pc = "wait"
    /\ unit = "ok"
    /\ Report(q)
    /\ UNCHANGED <<target, release, file, unit, restarting, audit, recent, tangled, ops>>

\* The unit fails, or is not done after eight seconds: the attempt has failed.
UnitFails(q) ==
    /\ thread[q].pc = "wait"
    /\ unit # "ok"
    /\ Ends(q, "failed")
    /\ Return(q, "error")
    /\ UNCHANGED <<target, release, unit, restarting, recent, tangled, ops>>

\* A package is refused, a file cannot be written, a command fails or times out.
Fails(q) ==
    /\ Operation
    /\ thread[q].pc \in {"apply", "services", "unit"}
    /\ Ends(q, "failed")
    /\ Return(q, "error")
    /\ UNCHANGED <<target, release, unit, restarting, recent, tangled>>

\* scripts/update.sh resets the checkout to the published release.
UpdaterEnds ==
    /\ unit = "active"
    /\ \/ /\ unit' = "ok"
          /\ release' = IF "git" \in Mode THEN target ELSE release
          /\ UNCHANGED ops
       \/ /\ Operation
          /\ unit' = "failed"
          /\ release' \in {release, target}
    /\ UNCHANGED <<target, file, restarting, thread, audit, recent, tangled>>

\* The API process restarts: its handlers are lost, the unit and the file stay, unless a
\* handler was just writing it.
Restart ==
    /\ \/ restarting /\ UNCHANGED <<file, ops>>
       \/ Operation /\ UNCHANGED file
       \/ Operation /\ file' = Blank /\ \E q \in Request : thread[q].pc \in Writing
    /\ restarting' = FALSE
    /\ thread' = [q \in Request |-> Idle]
    /\ audit' = IF \E q \in Request : thread[q].audited
                THEN [audit EXCEPT !.answer = "error"] ELSE audit
    /\ Tangle(file' # file, recent)
    /\ UNCHANGED <<target, release, unit>>

-----------------------------------------------------------------------------
(* Core: the operator's requests *)

UpdateStart(q, mode, key, service_update) ==
    /\ Operation
    /\ Call(q, "start", mode, key, service_update, FALSE)
    /\ UNCHANGED <<target, release, file, unit, restarting, audit, recent, tangled>>

UpdateStatus(q) ==
    /\ Operation
    /\ Call(q, "status", None, None, FALSE, FALSE)
    /\ UNCHANGED <<target, release, file, unit, restarting, audit, recent, tangled>>

NewRelease ==
    /\ target < MaxTarget
    /\ target' = target + 1
    /\ UNCHANGED <<release, file, unit, restarting, thread, audit, recent, tangled, ops>>

-----------------------------------------------------------------------------
(* Core: SupervisorVersionAudit.run_once with SupervisorAutoUpdateTrigger *)

\* A bug: a decision to skip does not replace the one before.
DecideKeepsPrior(d) ==
    audit' = IF d = "none"
             THEN [Asleep EXCEPT !.decision = audit.decision, !.for = audit.for]
             ELSE [Asleep EXCEPT !.decision = d, !.for = audit.goal]

\* set_auto_update_decision: skipped and blocked decisions replace the earlier one as well.
Decide(d) ==
    audit' = IF d = "none" THEN Asleep ELSE [Asleep EXCEPT !.decision = d, !.for = audit.goal]

Ask(l) == audit' = [audit EXCEPT !.pc = l, !.answer = None]

\* The gate reads the source, and the supervisor is asked for its status.
Wake(q) ==
    /\ audit.pc = "sleep"
    /\ audit' = [audit EXCEPT !.pc = "inspect", !.goal = target]
    /\ Call(q, "status", None, None, FALSE, TRUE)
    /\ UNCHANGED <<target, release, file, unit, restarting, recent, tangled, ops>>

\* No call is made: the supervisor is not trusted, online and known by its address.  Or
\* its answer does not matter: it is denied, unhealthy or pairing a device, or the source
\* of Core is not current.
Blocked ==
    /\ Operation
    /\ audit.pc = "sleep" \/ (audit.pc = "inspect" /\ audit.answer # None)
    /\ Decide("none")
    /\ UNCHANGED <<target, release, file, unit, restarting, thread, recent, tangled>>

\* A decision for the same target holds it back: one that started the update, or one that
\* failed within the last half hour.
HeldBack(elapsed) ==
    /\ audit.for = audit.goal
    /\ audit.decision = "started" \/ (audit.decision = "failed" /\ ~elapsed)

Inspected(q, elapsed) ==
    /\ audit.pc = "inspect" /\ audit.answer # None
    /\ IF audit.answer = "outdated" /\ AuditMode \in Mode /\ ~HeldBack(elapsed)
       THEN Ask("check") /\ Call(q, "status", None, None, FALSE, TRUE)
       ELSE Decide("none") /\ UNCHANGED thread
    /\ UNCHANGED <<target, release, file, unit, restarting, recent, tangled, ops>>

Checked(q) ==
    /\ audit.pc = "check" /\ audit.answer # None
    /\ IF audit.answer \in {"error", "running"} \/ AuditMode \notin Mode
       THEN /\ Decide(IF audit.answer = "error" THEN "failed" ELSE "none")
            /\ UNCHANGED thread
       ELSE Ask("start") /\ Call(q, "start", AuditMode, audit.goal, TRUE, TRUE)
    /\ UNCHANGED <<target, release, file, unit, restarting, recent, tangled, ops>>

\* An answer that the request was seen before counts as a start.
Started(q) ==
    /\ audit.pc = "start" /\ audit.answer # None
    /\ IF audit.answer = "error"
       THEN Decide("failed") /\ UNCHANGED thread
       ELSE Ask("refresh") /\ Call(q, "status", None, None, FALSE, TRUE)
    /\ UNCHANGED <<target, release, file, unit, restarting, recent, tangled, ops>>

Refreshed ==
    /\ audit.pc = "refresh" /\ audit.answer # None
    /\ Decide("started")
    /\ UNCHANGED <<target, release, file, unit, restarting, thread, recent, tangled, ops>>

\* The call times out or its answer is lost; lost: so was the request.
CallFails(lost) ==
    /\ Operation
    /\ audit.pc # "sleep" /\ audit.answer = None
    /\ audit' = [audit EXCEPT !.answer = "error"]
    /\ thread' = [q \in Request |->
                    IF thread[q].audited
                    THEN IF lost /\ thread[q].pc = "probe" /\ thread[q].kind # "report"
                         THEN Idle ELSE [thread[q] EXCEPT !.audited = FALSE]
                    ELSE thread[q]]
    /\ UNCHANGED <<target, release, file, unit, restarting, recent, tangled>>

\* Core restarts; its decisions are on disk, and the loop begins anew.
CoreRestarts ==
    /\ Operation
    /\ audit' = [Asleep EXCEPT !.decision = audit.decision, !.for = audit.for]
    /\ thread' = [q \in Request |-> [thread[q] EXCEPT !.audited = FALSE]]
    /\ UNCHANGED <<target, release, file, unit, restarting, recent, tangled>>

-----------------------------------------------------------------------------

Handler(q) ==
    \/ Probe(q) \/ Look(q) \/ Finalize(q) \/ Begin(q) \/ Start(q)
    \/ ApplyUpdatePackage(q) \/ FinishPackage(q)
    \/ StartUnit(q) \/ UnitDone(q) \/ UnitFails(q)
    \/ Fails(q)

Audit ==
    \/ \E q \in Request : \/ Wake(q) \/ Checked(q) \/ Started(q)
                          \/ \E elapsed \in BOOLEAN : Inspected(q, elapsed)
    \/ Refreshed

Next ==
    \/ \E q \in Request : \/ Handler(q)
                          \/ \E mode \in Mode, key \in OperatorKey, service_update \in BOOLEAN :
                                UpdateStart(q, mode, key, service_update)
                          \/ UpdateStatus(q)
    \/ UpdaterEnds
    \/ Restart
    \/ NewRelease
    \/ Audit
    \/ Blocked
    \/ \E lost \in BOOLEAN : CallFails(lost)
    \/ CoreRestarts

Spec == Init /\ [][Next]_vars

\* Handlers run on, the updater ends, a scheduled restart happens, and the audit loop
\* runs for as long as Core does.
Fairness ==
    /\ \A q \in Request : WF_vars(Handler(q))
    /\ WF_vars(UpdaterEnds)
    /\ WF_vars(restarting /\ Restart)
    /\ WF_vars(Audit)

FairSpec == Spec /\ Fairness

-----------------------------------------------------------------------------
(* Properties *)

\* Every variable has its type; the file, and the state a handler has read of it, names an
\* outcome for the last attempt, if there is one.
TypeOK ==
    /\ target \in Release /\ release \in Release
    /\ file \in FileRecord
    /\ unit \in {"active", "ok", "failed"}
    /\ restarting \in BOOLEAN
    /\ thread \in [Request -> ThreadRecord]
    /\ audit \in AuditRecord
    /\ recent \in Key \cup {None} /\ tangled \in BOOLEAN
    /\ ops \in 0..MaxOps

\* The latest key starts one update: whatever times out, is retried, crashes or is polled in
\* between, a start under the key of the latest start is a replay.  Two cases are excepted,
\* since nothing locks update-state.json: two updates have run side by side, or a handler has
\* written the state from a read that was no longer the file's content (by this start, if two
\* starts under one key have both read before either wrote) or a restart has cut a write
\* short.  Of an earlier key the file remembers nothing, and it may start again.
KeyOnce ==
    [][\A q \in Request :
        (thread[q].pc = "write" /\ thread'[q].pc \in Updating)
            => (thread[q].key # recent \/ tangled')]_vars

\* An attempt never stays current for good: a handler that dies, a unit that fails and a
\* caller that gave up all leave a supervisor that takes the next update.
NeverStuck == (file.current # None) ~> (file.current = None)

\* The audit gets its update to the supervisor: while that is outdated, a start under the
\* key of the target has been tried, however many calls are lost, other updates interfere
\* or restarts happen on the way.
Reached == release = target \/ target \in {file.current, file.last}
AuditReaches == ~Reached ~> Reached

\* What the documentation says: concurrent updates are rejected.
OneAtATime ==
    Cardinality({q \in Request : thread[q].pc \in {"apply", "services"}})
        + (IF unit = "active" THEN 1 ELSE 0) <= 1

===============================================================================
