----------------------------- MODULE BrokerApply -----------------------------
(***************************************************************************)
(* How Core keeps the embedded mosquitto broker in line with its MQTT      *)
(* authority state: the reconciler that compiles the state to broker       *)
(* files, the apply pipeline that swaps them in and rolls them back, the   *)
(* docker container, the supervision loop and the runtime endpoints.       *)
(*                                                                         *)
(* Core is one asyncio process.  A coroutine owns the event loop from one  *)
(* await to the next, so file work on the live directory is exclusive      *)
(* among coroutines (held); docker calls run in worker threads, which      *)
(* interleave with everything, a half-swapped live directory included.     *)
(* Nothing serialises two reconciles.  The process may crash anywhere; the *)
(* files, the container and the stored setup state survive.                *)
(*                                                                         *)
(* Most changes of the authority state are followed by a reconcile.  Three *)
(* are not: a grant stored as an error because setup is not ready, a       *)
(* client blocked by the loop's noisy-client evaluation, and the grants a  *)
(* reconcile turns active after it has compiled the state.                 *)
(***************************************************************************)
EXTENDS Integers, FiniteSets

CONSTANTS
    Request,      \* coroutines that serve requests, or the startup task
    Loop,         \* mqtt_runtime_supervision_loop
    File,         \* the artifacts compiled from the state: ACLs, passwords
    None,
    MaxChanges,   \* bound: version of the authority state after which no change begins
    MaxUpsets     \* bound: other requests, noisy clients, failing probes and file
                  \* operations, dying containers and restarts of Core, together

ASSUME BrokerAssumption ==
    /\ Loop \notin Request
    /\ None \notin Request \cup {Loop}
    /\ {MaxChanges, MaxUpsets} \subseteq Nat

VARIABLES
    wanted,     \* version of the authority state in the state store
    dormant,    \* that state has a grant the compiler leaves out and the next healthy
                \* reconcile turns active: one in error, or with a revoked principal
    live,       \* version of each file in the live directory, 0 if it is missing
    container,  \* the broker container
    setup,      \* setup_status in the state store
    held,       \* the coroutine in the middle of file work, or None
    task,       \* the coroutines
    starting,   \* the startup reconcile has not begun yet
    owed,       \* history: version of the state when a reconcile was last asked for or
                \* promoted its files; 0 once one is rolled back or gives up
    upsets      \* requests, failures and crashes so far

state == <<wanted, dormant, owed>>

vars == <<state, live, container, setup, held, task, starting, upsets>>

-----------------------------------------------------------------------------

Task == Request \cup {Loop}
Version == Nat
Artifacts == [File -> Version]

NoFiles == [f \in File |-> 0]
Compiled(v) == [f \in File |-> v]
Complete(files) == \A f \in File : files[f] # 0

\* sync: reload, rebuild, startup and every change of the authority state, one
\* reconcile.  start, init, setup: the runtime endpoints and setup/apply.
Kind == {"sync", "start", "init", "setup", "stop", "loop"}

\* Coroutine labels, then labels of the thread a coroutine waits for.
Label == {"idle", "reconcile", "promote", "restore", "copy", "settle", "read", "report"}
         \cup {"provision", "wake", "store", "evaluate"}
         \cup {"reload", "ensure", "remove", "start", "look", "run"}

\* version: of the state that was compiled.  backup: the copy of the live directory a
\* rollback restores.  restart: a thread starts the container for a restart and not for
\* ensure_running.  retried: missing files have been compiled once.  seen: setup as the
\* loop last read it.
TaskRecord == [kind    : Kind,
               pc      : Label,
               restart : BOOLEAN,
               retried : BOOLEAN,
               healthy : BOOLEAN,
               version : Version,
               backup  : Artifacts,
               seen    : {"unconfigured", "ready", "degraded"}]

Idle(k) == [kind |-> k, pc |-> "idle", restart |-> FALSE, retried |-> FALSE,
            healthy |-> FALSE, version |-> 0, backup |-> NoFiles,
            seen |-> "unconfigured"]

FirstKind(t) == IF t = Loop THEN "loop" ELSE "sync"

Init ==
    /\ wanted = 1 /\ owed = 0
    /\ dormant = FALSE
    /\ live = NoFiles
    /\ container = "absent"
    /\ setup = "unconfigured"
    /\ held = None
    /\ task = [t \in Task |-> Idle(FirstKind(t))]
    /\ starting = TRUE
    /\ upsets = 0

\* A coroutine runs only while no other is in the middle of file work.
Scheduled(t) == held \in {None, t}

Upset == upsets < MaxUpsets /\ upsets' = upsets + 1

\* The coroutine is done; it forgets its local state.
Done(t) == task' = [task EXCEPT ![t] = Idle(FirstKind(t))]
Goto(t, l) == task' = [task EXCEPT ![t].pc = l]

\* What follows a reconcile: the endpoints that start the broker go on to do so.
Resume(t) == IF task[t].kind = "sync"
             THEN Done(t)
             ELSE task' = [task EXCEPT ![t] = [Idle(@.kind) EXCEPT !.pc = "ensure",
                                                                  !.retried = task[t].retried]]

-----------------------------------------------------------------------------
(* Requests, the startup task and the loop begin *)

Begin(t, k) ==
    /\ Scheduled(t)
    /\ task[t].pc = "idle"
    /\ task' = [task EXCEPT ![t] =
                  [Idle(k) EXCEPT !.pc = CASE k = "stop" -> "remove"
                                           [] k \in {"start", "loop"} -> "ensure"
                                           [] OTHER -> "reconcile"]]

\* A grant, principal or credential is written to the state store.
Write(woken) ==
    /\ wanted' = wanted + 1
    /\ dormant' \in woken

\* The write and then a reconcile.
Change(t) ==
    /\ wanted <= MaxChanges
    /\ Begin(t, "sync")
    /\ Write(BOOLEAN)
    /\ owed' = wanted'
    /\ UNCHANGED <<live, container, setup, held, starting, upsets>>

\* The handler fails between the two: the credential file cannot be written.
ChangeFails(t) ==
    /\ Scheduled(t)
    /\ task[t].pc = "idle"
    /\ wanted <= MaxChanges
    /\ Upset
    /\ Write(BOOLEAN)
    /\ UNCHANGED <<owed, live, container, setup, held, task, starting>>

\* provision_grant reads a setup state that is not ready: otherwise it is a change like
\* the others.
Provision(t) ==
    /\ Scheduled(t)
    /\ task[t].pc = "idle"
    /\ wanted <= MaxChanges
    /\ setup # "ready"
    /\ Upset
    /\ Goto(t, "provision")
    /\ UNCHANGED <<state, live, container, setup, held, starting>>

\* It stores the grant as an error, whatever setup is by then, and does not reconcile.
Provisioned(t) ==
    /\ Scheduled(t)
    /\ task[t].pc = "provision"
    /\ Write({TRUE})
    /\ Done(t)
    /\ UNCHANGED <<owed, live, container, setup, held, starting, upsets>>

Ask(t, k) ==
    /\ Upset
    /\ Begin(t, k)
    /\ owed' = IF k \in {"sync", "init", "setup"} THEN wanted ELSE owed
    /\ UNCHANGED <<wanted, dormant, live, container, setup, held, starting>>

\* The runtime endpoints.  A rebuild that is not blocked by clients, like a reload, is
\* one reconcile.
MqttReload(t) == Ask(t, "sync")
RuntimeStart(t) == Ask(t, "start")
RuntimeStop(t) == Ask(t, "stop")
RuntimeInit(t) == Ask(t, "init")
RuntimeRebuild(t) == Ask(t, "sync")
SetupApply(t) == Ask(t, "setup")

\* The startup task's reconcile_startup.
Startup(t) ==
    /\ starting
    /\ Begin(t, "sync")
    /\ starting' = FALSE
    /\ owed' = wanted
    /\ UNCHANGED <<wanted, dormant, live, container, setup, held, upsets>>

\* A pass of the loop: health_check, then ensure_running when it is not healthy.
LoopBegin ==
    /\ Begin(Loop, "loop")
    /\ UNCHANGED <<state, live, container, setup, held, starting, upsets>>

-----------------------------------------------------------------------------
(* reconcile_authority and the apply pipeline *)

\* Mutant of Stage: an await between reading the state and replacing the directory.
StageAndYield(t) ==
    /\ Scheduled(t)
    /\ task[t].pc = "reconcile"
    /\ task' = [task EXCEPT ![t].pc = "promote", ![t].version = wanted, ![t].backup = live]
    /\ live' = NoFiles
    /\ UNCHANGED <<state, container, setup, held, starting, upsets>>

\* The state is read and compiled, the live directory backed up and moved out of the
\* way: from get_state to the first replace there is no await.
Stage(t) ==
    /\ Scheduled(t)
    /\ task[t].pc = "reconcile"
    /\ task' = [task EXCEPT ![t].pc = "promote", ![t].version = wanted, ![t].backup = live]
    /\ live' = NoFiles
    /\ held' = t
    /\ UNCHANGED <<state, container, setup, starting, upsets>>

\* An artifact cannot be written or the live directory cannot be copied: the handler
\* restores a backup that is empty or holds the files copied so far.
StageFails(t) ==
    /\ Scheduled(t)
    /\ task[t].pc = "reconcile"
    /\ Upset
    /\ \E copied \in SUBSET File :
          task' = [task EXCEPT ![t].pc = "restore", ![t].healthy = FALSE,
                     ![t].backup = [f \in File |-> IF f \in copied THEN live[f] ELSE 0]]
    /\ held' = t
    /\ UNCHANGED <<state, live, container, setup, starting>>

\* The state cannot be compiled, or its passwords not be stored: the exception ends the
\* reconcile before it has written anything.
GiveUp(t) ==
    /\ Scheduled(t)
    /\ task[t].pc = "reconcile"
    /\ Upset
    /\ owed' = 0
    /\ Resume(t)
    /\ UNCHANGED <<wanted, dormant, live, container, setup, held, starting>>

\* The new directory is renamed into place.
Promote(t) ==
    /\ Scheduled(t)
    /\ task[t].pc = "promote"
    /\ live' = Compiled(task[t].version)
    /\ owed' = wanted
    /\ held' = None
    /\ task' = [task EXCEPT ![t].pc = "reload", ![t].version = 0]
    /\ UNCHANGED <<wanted, dormant, container, setup, starting, upsets>>

\* Thread: reload signals a running broker and probes it.  One that is not healthy is
\* restarted, removed and started again.
Reload(t) ==
    /\ task[t].pc = "reload"
    /\ \/ /\ container = "running"
          /\ task' = [task EXCEPT ![t].pc = "settle", ![t].healthy = TRUE,
                                  ![t].backup = NoFiles]
          /\ UNCHANGED upsets
       \/ /\ IF container = "running" THEN Upset ELSE UNCHANGED upsets
          /\ task' = [task EXCEPT ![t].pc = "remove", ![t].restart = TRUE]
    /\ UNCHANGED <<state, live, container, setup, held, starting>>

\* Mutant of Restore: the files are copied over the ones that are there.
RestoreOver(t) ==
    /\ Scheduled(t)
    /\ task[t].pc = "restore"
    /\ owed' = 0
    /\ held' = t
    /\ Goto(t, "copy")
    /\ UNCHANGED <<wanted, dormant, live, container, setup, starting, upsets>>

\* _restore_backup removes what is in the live directory, then copies file by file.
Restore(t) ==
    /\ Scheduled(t)
    /\ task[t].pc = "restore"
    /\ live' = NoFiles
    /\ owed' = 0
    /\ held' = t
    /\ Goto(t, "copy")
    /\ UNCHANGED <<wanted, dormant, container, setup, starting, upsets>>

Copy(t) ==
    /\ task[t].pc = "copy"
    /\ \E f \in File : /\ live[f] # task[t].backup[f]
                       /\ live' = [live EXCEPT ![f] = task[t].backup[f]]
    /\ UNCHANGED <<state, container, setup, held, task, starting, upsets>>

Restored(t) ==
    /\ task[t].pc = "copy"
    /\ live = task[t].backup
    /\ held' = None
    /\ task' = [task EXCEPT ![t].pc = "settle", ![t].backup = NoFiles]
    /\ UNCHANGED <<state, live, container, setup, starting, upsets>>

\* A copy fails: the exception ends the reconcile, which reports an error and leaves
\* the setup state as it was.
CopyFails(t) ==
    /\ task[t].pc = "copy"
    /\ live # task[t].backup
    /\ Upset
    /\ held' = None
    /\ Resume(t)
    /\ UNCHANGED <<state, live, container, setup, starting>>

\* Mutant of Settle: the outcome's status is stored in place of its setup status.
SettleStatus(t) ==
    /\ Scheduled(t)
    /\ \/ task[t].pc = "settle" /\ ~(task[t].healthy /\ dormant)
       \/ task[t].pc = "store"
    /\ setup' = IF task[t].kind \in {"init", "setup"} THEN setup
                ELSE IF task[t].healthy THEN "ok" ELSE "degraded"
    /\ Resume(t)
    /\ UNCHANGED <<state, live, container, held, starting, upsets>>

\* init and setup/apply reconcile with update_setup_state=False.  A healthy reconcile
\* has read the state again and found no grant to turn active, or has turned it.
Settle(t) ==
    /\ Scheduled(t)
    /\ \/ task[t].pc = "settle" /\ ~(task[t].healthy /\ dormant)
       \/ task[t].pc = "store"
    /\ setup' = IF task[t].kind \in {"init", "setup"} THEN setup
                ELSE IF task[t].healthy THEN "ready" ELSE "degraded"
    /\ Resume(t)
    /\ UNCHANGED <<state, live, container, held, starting, upsets>>

\* _activate_ready_addon_principals reads the state,
Awaken(t) ==
    /\ Scheduled(t)
    /\ task[t].pc = "settle"
    /\ task[t].healthy /\ dormant
    /\ Goto(t, "wake")
    /\ UNCHANGED <<state, live, container, setup, held, starting, upsets>>

\* and writes its grants and principals back as active, whatever has happened to them
\* in between.  The files were compiled before, and no reconcile follows.
Wake(t) ==
    /\ Scheduled(t)
    /\ task[t].pc = "wake"
    /\ Write({FALSE})
    /\ Goto(t, "store")
    /\ UNCHANGED <<owed, live, container, setup, held, starting, upsets>>

-----------------------------------------------------------------------------
(* Threads that remove or start the container *)

\* Mutant of Answer: missing files are reported and never compiled again.
AnswerOnce(t, ok, missing) ==
    LET r == task[t] IN
    task' = [task EXCEPT ![t] =
        IF r.restart /\ ok THEN [Idle(r.kind) EXCEPT !.pc = "settle", !.healthy = TRUE,
                                                     !.retried = r.retried]
        ELSE IF r.restart THEN [r EXCEPT !.pc = "restore"]
        ELSE IF r.kind = "loop" THEN [Idle("loop") EXCEPT !.pc = "read", !.healthy = ok]
        ELSE IF r.kind = "setup" THEN [Idle("setup") EXCEPT !.pc = "report", !.healthy = ok]
        ELSE Idle(FirstKind(t))]

\* A thread reports whether the broker is healthy, and whether files were missing.
\* After a restart the pipeline settles or rolls back.  After ensure_running, missing
\* files are compiled once and the broker is started a second time; then the loop and
\* setup/apply report the outcome.
Answer(t, ok, missing) ==
    LET r == task[t] IN
    task' = [task EXCEPT ![t] =
        IF r.restart /\ ok THEN [Idle(r.kind) EXCEPT !.pc = "settle", !.healthy = TRUE,
                                                     !.retried = r.retried]
        ELSE IF r.restart THEN [r EXCEPT !.pc = "restore"]
        ELSE IF missing /\ ~r.retried
             THEN [Idle(r.kind) EXCEPT !.pc = "reconcile", !.retried = TRUE]
        ELSE IF r.kind = "loop" THEN [Idle("loop") EXCEPT !.pc = "read", !.healthy = ok]
        ELSE IF r.kind = "setup" THEN [Idle("setup") EXCEPT !.pc = "report", !.healthy = ok]
        ELSE Idle(FirstKind(t))]

\* ensure_running looks at the container.  One that runs and cannot be reached is
\* removed and started again.
Ensure(t) ==
    /\ task[t].pc = "ensure"
    /\ \/ /\ CASE container = "running" -> Answer(t, TRUE, FALSE)
               [] container = "stopped" -> Goto(t, "start")
               [] OTHER -> Goto(t, "look")
          /\ UNCHANGED upsets
       \/ /\ container = "running" /\ Upset
          /\ Goto(t, "remove")
    /\ UNCHANGED <<state, live, container, setup, held, starting>>

\* docker start of a stopped container.  Without its files the broker exits: it is
\* found not running, or found running and not yet listening and then removed.
StartStopped(t) ==
    /\ task[t].pc = "start"
    /\ \/ /\ CASE container = "running" -> Answer(t, TRUE, FALSE) /\ UNCHANGED container
               [] container = "absent" -> Goto(t, "remove") /\ UNCHANGED container
               [] container = "stopped" /\ Complete(live) ->
                    Answer(t, TRUE, FALSE) /\ container' = "running"
               [] OTHER -> /\ \/ Answer(t, FALSE, FALSE)
                              \/ Goto(t, "remove")
                           /\ UNCHANGED container
          /\ UNCHANGED upsets
       \/ /\ container = "stopped" /\ Complete(live) /\ Upset
          /\ container' = "running"
          /\ Goto(t, "remove")
    /\ UNCHANGED <<state, live, setup, held, starting>>

\* docker rm -f: of stop, of a restart, and of an unreachable container.
Remove(t) ==
    /\ task[t].pc = "remove"
    /\ container' = "absent"
    /\ IF task[t].kind = "stop" THEN Done(t) ELSE Goto(t, "look")
    /\ UNCHANGED <<state, live, setup, held, starting, upsets>>

\* _start_sync refuses to start without the files, and clears a stopped container.
Look(t) ==
    /\ task[t].pc = "look"
    /\ CASE ~Complete(live) -> Answer(t, FALSE, TRUE) /\ UNCHANGED container
         [] Complete(live) /\ container = "running" ->
              Answer(t, TRUE, FALSE) /\ UNCHANGED container
         [] OTHER -> Goto(t, "run") /\ container' = "absent"
    /\ UNCHANGED <<state, live, setup, held, starting, upsets>>

\* docker run fails when another thread has taken the name.  The new broker exits if
\* its files have gone, and may not be listening yet when it is probed.
Run(t) ==
    /\ task[t].pc = "run"
    /\ \/ /\ container' = IF container # "absent" THEN container
                          ELSE IF Complete(live) THEN "running" ELSE "stopped"
          /\ Answer(t, container = "absent" /\ Complete(live), FALSE)
          /\ UNCHANGED upsets
       \/ /\ container = "absent" /\ Complete(live) /\ Upset
          /\ container' = "running"
          /\ Answer(t, FALSE, FALSE)
    /\ UNCHANGED <<state, live, setup, held, starting>>

-----------------------------------------------------------------------------
(* Reports *)

\* The loop reads the setup state before it writes it.
Read(t) ==
    /\ Scheduled(t)
    /\ task[t].pc = "read"
    /\ task' = [task EXCEPT ![t].pc = "report", ![t].seen = setup]
    /\ UNCHANGED <<state, live, container, setup, held, starting, upsets>>

\* The loop clears a degraded state that it read and leaves any other alone.
LoopReport ==
    /\ Scheduled(Loop)
    /\ task[Loop].pc = "report"
    /\ setup' = IF ~task[Loop].healthy THEN "degraded"
                ELSE IF task[Loop].seen = "degraded" THEN "ready" ELSE setup
    /\ task' = [task EXCEPT ![Loop] = [Idle("loop") EXCEPT !.pc = "evaluate"]]
    /\ UNCHANGED <<state, live, container, held, starting, upsets>>

\* The pass ends with the noisy-client evaluation, which may write a principal back as
\* blocked, without a reconcile.
Evaluate ==
    /\ Scheduled(Loop)
    /\ task[Loop].pc = "evaluate"
    /\ \/ UNCHANGED <<wanted, dormant, upsets>>
       \/ wanted <= MaxChanges /\ Upset /\ Write({dormant})
    /\ Done(Loop)
    /\ UNCHANGED <<owed, live, container, setup, held, starting>>

\* setup/apply stores its own outcome.
SetupReport(t) ==
    /\ Scheduled(t)
    /\ task[t].pc = "report"
    /\ setup' = IF task[t].healthy THEN "ready" ELSE "degraded"
    /\ Done(t)
    /\ UNCHANGED <<state, live, container, held, starting, upsets>>

-----------------------------------------------------------------------------
(* Faults *)

ContainerDies ==
    /\ container = "running"
    /\ Upset
    /\ container' = "stopped"
    /\ UNCHANGED <<state, live, setup, held, task, starting>>

\* Core restarts; its startup task reconciles again.
Crash ==
    /\ Upset
    /\ task' = [t \in Task |-> Idle(FirstKind(t))]
    /\ held' = None
    /\ starting' = TRUE
    /\ UNCHANGED <<state, live, container, setup>>

-----------------------------------------------------------------------------

Proceed(t) ==
    \/ Provisioned(t)
    \/ Stage(t) \/ StageFails(t) \/ GiveUp(t) \/ Promote(t) \/ Reload(t)
    \/ Restore(t) \/ Copy(t) \/ Restored(t) \/ CopyFails(t)
    \/ Settle(t) \/ Awaken(t) \/ Wake(t) \/ Ensure(t) \/ StartStopped(t) \/ Remove(t) \/ Look(t) \/ Run(t)
    \/ Read(t) \/ (t # Loop /\ SetupReport(t)) \/ (t = Loop /\ (LoopReport \/ Evaluate))

Next ==
    \/ \E t \in Request :
          \/ Change(t) \/ ChangeFails(t) \/ Provision(t) \/ Startup(t)
          \/ MqttReload(t) \/ RuntimeStart(t) \/ RuntimeStop(t) \/ RuntimeInit(t)
          \/ RuntimeRebuild(t) \/ SetupApply(t)
    \/ LoopBegin
    \/ \E t \in Task : Proceed(t)
    \/ ContainerDies
    \/ Crash

Spec == Init /\ [][Next]_vars

\* Coroutines and threads that have begun go on, the startup task begins, and the loop
\* begins again.  Nothing obliges a user, a failure or a crash.
Fairness ==
    /\ \A t \in Task : WF_vars(Proceed(t))
    /\ WF_vars(\E t \in Request : Startup(t))
    /\ WF_vars(LoopBegin)

FairSpec == Spec /\ Fairness

-----------------------------------------------------------------------------
(* Properties *)

\* The live files, the broker, the setup state and the coroutines have their types.
TypeOK ==
    /\ wanted \in Version /\ owed \in Version
    /\ dormant \in BOOLEAN
    /\ live \in Artifacts
    /\ container \in {"absent", "stopped", "running"}
    /\ setup \in {"unconfigured", "ready", "degraded"}
    /\ held \in Task \cup {None}
    /\ task \in [Task -> TaskRecord]
    /\ starting \in BOOLEAN
    /\ upsets \in 0..MaxUpsets

\* The live directory never holds ACLs of one state and passwords of another, whatever
\* reconciles overlap, whatever fails and wherever Core crashes (apply_pipeline.py:
\* staging, promotion by rename, clearing before a restore).
OneVersion == \A f, g \in File : live[f] # 0 /\ live[g] # 0 => live[f] = live[g]

Quiet == ~starting /\ \A t \in Task : task[t].pc = "idle"

\* When every reconcile has ended, the broker's files are of a state at least as new as
\* when the last one was asked for, unless one was rolled back or gave up since: no
\* overlap of reconciles alone loses a change that asks for one (startup_reconcile.py:
\* 111-188).  A change that no reconcile follows is in the files or not: one of the
\* evaluation, a grant stored as an error, a grant a reconcile itself turns active.
LostOnlyByFailure == Quiet /\ owed # 0 => \E v \in owed..wanted : live = Compiled(v)

Settled ==
    \/ container = "running" /\ setup # "degraded"
    \/ container = "stopped" /\ setup = "degraded" /\ ~Complete(live)

\* Once users, failures and crashes stop, the loop brings the broker back and withdraws
\* a degraded report, with one exception it reports for ever: a stopped container whose
\* files are gone, which docker start alone cannot repair (main.py:791-927).
Recovers == <>[]Settled

=============================================================================
