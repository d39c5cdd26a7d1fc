-------------------------- MODULE BrokerApplyProofs --------------------------
(***************************************************************************)
(* OneVersion and LostOnlyByFailure for any number of coroutines, files,   *)
(* changes and failures.                                                   *)
(*                                                                         *)
(* OneVersion is not inductive: a rollback copies a backup file by file,   *)
(* so the files copied so far must come from a backup that is itself of    *)
(* one version, and nobody else may write the live directory until the     *)
(* copy is complete.  Exclusive states the second, Backups the first.      *)
(* Current extends LostOnlyByFailure to the states in which somebody is    *)
(* still to write the live directory.                                      *)
(***************************************************************************)
EXTENDS BrokerApply, TLAPS

Uniform(files) == \A f, g \in File : files[f] # 0 /\ files[g] # 0 => files[f] = files[g]

\* A coroutine in the middle of file work owns the event loop.
Exclusive == \A t \in Task : task[t].pc \in {"promote", "copy"} => held = t

Backups == \A t \in Task : Uniform(task[t].backup)

\* A copy in progress has put nothing in the live directory but its backup's files.
Copying == \A t \in Task : task[t].pc = "copy" =>
              \A f \in File : live[f] # 0 => live[f] = task[t].backup[f]

\* No reconcile was asked for at a version the state has not reached.
Counted == owed <= wanted

Types == TypeOK /\ Counted

Whole == OneVersion /\ Exclusive /\ Backups /\ Copying

-----------------------------------------------------------------------------
(* Type correctness *)

USE DEF state

\* The bounds are natural numbers.
LEMMA Bounds == MaxChanges \in Nat /\ MaxUpsets \in Nat
  BY BrokerAssumption

\* A coroutine that waits for work has a record.
LEMMA IdleType == \A k \in Kind : Idle(k) \in TaskRecord
  BY BrokerAssumption DEF Idle, TaskRecord, Kind, Label, NoFiles, Artifacts, Version

\* Every coroutine has a kind to start with.
LEMMA FirstKindType == \A t \in Task : FirstKind(t) \in Kind
  BY DEF FirstKind, Kind

\* Replacing the record of one coroutine keeps the type of all.
LEMMA UpdateType ==
  ASSUME NEW t \in Task, NEW r \in TaskRecord, TypeOK, task' = [task EXCEPT ![t] = r]
  PROVE  task' \in [Task -> TaskRecord]
  BY DEF TypeOK

\* So does the answer of a docker call.
LEMMA AnswerType ==
  ASSUME NEW t \in Task, NEW ok \in BOOLEAN, NEW missing \in BOOLEAN, TypeOK,
         Answer(t, ok, missing)
  PROVE  task' \in [Task -> TaskRecord]
  <1> DEFINE r == task[t]
  <1>1. r \in TaskRecord /\ r.kind \in Kind BY DEF TypeOK, TaskRecord
  <1>2. Idle(r.kind) \in TaskRecord /\ Idle("loop") \in TaskRecord
        /\ Idle("setup") \in TaskRecord /\ Idle(FirstKind(t)) \in TaskRecord
    BY <1>1, IdleType, FirstKindType DEF Kind
  <1> HIDE DEF r
  <1>3. /\ [Idle(r.kind) EXCEPT !.pc = "settle", !.healthy = TRUE, !.retried = r.retried]
              \in TaskRecord
        /\ [Idle(r.kind) EXCEPT !.pc = "reconcile", !.retried = TRUE] \in TaskRecord
    BY <1>1, <1>2 DEF TaskRecord, Label
  <1>4. /\ [r EXCEPT !.pc = "restore"] \in TaskRecord
        /\ [Idle("loop") EXCEPT !.pc = "read", !.healthy = ok] \in TaskRecord
        /\ [Idle("setup") EXCEPT !.pc = "report", !.healthy = ok] \in TaskRecord
    BY <1>1, <1>2 DEF TaskRecord, Label
  <1>5. \E q \in TaskRecord : task' = [task EXCEPT ![t] = q]
    BY <1>2, <1>3, <1>4 DEF Answer, r
  <1> QED BY <1>5, UpdateType

\* Every other update of a coroutine changes a few fields of its record.
LEMMA FieldTypes ==
  ASSUME NEW r \in TaskRecord
  PROVE  /\ \A l \in Label : [r EXCEPT !.pc = l] \in TaskRecord
         /\ \A l \in Label, b \in Artifacts : [r EXCEPT !.pc = l, !.backup = b] \in TaskRecord
         /\ \A l \in Label, v \in Version : [r EXCEPT !.pc = l, !.version = v] \in TaskRecord
         /\ \A l \in Label, v \in Version, b \in Artifacts :
               [r EXCEPT !.pc = l, !.version = v, !.backup = b] \in TaskRecord
         /\ \A l \in Label, h \in BOOLEAN, b \in Artifacts :
               [r EXCEPT !.pc = l, !.healthy = h, !.backup = b] \in TaskRecord
         /\ \A l \in Label, h \in BOOLEAN : [r EXCEPT !.pc = l, !.restart = h] \in TaskRecord
         /\ \A l \in Label, h \in BOOLEAN : [r EXCEPT !.pc = l, !.retried = h] \in TaskRecord
         /\ \A l \in Label, x \in {"unconfigured", "ready", "degraded"} :
               [r EXCEPT !.pc = l, !.seen = x] \in TaskRecord
  BY DEF TaskRecord

\* Compiled files are files.
LEMMA FilesType == NoFiles \in Artifacts /\ \A v \in Version : Compiled(v) \in Artifacts
  BY BrokerAssumption DEF NoFiles, Compiled, Artifacts, Version

\* So does a coroutine that goes on,
LEMMA GotoType ==
  ASSUME NEW t \in Task, NEW l \in Label, TypeOK, Goto(t, l)
  PROVE  task' \in [Task -> TaskRecord]
  <1>1. task[t] \in TaskRecord BY DEF TypeOK
  <1>2. [task[t] EXCEPT !.pc = l] \in TaskRecord BY <1>1, FieldTypes
  <1>3. task' = [task EXCEPT ![t] = [task[t] EXCEPT !.pc = l]] BY DEF Goto, TypeOK
  <1> QED BY <1>2, <1>3, UpdateType

\* one that ends,
LEMMA DoneType ==
  ASSUME NEW t \in Task, TypeOK, Done(t)
  PROVE  task' \in [Task -> TaskRecord]
  BY UpdateType, IdleType, FirstKindType DEF Done

\* one that begins,
LEMMA BeginType ==
  ASSUME NEW t \in Task, NEW k \in Kind, TypeOK, Begin(t, k)
  PROVE  task' \in [Task -> TaskRecord]
  <1> DEFINE l == CASE k = "stop" -> "remove"
                    [] k \in {"start", "loop"} -> "ensure"
                    [] OTHER -> "reconcile"
  <1>1. l \in Label BY DEF Label
  <1>2. task' = [task EXCEPT ![t] = [Idle(k) EXCEPT !.pc = l]] BY DEF Begin
  <1> HIDE DEF l
  <1>3. [Idle(k) EXCEPT !.pc = l] \in TaskRecord BY <1>1, IdleType, FieldTypes
  <1> QED BY <1>2, <1>3, UpdateType

\* and one that goes on after the runtime was ensured.
LEMMA ResumeType ==
  ASSUME NEW t \in Task, TypeOK, Resume(t)
  PROVE  task' \in [Task -> TaskRecord]
  <1>1. task[t] \in TaskRecord /\ task[t].kind \in Kind /\ task[t].retried \in BOOLEAN
    BY DEF TypeOK, TaskRecord
  <1>2. CASE task[t].kind = "sync" BY <1>2, DoneType DEF Resume
  <1>3. CASE task[t].kind # "sync"
    <2>1. task' = [task EXCEPT ![t] = [Idle(task[t].kind) EXCEPT !.pc = "ensure",
                                                           !.retried = task[t].retried]]
      BY <1>3 DEF Resume, TypeOK
    <2>2. Idle(task[t].kind) \in TaskRecord BY <1>1, IdleType
    <2>3. [Idle(task[t].kind) EXCEPT !.pc = "ensure", !.retried = task[t].retried]
            \in TaskRecord
      BY <1>1, <2>2, FieldTypes DEF Label
    <2> QED BY <2>1, <2>3, UpdateType
  <1> QED BY <1>2, <1>3

\* The types hold at the start.
LEMMA TypesInit == Init => Types
  <1> SUFFICES ASSUME Init PROVE Types OBVIOUS
  <1>1. task \in [Task -> TaskRecord] BY IdleType, FirstKindType DEF Init
  <1>2. live \in Artifacts BY FilesType DEF Init
  <1>3. wanted \in Version /\ owed \in Version /\ upsets \in 0..MaxUpsets /\ owed <= wanted
    BY Bounds DEF Init, Version
  <1>4. dormant \in BOOLEAN /\ starting \in BOOLEAN /\ held \in Task \cup {None} BY DEF Init
  <1> QED BY <1>1, <1>2, <1>3, <1>4 DEF Init, Types, TypeOK, Counted

\* Steps that only move a coroutine, the container or the setup state.
LEMMA TypesProceed ==
  ASSUME Types, NEW t \in Task, Proceed(t)
  PROVE  Types'
  <1> USE Bounds DEF Upset
  <1>0. TypeOK /\ task[t] \in TaskRecord /\ task[t].version \in Version
        /\ task[t].backup \in Artifacts /\ wanted \in Version /\ live \in Artifacts
    BY DEF Types, TypeOK, TaskRecord, Version
  <1>1. CASE Stage(t)
    <2>1. task' = [task EXCEPT ![t] = [task[t] EXCEPT !.pc = "promote", !.version = wanted,
                                                      !.backup = live]]
      BY <1>0, <1>1 DEF Stage, TypeOK
    <2>2. [task[t] EXCEPT !.pc = "promote", !.version = wanted, !.backup = live] \in TaskRecord
      BY <1>0, FieldTypes DEF Label
    <2>3. task' \in [Task -> TaskRecord] BY <1>0, <2>1, <2>2, UpdateType
    <2> QED BY <1>1, <2>3, FilesType DEF Types, TypeOK, Counted, Stage
  <1>2. CASE StageFails(t)
    <2>1. PICK copied \in SUBSET File :
            task' = [task EXCEPT ![t].pc = "restore", ![t].healthy = FALSE,
                       ![t].backup = [f \in File |-> IF f \in copied THEN live[f] ELSE 0]]
      BY <1>2 DEF StageFails
    <2> DEFINE b == [f \in File |-> IF f \in copied THEN live[f] ELSE 0]
    <2>2. b \in Artifacts BY <1>0 DEF Artifacts, Version
    <2>3. task' = [task EXCEPT ![t] = [task[t] EXCEPT !.pc = "restore", !.healthy = FALSE,
                                                      !.backup = b]]
      BY <1>0, <2>1 DEF TypeOK
    <2> HIDE DEF b
    <2>4. [task[t] EXCEPT !.pc = "restore", !.healthy = FALSE, !.backup = b] \in TaskRecord
      BY <1>0, <2>2, FieldTypes DEF Label
    <2>5. task' \in [Task -> TaskRecord] BY <1>0, <2>3, <2>4, UpdateType
    <2> QED BY <1>2, <2>5 DEF Types, TypeOK, Counted, StageFails
  <1>3. CASE Promote(t)
    <2>1. 0 \in Version BY DEF Version
    <2>2. [task[t] EXCEPT !.pc = "reload", !.version = 0] \in TaskRecord
      BY <1>0, <2>1, FieldTypes DEF Label
    <2>3. task' = [task EXCEPT ![t] = [task[t] EXCEPT !.pc = "reload", !.version = 0]]
      BY <1>0, <1>3 DEF Promote, TypeOK
    <2>4. task' \in [Task -> TaskRecord] BY <1>0, <2>2, <2>3, UpdateType
    <2>5. live' \in Artifacts BY <1>0, <1>3, FilesType DEF Promote
    <2>6. owed' \in Version /\ owed' <= wanted' BY <1>0, <1>3 DEF Promote, Version
    <2> QED BY <1>3, <2>4, <2>5, <2>6 DEF Types, TypeOK, Counted, Promote
  <1>4. CASE Reload(t)
    <2>1. /\ [task[t] EXCEPT !.pc = "settle", !.healthy = TRUE, !.backup = NoFiles]
                \in TaskRecord
          /\ [task[t] EXCEPT !.pc = "remove", !.restart = TRUE] \in TaskRecord
      BY <1>0, FieldTypes, FilesType DEF Label
    <2>2. \/ task' = [task EXCEPT ![t] = [task[t] EXCEPT !.pc = "settle", !.healthy = TRUE,
                                                         !.backup = NoFiles]]
          \/ task' = [task EXCEPT ![t] = [task[t] EXCEPT !.pc = "remove", !.restart = TRUE]]
      BY <1>0, <1>4 DEF Reload, TypeOK
    <2>3. task' \in [Task -> TaskRecord] BY <1>0, <2>1, <2>2, UpdateType
    <2> QED BY <1>4, <2>3 DEF Types, TypeOK, Counted, Reload
  <1>5. CASE Restore(t)
    <2>1. task' \in [Task -> TaskRecord] BY <1>0, <1>5, GotoType DEF Restore, Label
    <2>2. owed' \in Version /\ owed' <= wanted' BY <1>0, <1>5 DEF Restore, Version
    <2> QED BY <1>5, <2>1, <2>2, FilesType DEF Types, TypeOK, Counted, Restore
  <1>6. CASE Copy(t)
    <2>1. live' \in Artifacts BY <1>0, <1>6 DEF Copy, Artifacts
    <2> QED BY <1>6, <2>1 DEF Types, TypeOK, Counted, Copy
  <1>7. CASE Restored(t)
    <2>1. [task[t] EXCEPT !.pc = "settle", !.backup = NoFiles] \in TaskRecord
      BY <1>0, FieldTypes, FilesType DEF Label
    <2>2. task' = [task EXCEPT ![t] = [task[t] EXCEPT !.pc = "settle", !.backup = NoFiles]]
      BY <1>0, <1>7 DEF Restored, TypeOK
    <2>3. task' \in [Task -> TaskRecord] BY <1>0, <2>1, <2>2, UpdateType
    <2> QED BY <1>7, <2>3 DEF Types, TypeOK, Counted, Restored
  <1>8. CASE CopyFails(t)
    <2>1. task' \in [Task -> TaskRecord] BY <1>0, <1>8, ResumeType DEF CopyFails
    <2> QED BY <1>8, <2>1 DEF Types, TypeOK, Counted, CopyFails
  <1>9. CASE Settle(t)
    <2>1. task' \in [Task -> TaskRecord] BY <1>0, <1>9, ResumeType DEF Settle
    <2> QED BY <1>9, <2>1 DEF Types, TypeOK, Counted, Settle
  <1>10. CASE Ensure(t)
    <2>1. task' \in [Task -> TaskRecord]
      <3>1. Answer(t, TRUE, FALSE) \/ Goto(t, "start") \/ Goto(t, "look") \/ Goto(t, "remove")
        BY <1>10 DEF Ensure
      <3> QED BY <1>0, <3>1, AnswerType, GotoType DEF Label
    <2>3. upsets' \in 0..MaxUpsets
      <3>1. upsets' = upsets \/ (upsets < MaxUpsets /\ upsets' = upsets + 1)
        BY <1>10, Zenon DEF Ensure
      <3> QED BY <1>0, <3>1 DEF TypeOK
    <2>4. UNCHANGED <<state, live, setup, held, starting>> BY <1>10 DEF Ensure
    <2> QED BY <1>10, <2>1, <2>3, <2>4 DEF Types, TypeOK, Counted, Ensure
  <1>11. CASE StartStopped(t)
    <2>1. task' \in [Task -> TaskRecord]
      <3>1. Answer(t, TRUE, FALSE) \/ Answer(t, FALSE, FALSE) \/ Goto(t, "remove")
        BY <1>11 DEF StartStopped
      <3> QED BY <1>0, <3>1, AnswerType, GotoType DEF Label
    <2>2. container' \in {"absent", "stopped", "running"}
      BY <1>0, <1>11 DEF StartStopped, TypeOK
    <2>3. upsets' \in 0..MaxUpsets
      <3>1. upsets' = upsets \/ (upsets < MaxUpsets /\ upsets' = upsets + 1)
        BY <1>11, Zenon DEF StartStopped
      <3> QED BY <1>0, <3>1 DEF TypeOK
    <2>4. UNCHANGED <<state, live, setup, held, starting>>
      BY <1>11 DEF StartStopped
    <2> QED BY <1>11, <2>1, <2>2, <2>3, <2>4 DEF Types, TypeOK, Counted
  <1>12. CASE Remove(t)
    <2>1. task' \in [Task -> TaskRecord]
      BY <1>0, <1>12, DoneType, GotoType DEF Remove, Label
    <2> QED BY <1>12, <2>1 DEF Types, TypeOK, Counted, Remove
  <1>13. CASE Look(t)
    <2>1. task' \in [Task -> TaskRecord]
      <3>1. Answer(t, FALSE, TRUE) \/ Answer(t, TRUE, FALSE) \/ Goto(t, "run")
        BY <1>13 DEF Look
      <3> QED BY <1>0, <3>1, AnswerType, GotoType DEF Label
    <2>2. container' \in {"absent", "stopped", "running"} BY <1>0, <1>13 DEF Look, TypeOK
    <2> QED BY <1>13, <2>1, <2>2 DEF Types, TypeOK, Counted, Look
  <1>14. CASE Run(t)
    <2>1. task' \in [Task -> TaskRecord]
      <3>1. \E ok \in BOOLEAN : Answer(t, ok, FALSE) BY <1>14 DEF Run
      <3> QED BY <1>0, <3>1, AnswerType
    <2>2. container' \in {"absent", "stopped", "running"} BY <1>0, <1>14 DEF Run, TypeOK
    <2>3. upsets' \in 0..MaxUpsets
      <3>1. upsets' = upsets \/ (upsets < MaxUpsets /\ upsets' = upsets + 1)
        BY <1>14, Zenon DEF Run
      <3> QED BY <1>0, <3>1 DEF TypeOK
    <2>4. UNCHANGED <<state, live, setup, held, starting>> BY <1>14 DEF Run
    <2> QED BY <1>14, <2>1, <2>2, <2>3, <2>4 DEF Types, TypeOK, Counted
  <1>15. CASE Read(t)
    <2>1. [task[t] EXCEPT !.pc = "report", !.seen = setup] \in TaskRecord
      BY <1>0, FieldTypes DEF Label, TypeOK
    <2>2. task' = [task EXCEPT ![t] = [task[t] EXCEPT !.pc = "report", !.seen = setup]]
      BY <1>0, <1>15 DEF Read, TypeOK
    <2>3. task' \in [Task -> TaskRecord] BY <1>0, <2>1, <2>2, UpdateType
    <2> QED BY <1>15, <2>3 DEF Types, TypeOK, Counted, Read
  <1>16. CASE t # Loop /\ SetupReport(t)
    <2>1. task' \in [Task -> TaskRecord] BY <1>0, <1>16, DoneType DEF SetupReport
    <2> QED BY <1>16, <2>1 DEF Types, TypeOK, Counted, SetupReport
  <1>17. CASE t = Loop /\ LoopReport
    <2>1. Idle("loop") \in TaskRecord BY IdleType DEF Kind
    <2>2. [Idle("loop") EXCEPT !.pc = "evaluate"] \in TaskRecord
      BY <2>1, FieldTypes DEF Label
    <2>3. task' \in [Task -> TaskRecord] BY <1>0, <1>17, <2>2, UpdateType DEF LoopReport
    <2> QED BY <1>17, <2>3 DEF Types, TypeOK, Counted, LoopReport
  <1>18. CASE t = Loop /\ Evaluate
    <2>1. task' \in [Task -> TaskRecord] BY <1>0, <1>18, DoneType DEF Evaluate
    <2>2. upsets' \in 0..MaxUpsets BY <1>0, <1>18 DEF Evaluate, TypeOK
    <2>3. UNCHANGED <<wanted, dormant>> \/ Write({dormant}) BY <1>18 DEF Evaluate
    <2>4. wanted' \in Version /\ dormant' \in BOOLEAN /\ owed' = owed /\ owed' <= wanted'
      BY <1>18, <2>3 DEF Evaluate, Write, Types, TypeOK, Counted, Version
    <2> QED BY <1>18, <2>1, <2>2, <2>4 DEF Types, TypeOK, Counted, Evaluate
  <1>19. CASE GiveUp(t)
    <2>1. task' \in [Task -> TaskRecord] BY <1>0, <1>19, ResumeType DEF GiveUp
    <2>2. owed' \in Version /\ owed' <= wanted' BY <1>19 DEF GiveUp, Types, TypeOK, Version
    <2> QED BY <1>19, <2>1, <2>2 DEF Types, TypeOK, Counted, GiveUp
  <1>20. CASE Awaken(t)
    <2>1. task' \in [Task -> TaskRecord] BY <1>0, <1>20, GotoType DEF Awaken, Label
    <2> QED BY <1>20, <2>1 DEF Types, TypeOK, Counted, Awaken
  <1>21. CASE Wake(t)
    <2>1. task' \in [Task -> TaskRecord] BY <1>0, <1>21, GotoType DEF Wake, Label
    <2>2. wanted' \in Version /\ dormant' \in BOOLEAN /\ owed' <= wanted'
      BY <1>21 DEF Wake, Write, Types, TypeOK, Counted, Version
    <2> QED BY <1>21, <2>1, <2>2 DEF Types, TypeOK, Counted, Wake
  <1>22. CASE Provisioned(t)
    <2>1. task' \in [Task -> TaskRecord] BY <1>0, <1>22, DoneType DEF Provisioned
    <2>2. wanted' \in Version /\ dormant' \in BOOLEAN /\ owed' <= wanted'
      BY <1>22 DEF Provisioned, Write, Types, TypeOK, Counted, Version
    <2> QED BY <1>22, <2>1, <2>2 DEF Types, TypeOK, Counted, Provisioned
  <1> QED BY <1>1, <1>2, <1>3, <1>4, <1>5, <1>6, <1>7, <1>8, <1>9, <1>10, <1>11, <1>12,
             <1>13, <1>14, <1>15, <1>16, <1>17, <1>18, <1>19, <1>20, <1>21, <1>22
         DEF Proceed

\* Every step keeps the types.
LEMMA TypesNext == Types /\ [Next]_vars => Types'
  <1> SUFFICES ASSUME Types, [Next]_vars PROVE Types' OBVIOUS
  <1> USE Bounds DEF Upset
  <1>0. TypeOK BY DEF Types
  <1>1. ASSUME NEW t \in Request, Change(t) PROVE Types'
    <2>1. task' \in [Task -> TaskRecord] BY <1>0, <1>1, BeginType DEF Change, Task, Kind
    <2>2. /\ wanted' \in Version /\ owed' \in Version /\ dormant' \in BOOLEAN
          /\ owed' <= wanted'
      BY <1>0, <1>1 DEF Change, Write, TypeOK, Version
    <2> QED BY <1>1, <2>1, <2>2 DEF Types, TypeOK, Counted, Change
  <1>2. ASSUME NEW t \in Request, NEW k \in Kind, Ask(t, k) PROVE Types'
    <2>1. task' \in [Task -> TaskRecord] BY <1>0, <1>2, BeginType DEF Ask, Task
    <2>2. upsets' \in 0..MaxUpsets BY <1>0, <1>2 DEF Ask, TypeOK
    <2>3. owed' \in Version /\ owed' <= wanted'
      BY <1>2 DEF Ask, Types, TypeOK, Counted, Version
    <2> QED BY <1>2, <2>1, <2>2, <2>3 DEF Types, TypeOK, Counted, Ask
  <1>3. ASSUME NEW t \in Request, Startup(t) PROVE Types'
    <2>1. task' \in [Task -> TaskRecord] BY <1>0, <1>3, BeginType DEF Startup, Task, Kind
    <2>2. owed' \in Version /\ owed' <= wanted' BY <1>0, <1>3 DEF Startup, TypeOK, Version
    <2> QED BY <1>3, <2>1, <2>2 DEF Types, TypeOK, Counted, Startup
  <1>4. CASE LoopBegin
    <2>1. task' \in [Task -> TaskRecord] BY <1>0, <1>4, BeginType DEF LoopBegin, Task, Kind
    <2> QED BY <1>4, <2>1 DEF Types, TypeOK, Counted, LoopBegin
  <1>5. CASE ContainerDies
    <2>1. upsets' \in 0..MaxUpsets BY <1>0, <1>5 DEF ContainerDies, TypeOK
    <2> QED BY <1>5, <2>1 DEF Types, TypeOK, Counted, ContainerDies
  <1>6. CASE Crash
    <2>1. task' \in [Task -> TaskRecord] BY <1>6, IdleType, FirstKindType DEF Crash
    <2>2. upsets' \in 0..MaxUpsets BY <1>0, <1>6 DEF Crash, TypeOK
    <2>3. starting' \in BOOLEAN /\ held' \in Task \cup {None} BY <1>6 DEF Crash
    <2> QED BY <1>6, <2>1, <2>2, <2>3 DEF Types, TypeOK, Counted, Crash
  <1>7. CASE UNCHANGED vars BY <1>7 DEF Types, TypeOK, Counted, vars
  <1>8. {"sync", "start", "stop", "init", "setup"} \subseteq Kind BY DEF Kind
  <1>9. ASSUME NEW t \in Request, ChangeFails(t) PROVE Types'
    <2>1. upsets' \in 0..MaxUpsets BY <1>0, <1>9 DEF ChangeFails, TypeOK
    <2>2. wanted' \in Version /\ dormant' \in BOOLEAN /\ owed' <= wanted'
      BY <1>9 DEF ChangeFails, Write, Types, TypeOK, Counted, Version
    <2> QED BY <1>9, <2>1, <2>2 DEF Types, TypeOK, Counted, ChangeFails
  <1>10. ASSUME NEW t \in Request, Provision(t) PROVE Types'
    <2>1. task' \in [Task -> TaskRecord]
      BY <1>0, <1>10, GotoType DEF Provision, Label, Task
    <2>2. upsets' \in 0..MaxUpsets BY <1>0, <1>10 DEF Provision, TypeOK
    <2> QED BY <1>10, <2>1, <2>2 DEF Types, TypeOK, Counted, Provision
  <1> QED BY <1>1, <1>2, <1>3, <1>4, <1>5, <1>6, <1>7, <1>8, <1>9, <1>10, TypesProceed
         DEF Next, MqttReload, RuntimeStart, RuntimeStop, RuntimeInit, RuntimeRebuild,
             SetupApply

-----------------------------------------------------------------------------
(* One version *)

\* A step that leaves the live directory and the event loop alone, and a coroutine out
\* of the middle of file work, with a backup of one version.
LEMMA OffDisk ==
  ASSUME Types, Whole, NEW t \in Task, NEW r, r.pc \notin {"promote", "copy"},
         Uniform(r.backup), task' = [task EXCEPT ![t] = r], UNCHANGED <<live, held>>
  PROVE  Whole'
  <1>1. \A u \in Task : u # t => task'[u] = task[u] BY DEF Types, TypeOK
  <1>2. task'[t] = r BY DEF Types, TypeOK
  <1>3. OneVersion' BY DEF Whole, OneVersion
  <1>4. Exclusive' BY <1>1, <1>2 DEF Whole, Exclusive
  <1>5. Backups' BY <1>1, <1>2 DEF Whole, Backups, Uniform
  <1>6. Copying' BY <1>1, <1>2 DEF Whole, Copying
  <1> QED BY <1>3, <1>4, <1>5, <1>6 DEF Whole

\* No files, and files compiled together, are of one version.
LEMMA UniformFiles == Uniform(NoFiles) /\ \A v : Uniform(Compiled(v))
  BY DEF Uniform, NoFiles, Compiled

\* A coroutine that waits for work has no backup.
LEMMA IdleFacts == \A k : Idle(k).pc = "idle" /\ Idle(k).backup = NoFiles
  BY DEF Idle

\* A coroutine that goes on without file work keeps the files whole,
LEMMA GotoWhole ==
  ASSUME Types, Whole, NEW t \in Task, NEW l, l \notin {"promote", "copy"}, Goto(t, l),
         UNCHANGED <<live, held>>
  PROVE  Whole'
  <1>1. task[t] \in TaskRecord /\ Uniform(task[t].backup)
    BY DEF Types, TypeOK, Whole, Backups
  <1> DEFINE r == [task[t] EXCEPT !.pc = l]
  <1>2. r.pc = l /\ r.backup = task[t].backup BY <1>1 DEF TaskRecord
  <1>3. task' = [task EXCEPT ![t] = r] BY DEF Goto, Types, TypeOK
  <1> HIDE DEF r
  <1> QED BY <1>1, <1>2, <1>3, OffDisk

\* one that ends,
LEMMA DoneWhole ==
  ASSUME Types, Whole, NEW t \in Task, Done(t), UNCHANGED <<live, held>>
  PROVE  Whole'
  BY OffDisk, IdleFacts, UniformFiles DEF Done

\* one that begins,
LEMMA BeginWhole ==
  ASSUME Types, Whole, NEW t \in Task, NEW k \in Kind, Begin(t, k), UNCHANGED <<live, held>>
  PROVE  Whole'
  <1> DEFINE l == CASE k = "stop" -> "remove"
                    [] k \in {"start", "loop"} -> "ensure"
                    [] OTHER -> "reconcile"
           r == [Idle(k) EXCEPT !.pc = l]
  <1>1. l \notin {"promote", "copy"} OBVIOUS
  <1>2. task' = [task EXCEPT ![t] = r] BY DEF Begin
  <1> HIDE DEF l
  <1>3. r.pc = l /\ r.backup = NoFiles BY DEF Idle
  <1> HIDE DEF r
  <1> QED BY <1>1, <1>2, <1>3, OffDisk, UniformFiles

\* one that goes on after the runtime was ensured,
LEMMA ResumeWhole ==
  ASSUME Types, Whole, NEW t \in Task, Resume(t), UNCHANGED <<live, held>>
  PROVE  Whole'
  <1>1. CASE task[t].kind = "sync" BY <1>1, DoneWhole DEF Resume
  <1>2. CASE task[t].kind # "sync"
    <2> DEFINE r == [Idle(task[t].kind) EXCEPT !.pc = "ensure", !.retried = task[t].retried]
    <2>1. task' = [task EXCEPT ![t] = r] BY <1>2 DEF Resume, Types, TypeOK
    <2>2. r.pc = "ensure" /\ r.backup = NoFiles BY DEF Idle
    <2> HIDE DEF r
    <2> QED BY <2>1, <2>2, OffDisk, UniformFiles
  <1> QED BY <1>1, <1>2

\* and one that a docker call answers.
LEMMA AnswerWhole ==
  ASSUME Types, Whole, NEW t \in Task, NEW ok, NEW missing, Answer(t, ok, missing),
         UNCHANGED <<live, held>>
  PROVE  Whole'
  <1> DEFINE r == task[t]
             settled == [Idle(r.kind) EXCEPT !.pc = "settle", !.healthy = TRUE,
                                             !.retried = r.retried]
             rolledBack == [r EXCEPT !.pc = "restore"]
             again == [Idle(r.kind) EXCEPT !.pc = "reconcile", !.retried = TRUE]
             loop == [Idle("loop") EXCEPT !.pc = "read", !.healthy = ok]
             applied == [Idle("setup") EXCEPT !.pc = "report", !.healthy = ok]
  <1>0. r \in TaskRecord /\ Uniform(r.backup) BY DEF Types, TypeOK, Whole, Backups
  <1>1. \E q \in {settled, rolledBack, again, loop, applied, Idle(FirstKind(t))} :
           task' = [task EXCEPT ![t] = q]
    BY DEF Answer
  <1>2. settled.pc = "settle" /\ settled.backup = NoFiles BY DEF Idle
  <1>3. rolledBack.pc = "restore" /\ rolledBack.backup = r.backup BY <1>0 DEF TaskRecord
  <1>4. again.pc = "reconcile" /\ again.backup = NoFiles BY DEF Idle
  <1>5. loop.pc = "read" /\ loop.backup = NoFiles BY DEF Idle
  <1>6. applied.pc = "report" /\ applied.backup = NoFiles BY DEF Idle
  <1> HIDE DEF r, settled, rolledBack, again, loop, applied
  <1>7. PICK q \in {settled, rolledBack, again, loop, applied, Idle(FirstKind(t))} :
           task' = [task EXCEPT ![t] = q]
    BY <1>1
  <1>8. q.pc \notin {"promote", "copy"}
    BY <1>2, <1>3, <1>4, <1>5, <1>6, <1>7, IdleFacts
  <1>9. q.backup = NoFiles \/ q.backup = r.backup
    BY <1>2, <1>3, <1>4, <1>5, <1>6, <1>7, IdleFacts
  <1>10. Uniform(q.backup) BY <1>0, <1>9, UniformFiles
  <1> QED BY <1>7, <1>8, <1>10, OffDisk

\* While one coroutine is in the middle of file work no other is scheduled.
LEMMA NobodyElse ==
  ASSUME Types, Whole, NEW t \in Task, NEW u \in Task, u # t, Scheduled(t)
  PROVE  task[u].pc \notin {"promote", "copy"}
  BY BrokerAssumption DEF Whole, Exclusive, Scheduled, Task

\* The steps of a coroutine keep the live files of one version.
LEMMA WholeProceed ==
  ASSUME Types, Whole, NEW t \in Task, Proceed(t)
  PROVE  Whole'
  <1>0. /\ task \in [Task -> TaskRecord] /\ task[t] \in TaskRecord
        /\ live \in Artifacts /\ Uniform(live) /\ Uniform(task[t].backup)
        /\ \A u \in Task : Uniform(task[u].backup)
    BY DEF Types, TypeOK, Whole, Backups, OneVersion, Uniform
  <1>1. CASE Stage(t)
    <2>1. /\ task'[t].pc = "promote" /\ task'[t].backup = live
          /\ \A u \in Task : u # t => task'[u] = task[u]
          /\ live' = NoFiles /\ held' = t
      BY <1>0, <1>1 DEF Stage, TaskRecord
    <2>2. \A u \in Task : u # t => task[u].pc \notin {"promote", "copy"}
      BY <1>1, NobodyElse DEF Stage
    <2>3. OneVersion' BY <2>1, UniformFiles DEF OneVersion, Uniform
    <2>4. Exclusive' BY <2>1, <2>2 DEF Exclusive
    <2>5. Backups'
      <3>1. \A u \in Task : Uniform(task'[u].backup) BY <1>0, <2>1
      <3> QED BY <3>1 DEF Backups, Uniform
    <2>6. Copying' BY <2>1, <2>2 DEF Copying
    <2> QED BY <2>3, <2>4, <2>5, <2>6 DEF Whole
  <1>2. CASE StageFails(t)
    <2>1. PICK copied \in SUBSET File :
            task' = [task EXCEPT ![t].pc = "restore", ![t].healthy = FALSE,
                       ![t].backup = [f \in File |-> IF f \in copied THEN live[f] ELSE 0]]
      BY <1>2 DEF StageFails
    <2> DEFINE b == [f \in File |-> IF f \in copied THEN live[f] ELSE 0]
    <2>2. Uniform(b) BY <1>0 DEF Uniform
    <2> HIDE DEF b
    <2>3. /\ task'[t].pc = "restore" /\ task'[t].backup = b
          /\ \A u \in Task : u # t => task'[u] = task[u]
          /\ live' = live /\ held' = t
      BY <1>0, <1>2, <2>1 DEF StageFails, TaskRecord, b
    <2>4. \A u \in Task : u # t => task[u].pc \notin {"promote", "copy"}
      BY <1>2, NobodyElse DEF StageFails
    <2>5. OneVersion' BY <2>3 DEF Whole, OneVersion
    <2>6. Exclusive' BY <2>3, <2>4 DEF Exclusive
    <2>7. Backups'
      <3>1. \A u \in Task : Uniform(task'[u].backup) BY <1>0, <2>2, <2>3
      <3> QED BY <3>1 DEF Backups, Uniform
    <2>8. Copying' BY <2>3, <2>4 DEF Copying
    <2> QED BY <2>5, <2>6, <2>7, <2>8 DEF Whole
  <1>3. CASE Promote(t)
    <2>1. /\ task'[t].pc = "reload" /\ task'[t].backup = task[t].backup
          /\ \A u \in Task : u # t => task'[u] = task[u]
          /\ live' = Compiled(task[t].version)
      BY <1>0, <1>3 DEF Promote, TaskRecord
    <2>2. \A u \in Task : u # t => task[u].pc \notin {"promote", "copy"}
      BY <1>3, NobodyElse DEF Promote
    <2>3. OneVersion' BY <2>1, UniformFiles DEF OneVersion, Uniform
    <2>4. Exclusive' BY <2>1, <2>2 DEF Exclusive
    <2>5. Backups'
      <3>1. \A u \in Task : Uniform(task'[u].backup) BY <1>0, <2>1
      <3> QED BY <3>1 DEF Backups, Uniform
    <2>6. Copying' BY <2>1, <2>2 DEF Copying
    <2> QED BY <2>3, <2>4, <2>5, <2>6 DEF Whole
  <1>4. CASE Reload(t)
    <2> DEFINE ok == [task[t] EXCEPT !.pc = "settle", !.healthy = TRUE, !.backup = NoFiles]
               bad == [task[t] EXCEPT !.pc = "remove", !.restart = TRUE]
    <2>1. task' = [task EXCEPT ![t] = ok] \/ task' = [task EXCEPT ![t] = bad]
      BY <1>0, <1>4 DEF Reload
    <2>2. ok.pc = "settle" /\ ok.backup = NoFiles BY <1>0 DEF TaskRecord
    <2>3. bad.pc = "remove" /\ bad.backup = task[t].backup BY <1>0 DEF TaskRecord
    <2>4. UNCHANGED <<live, held>> BY <1>4 DEF Reload
    <2> HIDE DEF ok, bad
    <2>5. CASE task' = [task EXCEPT ![t] = ok] BY <2>2, <2>4, <2>5, UniformFiles, OffDisk
    <2>6. CASE task' = [task EXCEPT ![t] = bad] BY <1>0, <2>3, <2>4, <2>6, OffDisk
    <2> QED BY <2>1, <2>5, <2>6
  <1>5. CASE Restore(t)
    <2>1. /\ task'[t].pc = "copy" /\ task'[t].backup = task[t].backup
          /\ \A u \in Task : u # t => task'[u] = task[u]
          /\ live' = NoFiles /\ held' = t
      BY <1>0, <1>5 DEF Restore, Goto, TaskRecord
    <2>2. \A u \in Task : u # t => task[u].pc \notin {"promote", "copy"}
      BY <1>5, NobodyElse DEF Restore
    <2>3. OneVersion' BY <2>1, UniformFiles DEF OneVersion, Uniform
    <2>4. Exclusive' BY <2>1, <2>2 DEF Exclusive
    <2>5. Backups'
      <3>1. \A u \in Task : Uniform(task'[u].backup) BY <1>0, <2>1
      <3> QED BY <3>1 DEF Backups, Uniform
    <2>6. Copying' BY <2>1, <2>2 DEF Copying, NoFiles
    <2> QED BY <2>3, <2>4, <2>5, <2>6 DEF Whole
  <1>6. CASE Copy(t)
    <2>1. PICK f \in File : live' = [live EXCEPT ![f] = task[t].backup[f]] BY <1>6 DEF Copy
    <2>2. task' = task /\ held' = held /\ task[t].pc = "copy" BY <1>6 DEF Copy
    <2>3. \A g \in File : live'[g] # 0 => live'[g] = task[t].backup[g]
      BY <1>0, <2>1, <2>2 DEF Whole, Copying, Artifacts
    <2>4. OneVersion' BY <1>0, <2>3 DEF OneVersion, Uniform
    <2>5. Exclusive' BY <2>2 DEF Whole, Exclusive
    <2>6. Backups' BY <2>2 DEF Whole, Backups, Uniform
    <2>7. \A u \in Task : u # t => task[u].pc # "copy"
      BY <2>2 DEF Whole, Exclusive
    <2>8. Copying' BY <2>2, <2>3, <2>7 DEF Copying
    <2> QED BY <2>4, <2>5, <2>6, <2>8 DEF Whole
  <1>7. CASE Restored(t)
    <2>1. /\ task'[t].pc = "settle" /\ task'[t].backup = NoFiles
          /\ \A u \in Task : u # t => task'[u] = task[u]
          /\ live' = live
      BY <1>0, <1>7 DEF Restored, TaskRecord
    <2>2. \A u \in Task : u # t => task[u].pc \notin {"promote", "copy"}
      BY <1>7 DEF Restored, Whole, Exclusive
    <2>3. OneVersion' BY <2>1 DEF Whole, OneVersion
    <2>4. Exclusive' BY <2>1, <2>2 DEF Exclusive
    <2>5. Backups'
      <3>1. \A u \in Task : Uniform(task'[u].backup) BY <1>0, <2>1, UniformFiles
      <3> QED BY <3>1 DEF Backups, Uniform
    <2>6. Copying' BY <2>1, <2>2 DEF Copying
    <2> QED BY <2>3, <2>4, <2>5, <2>6 DEF Whole
  <1>8. CASE CopyFails(t)
    <2>1. PICK r : /\ task' = [task EXCEPT ![t] = r]
                   /\ r.pc \in {"idle", "ensure"} /\ r.backup = NoFiles
      <3> DEFINE q == [Idle(task[t].kind) EXCEPT !.pc = "ensure", !.retried = task[t].retried]
      <3>1. q.pc = "ensure" /\ q.backup = NoFiles BY DEF Idle
      <3>2. task' = [task EXCEPT ![t] = Idle(FirstKind(t))] \/ task' = [task EXCEPT ![t] = q]
        BY <1>0, <1>8 DEF CopyFails, Resume, Done
      <3> HIDE DEF q
      <3> QED BY <3>1, <3>2, IdleFacts
    <2>2. /\ task'[t] = r /\ \A u \in Task : u # t => task'[u] = task[u]
          /\ live' = live
      BY <1>0, <1>8, <2>1 DEF CopyFails
    <2>3. \A u \in Task : u # t => task[u].pc \notin {"promote", "copy"}
      BY <1>8 DEF CopyFails, Whole, Exclusive
    <2>4. OneVersion' BY <2>2 DEF Whole, OneVersion
    <2>5. Exclusive' BY <2>1, <2>2, <2>3 DEF Exclusive
    <2>6. Backups'
      <3>1. \A u \in Task : Uniform(task'[u].backup) BY <1>0, <2>1, <2>2, UniformFiles
      <3> QED BY <3>1 DEF Backups, Uniform
    <2>7. Copying' BY <2>1, <2>2, <2>3 DEF Copying
    <2> QED BY <2>4, <2>5, <2>6, <2>7 DEF Whole
  <1>9. CASE Settle(t) BY <1>9, ResumeWhole DEF Settle
  <1>10. CASE Ensure(t)
    <2>1. UNCHANGED <<live, held>> BY <1>10 DEF Ensure
    <2>2. Answer(t, TRUE, FALSE) \/ Goto(t, "start") \/ Goto(t, "look") \/ Goto(t, "remove")
      BY <1>10 DEF Ensure
    <2> QED BY <2>1, <2>2, AnswerWhole, GotoWhole
  <1>11. CASE StartStopped(t)
    <2>1. UNCHANGED <<live, held>> BY <1>11 DEF StartStopped
    <2>2. Answer(t, TRUE, FALSE) \/ Answer(t, FALSE, FALSE) \/ Goto(t, "remove")
      BY <1>11 DEF StartStopped
    <2> QED BY <2>1, <2>2, AnswerWhole, GotoWhole
  <1>12. CASE Remove(t)
    <2>1. UNCHANGED <<live, held>> BY <1>12 DEF Remove
    <2>2. Done(t) \/ Goto(t, "look") BY <1>12 DEF Remove
    <2> QED BY <2>1, <2>2, DoneWhole, GotoWhole
  <1>13. CASE Look(t)
    <2>1. UNCHANGED <<live, held>> BY <1>13 DEF Look
    <2>2. Answer(t, FALSE, TRUE) \/ Answer(t, TRUE, FALSE) \/ Goto(t, "run")
      BY <1>13 DEF Look
    <2> QED BY <2>1, <2>2, AnswerWhole, GotoWhole
  <1>14. CASE Run(t)
    <2>1. UNCHANGED <<live, held>> BY <1>14 DEF Run
    <2>2. \E ok \in BOOLEAN : Answer(t, ok, FALSE) BY <1>14 DEF Run
    <2> QED BY <2>1, <2>2, AnswerWhole
  <1>15. CASE Read(t)
    <2> DEFINE r == [task[t] EXCEPT !.pc = "report", !.seen = setup]
    <2>1. task' = [task EXCEPT ![t] = r] BY <1>0, <1>15 DEF Read
    <2>2. r.pc = "report" /\ r.backup = task[t].backup BY <1>0 DEF TaskRecord
    <2>3. UNCHANGED <<live, held>> BY <1>15 DEF Read
    <2> HIDE DEF r
    <2> QED BY <1>0, <2>1, <2>2, <2>3, OffDisk
  <1>16. CASE t # Loop /\ SetupReport(t) BY <1>16, DoneWhole DEF SetupReport
  <1>17. CASE t = Loop /\ LoopReport
    <2> DEFINE r == [Idle("loop") EXCEPT !.pc = "evaluate"]
    <2>1. task' = [task EXCEPT ![t] = r] /\ UNCHANGED <<live, held>> BY <1>17 DEF LoopReport
    <2>2. r.pc = "evaluate" /\ r.backup = NoFiles BY DEF Idle
    <2> HIDE DEF r
    <2> QED BY <2>1, <2>2, OffDisk, UniformFiles
  <1>18. CASE t = Loop /\ Evaluate BY <1>18, DoneWhole DEF Evaluate
  <1>19. CASE GiveUp(t) BY <1>19, ResumeWhole DEF GiveUp
  <1>20. CASE Awaken(t) BY <1>20, GotoWhole DEF Awaken
  <1>21. CASE Wake(t) BY <1>21, GotoWhole DEF Wake
  <1>22. CASE Provisioned(t) BY <1>22, DoneWhole DEF Provisioned
  <1> QED BY <1>1, <1>2, <1>3, <1>4, <1>5, <1>6, <1>7, <1>8, <1>9, <1>10, <1>11, <1>12,
             <1>13, <1>14, <1>15, <1>16, <1>17, <1>18, <1>19, <1>20, <1>21, <1>22
         DEF Proceed

\* Every step keeps the live files of one version.
LEMMA WholeNext == Types /\ Whole /\ [Next]_vars => Whole'
  <1> SUFFICES ASSUME Types, Whole, [Next]_vars PROVE Whole' OBVIOUS
  <1>1. ASSUME NEW t \in Request, NEW k \in Kind, Begin(t, k), UNCHANGED <<live, held>>
        PROVE  Whole'
    BY <1>1, BeginWhole DEF Task
  <1>2. {"sync", "start", "stop", "init", "setup", "loop"} \subseteq Kind BY DEF Kind
  <1>3. ASSUME NEW t \in Request, Change(t) \/ Startup(t) PROVE Whole'
    BY <1>1, <1>2, <1>3 DEF Change, Startup
  <1>4. ASSUME NEW t \in Request, NEW k \in Kind, Ask(t, k) PROVE Whole'
    BY <1>1, <1>4 DEF Ask
  <1>5. CASE LoopBegin BY <1>2, <1>5, BeginWhole DEF LoopBegin, Task
  <1>6. CASE ContainerDies
    BY <1>6 DEF ContainerDies, Whole, OneVersion, Exclusive, Backups, Copying, Uniform
  <1>7. CASE Crash
    <2>1. \A t \in Task : task'[t].pc = "idle" /\ task'[t].backup = NoFiles
      BY <1>7, IdleFacts DEF Crash
    <2>2. live' = live BY <1>7 DEF Crash
    <2>3. OneVersion' BY <2>2 DEF Whole, OneVersion
    <2>4. Backups'
      <3>1. \A u \in Task : Uniform(task'[u].backup) BY <2>1, UniformFiles
      <3> QED BY <3>1 DEF Backups, Uniform
    <2> QED BY <2>1, <2>3, <2>4 DEF Whole, Exclusive, Copying
  <1>8. CASE UNCHANGED vars
    BY <1>8 DEF vars, Whole, OneVersion, Exclusive, Backups, Copying, Uniform
  <1>9. ASSUME NEW t \in Request, ChangeFails(t) PROVE Whole'
    BY <1>9 DEF ChangeFails, Whole, OneVersion, Exclusive, Backups, Copying, Uniform
  <1>10. ASSUME NEW t \in Request, Provision(t) PROVE Whole'
    BY <1>10, GotoWhole DEF Provision, Task
  <1> QED BY <1>2, <1>3, <1>4, <1>5, <1>6, <1>7, <1>8, <1>9, <1>10, WholeProceed
         DEF Next, MqttReload, RuntimeStart, RuntimeStop, RuntimeInit, RuntimeRebuild,
             SetupApply

\* There are no files at the start.
LEMMA WholeInit == Init => Whole
  <1> SUFFICES ASSUME Init PROVE Whole OBVIOUS
  <1>1. \A t \in Task : task[t].pc = "idle" /\ task[t].backup = NoFiles
    BY IdleFacts DEF Init
  <1>2. OneVersion BY UniformFiles DEF Init, OneVersion, Uniform
  <1> QED BY <1>1, <1>2, UniformFiles DEF Whole, Exclusive, Backups, Copying

-----------------------------------------------------------------------------
(* A change that asks for a reconcile is lost only by a failure *)

\* Somebody is still to write the live directory.
Pending == \E t \in Task : task[t].pc \in {"reconcile", "promote", "restore"}

Fresh == \E v \in owed..wanted : live = Compiled(v)

\* The files are of a state at least as new as when a reconcile was last asked for, or
\* somebody is still to write them, or a reconcile has failed since.  What is promoted
\* was compiled from the state as it is, since no change can come between: the
\* coroutine owns the event loop.
Current ==
    /\ starting \/ owed = 0 \/ Fresh \/ Pending
    /\ \A t \in Task : task[t].pc = "promote" => task[t].version = wanted
    /\ \A t \in Task : task[t].pc = "copy" => owed = 0

\* The step replaces one coroutine's record, by one that is not in the middle of file work.
Leaves(t) == \E r : r.pc \notin {"promote", "copy"} /\ task' = [task EXCEPT ![t] = r]

\* A coroutine that goes on elsewhere is not in the middle of file work,
LEMMA GotoLeaves ==
  ASSUME Types, NEW t \in Task, NEW l, l \notin {"promote", "copy"}, Goto(t, l)
  PROVE  Leaves(t)
  <1> DEFINE r == [task[t] EXCEPT !.pc = l]
  <1>1. task[t] \in TaskRecord BY DEF Types, TypeOK
  <1>2. r.pc = l BY <1>1 DEF TaskRecord
  <1>3. task' = [task EXCEPT ![t] = r] BY DEF Goto, Types, TypeOK
  <1> HIDE DEF r
  <1> QED BY <1>2, <1>3 DEF Leaves

\* nor is one that ends,
LEMMA DoneLeaves == ASSUME NEW t \in Task, Done(t) PROVE Leaves(t)
  BY IdleFacts DEF Done, Leaves

\* nor one that goes on after the runtime was ensured,
LEMMA ResumeLeaves ==
  ASSUME Types, NEW t \in Task, Resume(t)
  PROVE  Leaves(t)
  <1>1. CASE task[t].kind = "sync" BY <1>1, DoneLeaves DEF Resume
  <1>2. CASE task[t].kind # "sync"
    <2> DEFINE r == [Idle(task[t].kind) EXCEPT !.pc = "ensure", !.retried = task[t].retried]
    <2>1. task' = [task EXCEPT ![t] = r] BY <1>2 DEF Resume, Types, TypeOK
    <2>2. r.pc = "ensure" BY DEF Idle
    <2> HIDE DEF r
    <2> QED BY <2>1, <2>2 DEF Leaves
  <1> QED BY <1>1, <1>2

\* nor one that a docker call answers.
LEMMA AnswerLeaves ==
  ASSUME Types, NEW t \in Task, NEW ok, NEW missing, Answer(t, ok, missing)
  PROVE  Leaves(t)
  <1> DEFINE r == task[t]
             settled == [Idle(r.kind) EXCEPT !.pc = "settle", !.healthy = TRUE,
                                             !.retried = r.retried]
             rolledBack == [r EXCEPT !.pc = "restore"]
             again == [Idle(r.kind) EXCEPT !.pc = "reconcile", !.retried = TRUE]
             loop == [Idle("loop") EXCEPT !.pc = "read", !.healthy = ok]
             applied == [Idle("setup") EXCEPT !.pc = "report", !.healthy = ok]
  <1>0. r \in TaskRecord BY DEF Types, TypeOK
  <1>1. \E q \in {settled, rolledBack, again, loop, applied, Idle(FirstKind(t))} :
           task' = [task EXCEPT ![t] = q]
    BY DEF Answer
  <1>2. settled.pc = "settle" /\ again.pc = "reconcile" /\ loop.pc = "read" /\ applied.pc = "report"
    BY DEF Idle
  <1>3. rolledBack.pc = "restore" BY <1>0 DEF TaskRecord
  <1> HIDE DEF r, settled, rolledBack, again, loop, applied
  <1> QED BY <1>1, <1>2, <1>3, IdleFacts DEF Leaves

\* A coroutine that is not to write the live directory moves on.
LEMMA Aside ==
  ASSUME Types, Current, NEW t \in Task, Leaves(t), UNCHANGED <<wanted, owed, live, starting>>,
         task[t].pc \notin {"reconcile", "promote", "restore"} \/ owed = 0
  PROVE  Current'
  <1>1. PICK r : r.pc \notin {"promote", "copy"} /\ task' = [task EXCEPT ![t] = r] BY DEF Leaves
  <1>2. task'[t] = r /\ \A u \in Task : u # t => task'[u] = task[u] BY <1>1 DEF Types, TypeOK
  <1>3. Pending => Pending' \/ owed = 0 BY <1>2 DEF Pending
  <1>4. \A u \in Task : task'[u].pc \in {"promote", "copy"} => task'[u] = task[u] BY <1>1, <1>2
  <1>5. \A u \in Task : task'[u].pc = "promote" => task'[u].version = wanted
    BY <1>4 DEF Current
  <1>6. \A u \in Task : task'[u].pc = "copy" => owed = 0 BY <1>4 DEF Current
  <1>7. Fresh => Fresh' BY DEF Fresh, Compiled
  <1> QED BY <1>3, <1>5, <1>6, <1>7 DEF Current

\* A coroutine that owns the event loop writes the state, and asks for no reconcile.
LEMMA Silent ==
  ASSUME Types, Whole, Current, NEW t \in Task, Leaves(t) \/ task' = task, Scheduled(t),
         wanted' = wanted + 1, UNCHANGED <<owed, live, starting>>,
         task[t].pc \notin {"reconcile", "promote", "restore", "copy"}
  PROVE  Current'
  <1>1. \A u \in Task : u # t => task'[u] = task[u] BY DEF Leaves, Types, TypeOK
  <1>2. task'[t].pc \notin {"promote", "copy"} BY DEF Leaves, Types, TypeOK
  <1>3. \A u \in Task : u # t => task[u].pc \notin {"promote", "copy"} BY NobodyElse
  <1>4. \A u \in Task : task'[u].pc \notin {"promote", "copy"} BY <1>1, <1>2, <1>3
  <1>5. Pending => Pending' BY <1>1 DEF Pending
  <1>6. Fresh => Fresh' BY DEF Fresh, Compiled, Types, TypeOK, Version
  <1> QED BY <1>4, <1>5, <1>6 DEF Current

\* The steps of a coroutine keep the live files current, or somebody about to write them.
LEMMA CurrentProceed ==
  ASSUME Types, Whole, Current, NEW t \in Task, Proceed(t)
  PROVE  Current'
  <1>0. task \in [Task -> TaskRecord] /\ task[t] \in TaskRecord BY DEF Types, TypeOK
  <1>1. CASE Stage(t)
    <2>1. /\ task'[t].pc = "promote" /\ task'[t].version = wanted
          /\ \A u \in Task : u # t => task'[u] = task[u]
          /\ UNCHANGED <<wanted, owed>>
      BY <1>0, <1>1 DEF Stage, TaskRecord
    <2>2. Pending' BY <2>1 DEF Pending
    <2> QED BY <2>1, <2>2 DEF Current
  <1>2. CASE StageFails(t)
    <2>1. /\ task'[t].pc = "restore"
          /\ \A u \in Task : u # t => task'[u] = task[u]
          /\ UNCHANGED <<wanted, owed>>
      BY <1>0, <1>2 DEF StageFails, TaskRecord
    <2>2. Pending' BY <2>1 DEF Pending
    <2> QED BY <2>1, <2>2 DEF Current
  <1>3. CASE Promote(t)
    <2>1. /\ task'[t].pc = "reload"
          /\ \A u \in Task : u # t => task'[u] = task[u]
          /\ live' = Compiled(wanted) /\ wanted' = wanted /\ owed' = wanted
      BY <1>0, <1>3 DEF Promote, TaskRecord, Current
    <2>2. \A u \in Task : u # t => task[u].pc \notin {"promote", "copy"}
      BY <1>3, NobodyElse DEF Promote
    <2>3. Fresh' BY <2>1 DEF Fresh, Compiled, Types, TypeOK, Version
    <2>4. \A u \in Task : task'[u].pc \notin {"promote", "copy"} BY <2>1, <2>2
    <2> QED BY <2>3, <2>4 DEF Current
  <1>4. CASE Restore(t)
    <2>1. /\ task'[t].pc = "copy" /\ owed' = 0 /\ wanted' = wanted
          /\ \A u \in Task : u # t => task'[u] = task[u]
      BY <1>0, <1>4 DEF Restore, Goto, TaskRecord
    <2> QED BY <2>1 DEF Current
  <1>5. CASE Copy(t)
    <2>1. task' = task /\ UNCHANGED <<wanted, owed>> /\ owed = 0 BY <1>5 DEF Copy, Current
    <2> QED BY <2>1 DEF Current
  <1>6. CASE Restored(t)
    <2> DEFINE r == [task[t] EXCEPT !.pc = "settle", !.backup = NoFiles]
    <2>1. r.pc = "settle" BY <1>0 DEF TaskRecord
    <2>2. task' = [task EXCEPT ![t] = r] BY <1>0, <1>6 DEF Restored
    <2> HIDE DEF r
    <2>3. Leaves(t) BY <2>1, <2>2 DEF Leaves
    <2> QED BY <1>6, <2>3, Aside DEF Restored
  <1>7. CASE CopyFails(t) BY <1>7, ResumeLeaves, Aside DEF CopyFails
  <1>8. CASE Reload(t)
    <2> DEFINE ok == [task[t] EXCEPT !.pc = "settle", !.healthy = TRUE, !.backup = NoFiles]
               bad == [task[t] EXCEPT !.pc = "remove", !.restart = TRUE]
    <2>1. task' = [task EXCEPT ![t] = ok] \/ task' = [task EXCEPT ![t] = bad]
      BY <1>0, <1>8 DEF Reload
    <2>2. ok.pc = "settle" /\ bad.pc = "remove" BY <1>0 DEF TaskRecord
    <2> HIDE DEF ok, bad
    <2>3. Leaves(t) BY <2>1, <2>2 DEF Leaves
    <2> QED BY <1>8, <2>3, Aside DEF Reload
  <1>9. CASE Settle(t) BY <1>9, ResumeLeaves, Aside DEF Settle
  <1>10. CASE Ensure(t)
    <2>1. Leaves(t) BY <1>10, AnswerLeaves, GotoLeaves DEF Ensure
    <2> QED BY <1>10, <2>1, Aside DEF Ensure
  <1>11. CASE StartStopped(t)
    <2>1. Leaves(t) BY <1>11, AnswerLeaves, GotoLeaves DEF StartStopped
    <2> QED BY <1>11, <2>1, Aside DEF StartStopped
  <1>12. CASE Remove(t)
    <2>1. Leaves(t) BY <1>12, DoneLeaves, GotoLeaves DEF Remove
    <2> QED BY <1>12, <2>1, Aside DEF Remove
  <1>13. CASE Look(t)
    <2>1. Leaves(t) BY <1>13, AnswerLeaves, GotoLeaves DEF Look
    <2> QED BY <1>13, <2>1, Aside DEF Look
  <1>14. CASE Run(t)
    <2>1. Leaves(t) BY <1>14, AnswerLeaves DEF Run
    <2> QED BY <1>14, <2>1, Aside DEF Run
  <1>15. CASE Read(t)
    <2> DEFINE r == [task[t] EXCEPT !.pc = "report", !.seen = setup]
    <2>1. r.pc = "report" BY <1>0 DEF TaskRecord
    <2>2. task' = [task EXCEPT ![t] = r] BY <1>0, <1>15 DEF Read
    <2> HIDE DEF r
    <2>3. Leaves(t) BY <2>1, <2>2 DEF Leaves
    <2> QED BY <1>15, <2>3, Aside DEF Read
  <1>16. CASE SetupReport(t) BY <1>16, DoneLeaves, Aside DEF SetupReport
  <1>17. CASE t = Loop /\ LoopReport
    <2> DEFINE r == [Idle("loop") EXCEPT !.pc = "evaluate"]
    <2>1. task' = [task EXCEPT ![t] = r] BY <1>17 DEF LoopReport
    <2>2. r.pc = "evaluate" BY DEF Idle
    <2> HIDE DEF r
    <2>3. Leaves(t) BY <2>1, <2>2 DEF Leaves
    <2> QED BY <1>17, <2>3, Aside DEF LoopReport
  <1>18. CASE t = Loop /\ Evaluate
    <2>1. Leaves(t) /\ Scheduled(t) /\ task[t].pc = "evaluate" /\ UNCHANGED <<owed, live, starting>>
      BY <1>18, DoneLeaves DEF Evaluate
    <2>2. wanted' = wanted \/ wanted' = wanted + 1 BY <1>18 DEF Evaluate, Write
    <2> QED BY <2>1, <2>2, Aside, Silent
  <1>19. CASE GiveUp(t)
    <2>1. Leaves(t) /\ Scheduled(t) /\ task[t].pc = "reconcile" /\ owed' = 0 /\ wanted' = wanted
      BY <1>19, ResumeLeaves DEF GiveUp
    <2>2. PICK r : r.pc \notin {"promote", "copy"} /\ task' = [task EXCEPT ![t] = r]
      BY <2>1 DEF Leaves
    <2>3. task'[t] = r /\ \A u \in Task : u # t => task'[u] = task[u] BY <1>0, <2>2
    <2>4. \A u \in Task : task'[u].pc = "promote" => task'[u].version = wanted
      BY <2>2, <2>3 DEF Current
    <2> QED BY <2>1, <2>4 DEF Current
  <1>20. CASE Awaken(t) BY <1>20, GotoLeaves, Aside DEF Awaken
  <1>21. CASE Wake(t) BY <1>21, GotoLeaves, Silent DEF Wake, Write
  <1>22. CASE Provisioned(t) BY <1>22, DoneLeaves, Silent DEF Provisioned, Write
  <1> QED BY <1>1, <1>2, <1>3, <1>4, <1>5, <1>6, <1>7, <1>8, <1>9, <1>10, <1>11, <1>12,
             <1>13, <1>14, <1>15, <1>16, <1>17, <1>18, <1>19, <1>20, <1>21, <1>22
         DEF Proceed

\* Every step keeps the live files current, or somebody about to write them.
LEMMA CurrentNext == Types /\ Whole /\ Current /\ [Next]_vars => Current'
  <1> SUFFICES ASSUME Types, Whole, Current, [Next]_vars PROVE Current' OBVIOUS
  <1>1. ASSUME NEW t \in Task, NEW k \in Kind, Begin(t, k)
        PROVE  /\ Leaves(t) /\ task[t].pc = "idle"
               /\ k \in {"sync", "init", "setup"} => /\ task'[t].pc = "reconcile"
                                /\ \A u \in Task : u # t => task'[u] = task[u]
    <2> DEFINE l == CASE k = "stop" -> "remove"
                      [] k \in {"start", "loop"} -> "ensure"
                      [] OTHER -> "reconcile"
               r == [Idle(k) EXCEPT !.pc = l]
    <2>1. l \notin {"promote", "copy"} /\ (k \in {"sync", "init", "setup"} => l = "reconcile") OBVIOUS
    <2>2. task' = [task EXCEPT ![t] = r] /\ task[t].pc = "idle" BY <1>1 DEF Begin
    <2> HIDE DEF l
    <2>3. r.pc = l BY DEF Idle
    <2> HIDE DEF r
    <2> QED BY <2>1, <2>2, <2>3 DEF Leaves, Types, TypeOK
  <1>2. {"sync", "start", "stop", "init", "setup", "loop"} \subseteq Kind BY DEF Kind
  <1>3. ASSUME NEW t \in Task, NEW k \in Kind, Begin(t, k), UNCHANGED <<wanted, owed, live, starting>>
        PROVE  Current'
    BY <1>1, <1>3, Aside
  <1>4. ASSUME NEW t \in Request, Change(t) \/ Startup(t) PROVE Current'
    <2>0. t \in Task BY DEF Task
    <2>1. /\ task'[t].pc = "reconcile" /\ \A u \in Task : u # t => task'[u] = task[u]
          /\ task[t].pc = "idle" /\ Scheduled(t)
      BY <1>1, <1>2, <1>4, <2>0 DEF Change, Startup, Begin
    <2>2. Pending' BY <2>0, <2>1 DEF Pending
    <2>3. \A u \in Task : task'[u].pc \notin {"promote", "copy"} BY <2>0, <2>1, NobodyElse
    <2> QED BY <2>2, <2>3 DEF Current
  <1>5. ASSUME NEW t \in Request, NEW k \in Kind, Ask(t, k) PROVE Current'
    <2>0. t \in Task /\ Begin(t, k) /\ UNCHANGED <<wanted, live, starting>> BY <1>5 DEF Ask, Task
    <2>1. CASE k \in {"sync", "init", "setup"}
      <3>1. /\ task'[t].pc = "reconcile" /\ \A u \in Task : u # t => task'[u] = task[u]
            /\ Scheduled(t)
        BY <1>1, <2>0, <2>1 DEF Begin
      <3>2. Pending' BY <2>0, <3>1 DEF Pending
      <3>3. \A u \in Task : task'[u].pc \notin {"promote", "copy"} BY <2>0, <3>1, NobodyElse
      <3> QED BY <3>2, <3>3 DEF Current
    <2>2. CASE k \notin {"sync", "init", "setup"}
      <3>1. owed' = owed BY <1>5, <2>2 DEF Ask
      <3> QED BY <1>3, <2>0, <3>1
    <2> QED BY <2>1, <2>2
  <1>6. CASE LoopBegin BY <1>2, <1>3, <1>6 DEF LoopBegin, Task
  <1>7. CASE ContainerDies BY <1>7 DEF ContainerDies, Current, Pending, Fresh, Compiled
  <1>8. CASE Crash
    <2>1. (\A t \in Task : task'[t].pc = "idle") /\ starting' BY <1>8, IdleFacts DEF Crash
    <2> QED BY <2>1 DEF Current
  <1>9. CASE UNCHANGED vars BY <1>9 DEF vars, Current, Pending, Fresh, Compiled
  <1>10. ASSUME NEW t \in Request, ChangeFails(t) PROVE Current'
    BY <1>10, Silent DEF ChangeFails, Write, Task
  <1>11. ASSUME NEW t \in Request, Provision(t) PROVE Current'
    <2>1. t \in Task /\ task[t].pc = "idle" /\ Leaves(t)
      BY <1>11, GotoLeaves DEF Provision, Task
    <2> QED BY <1>11, <2>1, Aside DEF Provision
  <1> QED BY <1>2, <1>4, <1>5, <1>6, <1>7, <1>8, <1>9, <1>10, <1>11, CurrentProceed
         DEF Next, MqttReload, RuntimeStart, RuntimeStop, RuntimeInit, RuntimeRebuild,
             SetupApply

\* At the start the startup task is still to apply the state.
LEMMA CurrentInit == Init => Current
  BY IdleFacts DEF Init, Current

-----------------------------------------------------------------------------

\* The variables of Core's broker management keep their types.
THEOREM BrokerTypes == Spec => []TypeOK
  <1>1. Spec => []Types BY TypesInit, TypesNext, PTL DEF Spec
  <1>2. Types => TypeOK BY DEF Types
  <1> QED BY <1>1, <1>2, PTL

\* However many coroutines reconcile at once, whatever fails and wherever Core crashes,
\* the live directory holds files of one state (apply_pipeline.py).
THEOREM LiveIsOneVersion == Spec => []OneVersion
  <1>1. Spec => []Types BY TypesInit, TypesNext, PTL DEF Spec
  <1>2. Spec => []Whole BY <1>1, WholeInit, WholeNext, PTL DEF Spec
  <1>3. Whole => OneVersion BY DEF Whole
  <1> QED BY <1>2, <1>3, PTL

\* However reconciles overlap, when all have ended the broker's files are of a state at
\* least as new as when the last one was asked for, unless one was rolled back or gave
\* up since (startup_reconcile.py).  Changes that ask for none may be missing.
THEOREM LossTheorem == Spec => []LostOnlyByFailure
  <1>1. Spec => []Types BY TypesInit, TypesNext, PTL DEF Spec
  <1>2. Spec => []Whole BY <1>1, WholeInit, WholeNext, PTL DEF Spec
  <1>3. Current => LostOnlyByFailure BY DEF Current, Pending, Fresh, LostOnlyByFailure, Quiet
  <1> QED BY <1>1, <1>2, <1>3, CurrentInit, CurrentNext, PTL DEF Spec

=============================================================================
