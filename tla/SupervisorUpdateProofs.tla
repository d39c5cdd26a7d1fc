------------------------ MODULE SupervisorUpdateProofs ------------------------
(***************************************************************************)
(* Proofs about SupervisorUpdate, for any number of handlers and keys: its *)
(* types, and that a key starts one update.                                *)
(***************************************************************************)
EXTENDS SupervisorUpdate, TLAPS

\* The bounds are natural numbers.
LEMMA Bounds == MaxTarget \in Nat /\ 1 \in Release /\ MaxOps \in Nat
BY UpdateAssumption DEF UpdateAssumption, Release

\* An operation is counted within its bound.
LEMMA OperationOK ==
    ASSUME ops \in 0..MaxOps, Operation
    PROVE  ops' \in 0..MaxOps
BY Bounds DEF Operation

\* The empty state is well formed, and so is an idle thread.
LEMMA BlankOK == None \notin Key /\ Blank \in FileRecord /\ Idle \in ThreadRecord
<1>1. None \notin Key
  BY UpdateAssumption DEF UpdateAssumption, Key, Release
<1>2. Blank \in FileRecord
  BY DEF Blank, FileRecord
<1> QED
  BY <1>1, <1>2 DEF Idle, ThreadRecord, Label

\* What a handler reads of the state is well formed, and an operation is counted.
LEMMA ReadsOK ==
    ASSUME NEW q \in Request, NEW f, Reads(q, f), file \in FileRecord, ops \in 0..MaxOps
    PROVE  f \in FileRecord /\ ops' \in 0..MaxOps
BY BlankOK, OperationOK DEF Reads

\* A call of the API puts a well-formed handler on a thread.
LEMMA CallOK ==
    ASSUME NEW q \in Request, NEW kind \in {"status", "start", "report"},
           NEW mode \in Mode \cup {None}, NEW key \in Key \cup {None},
           NEW service \in BOOLEAN, NEW audited \in BOOLEAN,
           thread \in [Request -> ThreadRecord], Call(q, kind, mode, key, service, audited)
    PROVE  thread' \in [Request -> ThreadRecord]
BY BlankOK DEF Call, Idle, ThreadRecord, Label

\* A handler that returns frees its thread and answers the audit.
LEMMA ReturnOK ==
    ASSUME NEW q \in Request, NEW a \in Answer,
           thread \in [Request -> ThreadRecord], audit \in AuditRecord, Return(q, a)
    PROVE  thread' \in [Request -> ThreadRecord] /\ audit' \in AuditRecord
BY BlankOK DEF Return, AuditRecord

\* A handler that has started its update goes on to report the status.
LEMMA ReportOK ==
    ASSUME NEW q \in Request, thread \in [Request -> ThreadRecord], Report(q)
    PROVE  thread' \in [Request -> ThreadRecord]
BY BlankOK DEF Report, Idle, ThreadRecord, Label

\* A handler whose status is complete answers or goes on to begin its update.
LEMMA SummaryOK ==
    ASSUME NEW q \in Request, NEW f,
           thread \in [Request -> ThreadRecord], audit \in AuditRecord, Summary(q, f)
    PROVE  thread' \in [Request -> ThreadRecord] /\ audit' \in AuditRecord
<1>1. CASE thread[q].kind = "start"
  BY <1>1, BlankOK DEF Summary, ThreadRecord, Label
<1>2. CASE thread[q].kind # "start"
  <2>1. Status(q, f) \in Answer
    BY DEF Status, Answer
  <2> QED
    BY <1>2, <2>1, ReturnOK DEF Summary
<1> QED
  BY <1>1, <1>2

\* A handler that takes its next step, with what it has read, stays well formed.
LEMMA AdvanceOK ==
    ASSUME NEW q \in Request, NEW l \in Label, NEW f \in FileRecord,
           thread \in [Request -> ThreadRecord],
           thread' = [thread EXCEPT ![q].pc = l, ![q].read = f]
    PROVE  /\ thread' \in [Request -> ThreadRecord]
           /\ thread'[q].pc = l /\ thread'[q].kind = thread[q].kind
           /\ thread'[q].key = thread[q].key /\ thread'[q].read = f
           /\ \A p \in Request \ {q} : thread'[p] = thread[p]
<1> DEFINE r == [thread[q] EXCEPT !.pc = l, !.read = f]
<1>1. thread' = [thread EXCEPT ![q] = r]
  OBVIOUS
<1>2. /\ r \in ThreadRecord
      /\ r.pc = l /\ r.kind = thread[q].kind /\ r.key = thread[q].key /\ r.read = f
  BY DEF ThreadRecord
<1> HIDE DEF r
<1> QED
  BY <1>1, <1>2

\* The finalized state is well formed.
LEMMA FinalizedOK ==
    ASSUME NEW f \in FileRecord, NEW seen
    PROVE  Finalized(f, seen) \in FileRecord
BY BlankOK DEF FileRecord, Finalized

\* What a handler writes when its attempt ends is well formed.
LEMMA EndsOK ==
    ASSUME NEW q \in Request, NEW o \in {"succeeded", "failed"}, thread[q].key \in Key, Ends(q, o)
    PROVE  file' \in FileRecord
BY BlankOK DEF FileRecord, Ends

\* The history keeps its types.
LEMMA TangleOK ==
    ASSUME NEW now \in BOOLEAN, NEW latest \in Key \cup {None}, tangled \in BOOLEAN,
           Tangle(now, latest)
    PROVE  recent' \in Key \cup {None} /\ tangled' \in BOOLEAN
BY DEF Tangle

\* A handler that starts an update, or runs one, has a key.
Keyed == \A q \in Request :
            (thread[q].kind = "start" \/ thread[q].pc \in Updating \cup {"begin", "write"})
                => thread[q].key \in Key

\* If it has a key, or its next step needs none, so does every handler.
LEMMA AdvanceKeyed ==
    ASSUME NEW q \in Request, NEW l \in Label, NEW f \in FileRecord,
           thread \in [Request -> ThreadRecord], Keyed,
           thread' = [thread EXCEPT ![q].pc = l, ![q].read = f],
           thread[q].key \in Key \/ l \notin Updating \cup {"begin", "write"}
    PROVE  Keyed'
<1>0. /\ thread'[q].pc = l /\ thread'[q].kind = thread[q].kind
      /\ thread'[q].key = thread[q].key
      /\ \A p \in Request \ {q} : thread'[p] = thread[p]
  BY AdvanceOK
<1>1. ASSUME NEW p \in Request,
             thread'[p].kind = "start" \/ thread'[p].pc \in Updating \cup {"begin", "write"}
      PROVE  thread'[p].key \in Key
  <2>1. CASE p = q
    BY <1>0, <1>1, <2>1 DEF Keyed
  <2>2. CASE p # q
    <3>1. thread'[p] = thread[p]
      BY <1>0, <2>2
    <3> QED
      BY <1>1, <3>1 DEF Keyed
  <2> QED
    BY <2>1, <2>2
<1> QED
  BY <1>1 DEF Keyed, Updating

\* A return and a report leave only handlers that have a key where one is needed.
LEMMA FreedKeyed ==
    ASSUME NEW q \in Request, thread \in [Request -> ThreadRecord], Keyed,
           (\E a : Return(q, a)) \/ Report(q)
    PROVE  Keyed'
<1>1. CASE \E a : Return(q, a)
  BY <1>1 DEF Return, Keyed, Idle, Updating
<1>2. CASE Report(q)
  BY <1>2 DEF Report, Keyed, Idle, Updating
<1> QED
  BY <1>1, <1>2

\* So does a status that is complete.
LEMMA SummaryKeyed ==
    ASSUME NEW q \in Request, NEW f, thread \in [Request -> ThreadRecord], Keyed, Summary(q, f)
    PROVE  Keyed'
<1>1. CASE thread[q].kind = "start"
  BY <1>1 DEF Summary, Keyed, Updating, ThreadRecord
<1>2. CASE thread[q].kind # "start"
  BY <1>2, FreedKeyed DEF Summary
<1> QED
  BY <1>1, <1>2

TypeInv == TypeOK /\ Keyed

\* The invariant behind TypeOK: the key a handler writes into the file is one.
THEOREM TypeInvariant == Spec => []TypeInv
<1>1. Init => TypeInv
  <2> SUFFICES ASSUME Init PROVE TypeInv
    OBVIOUS
  <2>1. TypeOK
    <3>2. thread \in [Request -> ThreadRecord]
      BY BlankOK DEF Init
    <3>3. audit \in AuditRecord
      BY Bounds DEF Init, AuditRecord, Asleep
    <3>4. file \in FileRecord
      BY BlankOK DEF Init
    <3>5. ops \in 0..MaxOps /\ target \in Release
      BY Bounds DEF Init
    <3> QED
      BY <3>2, <3>3, <3>4, <3>5 DEF Init, TypeOK
  <2>2. Keyed
    BY DEF Init, Keyed, Idle, Updating
  <2> QED
    BY <2>1, <2>2 DEF TypeInv
<1>2. TypeInv /\ [Next]_vars => TypeInv'
  <2> SUFFICES ASSUME TypeInv, [Next]_vars PROVE TypeInv'
    OBVIOUS
  <2>0. /\ target \in Release /\ release \in Release
        /\ file \in FileRecord
        /\ unit \in {"active", "ok", "failed"} /\ restarting \in BOOLEAN
        /\ thread \in [Request -> ThreadRecord] /\ audit \in AuditRecord
        /\ recent \in Key \cup {None} /\ tangled \in BOOLEAN /\ ops \in 0..MaxOps
        /\ Keyed
    BY DEF TypeInv, TypeOK
  <2> DEFINE Goal == /\ target' \in Release /\ release' \in Release
                     /\ file' \in FileRecord
                     /\ unit' \in {"active", "ok", "failed"} /\ restarting' \in BOOLEAN
                     /\ thread' \in [Request -> ThreadRecord] /\ audit' \in AuditRecord
                     /\ recent' \in Key \cup {None} /\ tangled' \in BOOLEAN
                     /\ ops' \in 0..MaxOps
                     /\ Keyed'
  <2> SUFFICES Goal
    BY DEF TypeInv, TypeOK
  <2> HIDE DEF TypeInv
  <2>1. ASSUME NEW q \in Request, Probe(q) PROVE Goal
    BY <2>0, <2>1 DEF Probe, ThreadRecord, Label, Keyed, Updating
  <2>2. ASSUME NEW q \in Request, Look(q) PROVE Goal
    <3>1. PICK f \in {file, Blank} :
            /\ Reads(q, f)
            /\ \/ Summary(q, f)
               \/ /\ thread' = [thread EXCEPT ![q].pc = "finalize", ![q].read = f]
                  /\ UNCHANGED audit
      BY <2>2 DEF Look
    <3>2. f \in FileRecord /\ ops' \in 0..MaxOps
      BY <2>0, <3>1, ReadsOK
    <3>3. thread' \in [Request -> ThreadRecord] /\ audit' \in AuditRecord /\ Keyed'
      <4>1. CASE Summary(q, f)
        BY <2>0, <4>1, SummaryOK, SummaryKeyed
      <4>2. CASE /\ thread' = [thread EXCEPT ![q].pc = "finalize", ![q].read = f]
                 /\ UNCHANGED audit
        BY <2>0, <3>2, <4>2, AdvanceOK, AdvanceKeyed DEF Label, Updating
      <4> QED
        BY <3>1, <4>1, <4>2
    <3> QED
      BY <2>0, <2>2, <3>2, <3>3 DEF Look
  <2>3. ASSUME NEW q \in Request, Finalize(q) PROVE Goal
    <3> DEFINE f == Finalized(thread[q].read, thread[q].seen)
    <3>1. f \in FileRecord
      BY <2>0, FinalizedOK DEF ThreadRecord
    <3>2. Summary(q, f) /\ file' = f
      BY <2>3 DEF Finalize
    <3>3. recent' \in Key \cup {None} /\ tangled' \in BOOLEAN
      BY <2>0, <2>3, TangleOK DEF Finalize
    <3> HIDE DEF f
    <3>4. thread' \in [Request -> ThreadRecord] /\ audit' \in AuditRecord /\ Keyed'
      BY <2>0, <3>2, SummaryOK, SummaryKeyed
    <3> QED
      BY <2>0, <2>3, <3>1, <3>2, <3>3, <3>4 DEF Finalize
  <2>29. ASSUME NEW q \in Request, Begin(q) PROVE Goal
    <3>1. PICK f \in {file, Blank} :
            /\ Reads(q, f)
            /\ \/ Return(q, "accepted") \/ Return(q, "error")
               \/ /\ thread' = [thread EXCEPT ![q].pc = "write", ![q].read = f]
                  /\ UNCHANGED audit
      BY <2>29 DEF Begin
    <3>2. f \in FileRecord /\ ops' \in 0..MaxOps
      BY <2>0, <3>1, ReadsOK
    <3>3. thread' \in [Request -> ThreadRecord] /\ audit' \in AuditRecord /\ Keyed'
      <4>1. CASE Return(q, "accepted") \/ Return(q, "error")
        BY <2>0, <4>1, ReturnOK, FreedKeyed DEF Answer
      <4>2. CASE /\ thread' = [thread EXCEPT ![q].pc = "write", ![q].read = f]
                 /\ UNCHANGED audit
        <5>1. thread[q].key \in Key
          BY <2>0, <2>29 DEF Begin, Keyed
        <5> QED
          BY <2>0, <3>2, <4>2, <5>1, AdvanceOK, AdvanceKeyed DEF Label
      <4> QED
        BY <3>1, <4>1, <4>2
    <3> QED
      BY <2>0, <2>29, <3>2, <3>3 DEF Begin
  <2>30. ASSUME NEW q \in Request, Start(q) PROVE Goal
    <3>1. thread[q].key \in Key /\ thread[q].read \in FileRecord
      BY <2>0, <2>30 DEF Start, Keyed, ThreadRecord
    <3>2. file' \in FileRecord
      BY <2>30, <3>1 DEF Start, FileRecord
    <3>3. thread' \in [Request -> ThreadRecord]
      BY <2>0, <2>30, BlankOK, AdvanceOK DEF Start, Label
    <3>4. Keyed'
      BY <2>0, <2>30, <3>1 DEF Start, Keyed, Updating
    <3>5. recent' \in Key \cup {None} /\ tangled' \in BOOLEAN
      BY <2>0, <2>30, <3>1, TangleOK DEF Start, Overlap
    <3> QED
      BY <2>0, <2>30, <3>2, <3>3, <3>4, <3>5 DEF Start
  <2>4. ASSUME NEW q \in Request, ApplyUpdatePackage(q) PROVE Goal
    BY <2>0, <2>4 DEF ApplyUpdatePackage, ThreadRecord, Label, Keyed, Updating
  <2>5. ASSUME NEW q \in Request, FinishPackage(q) PROVE Goal
    <3>1. file' \in FileRecord
      <4>1. thread[q].key \in Key
        BY <2>0, <2>5 DEF FinishPackage, Keyed, Updating
      <4> QED
        BY <4>1, <2>5, EndsOK DEF FinishPackage
    <3>2. thread' \in [Request -> ThreadRecord] /\ Keyed'
      BY <2>0, <2>5, ReportOK, FreedKeyed DEF FinishPackage
    <3>3. restarting' \in BOOLEAN
      BY <2>0, <2>5 DEF FinishPackage, ThreadRecord
    <3> QED
      BY <2>0, <2>5, <3>1, <3>2, <3>3 DEF FinishPackage
  <2>6. ASSUME NEW q \in Request, StartUnit(q) PROVE Goal
    BY <2>0, <2>6 DEF StartUnit, ThreadRecord, Label, Keyed, Updating
  <2>7. ASSUME NEW q \in Request, UnitDone(q) PROVE Goal
    <3>1. thread' \in [Request -> ThreadRecord]
      BY <2>0, <2>7, ReportOK DEF UnitDone
    <3>2. Keyed'
      BY <2>0, <2>7, FreedKeyed DEF UnitDone
    <3> QED
      BY <2>0, <2>7, <3>1, <3>2 DEF UnitDone
  <2>8. ASSUME NEW q \in Request, Ends(q, "failed"), Return(q, "error"),
               thread[q].pc \in Updating
        PROVE  /\ file' \in FileRecord /\ Keyed'
               /\ thread' \in [Request -> ThreadRecord] /\ audit' \in AuditRecord
    <3>1. file' \in FileRecord
      BY <2>0, <2>8, EndsOK DEF Keyed
    <3>2. thread' \in [Request -> ThreadRecord] /\ audit' \in AuditRecord
      BY <2>0, <2>8, ReturnOK DEF Answer
    <3>3. Keyed'
      BY <2>0, <2>8, FreedKeyed
    <3> QED
      BY <3>1, <3>2, <3>3
  <2>9. ASSUME NEW q \in Request, UnitFails(q) PROVE Goal
    BY <2>0, <2>8, <2>9 DEF UnitFails, Updating
  <2>10. ASSUME NEW q \in Request, Fails(q) PROVE Goal
    BY <2>0, <2>8, <2>10, OperationOK DEF Fails, Updating
  <2>11. CASE UpdaterEnds
    <3>1. ops' \in 0..MaxOps
      BY <2>0, <2>11, OperationOK DEF UpdaterEnds
    <3> QED
      BY <2>0, <2>11, <3>1 DEF UpdaterEnds, Keyed
  <2>12. CASE Restart
    <3>1. ops' \in 0..MaxOps
      BY <2>0, <2>12, OperationOK DEF Restart
    <3>2. thread' \in [Request -> ThreadRecord] /\ Keyed'
      BY <2>12, BlankOK DEF Restart, Keyed, Idle, Updating
    <3>3. audit' \in AuditRecord
      BY <2>0, <2>12 DEF Restart, AuditRecord, Answer
    <3>4. file' \in FileRecord
      BY <2>0, <2>12, BlankOK DEF Restart
    <3>5. recent' \in Key \cup {None} /\ tangled' \in BOOLEAN
      BY <2>0, <2>12, TangleOK DEF Restart
    <3> QED
      BY <2>0, <2>12, <3>1, <3>2, <3>3, <3>4, <3>5 DEF Restart
  <2>13. ASSUME NEW q \in Request, NEW kind \in {"status", "start", "report"},
                NEW mode \in Mode \cup {None}, NEW key \in Key \cup {None},
                NEW s \in BOOLEAN, NEW b \in BOOLEAN, kind = "start" => key \in Key,
                Call(q, kind, mode, key, s, b)
         PROVE  thread' \in [Request -> ThreadRecord] /\ Keyed'
    <3>1. thread' \in [Request -> ThreadRecord]
      BY <2>0, <2>13, CallOK
    <3>2. Keyed'
      BY <2>0, <2>13 DEF Call, Keyed, Idle, Updating
    <3> QED
      BY <3>1, <3>2
  <2>14. ASSUME NEW q \in Request, NEW mode \in Mode, NEW key \in OperatorKey,
                NEW s \in BOOLEAN, UpdateStart(q, mode, key, s)
         PROVE  Goal
    <3>1. key \in Key
      BY DEF Key
    <3>2. thread' \in [Request -> ThreadRecord] /\ Keyed'
      BY <2>13, <2>14, <3>1 DEF UpdateStart
    <3> QED
      BY <2>0, <2>14, <3>2, OperationOK DEF UpdateStart
  <2>15. ASSUME NEW q \in Request, UpdateStatus(q) PROVE Goal
    <3>1. thread' \in [Request -> ThreadRecord] /\ Keyed'
      BY <2>13, <2>15 DEF UpdateStatus
    <3> QED
      BY <2>0, <2>15, <3>1, OperationOK DEF UpdateStatus
  <2>16. CASE NewRelease
    BY <2>0, <2>16, Bounds DEF NewRelease, Release, Keyed
  <2>17. ASSUME NEW d \in {"none", "started", "failed"}, Decide(d) PROVE audit' \in AuditRecord
    BY <2>0, <2>17, Bounds DEF Decide, AuditRecord, Asleep
  <2>18. ASSUME NEW l \in {"check", "start", "refresh"}, Ask(l) PROVE audit' \in AuditRecord
    BY <2>0, <2>18 DEF Ask, AuditRecord
  <2>19. ASSUME UNCHANGED thread PROVE thread' \in [Request -> ThreadRecord] /\ Keyed'
    BY <2>0, <2>19 DEF Keyed
  <2>20. ASSUME NEW q \in Request, Wake(q) PROVE Goal
    <3>1. thread' \in [Request -> ThreadRecord] /\ Keyed'
      BY <2>13, <2>20 DEF Wake
    <3>2. audit' \in AuditRecord
      BY <2>0, <2>20 DEF Wake, AuditRecord
    <3> QED
      BY <2>0, <2>20, <3>1, <3>2 DEF Wake
  <2>21. ASSUME NEW q \in Request, NEW b \in BOOLEAN, Inspected(q, b) PROVE Goal
    <3>1. thread' \in [Request -> ThreadRecord] /\ Keyed'
      BY <2>13, <2>19, <2>21 DEF Inspected
    <3>2. audit' \in AuditRecord
      BY <2>17, <2>18, <2>21 DEF Inspected
    <3> QED
      BY <2>0, <2>21, <3>1, <3>2 DEF Inspected
  <2>22. ASSUME NEW q \in Request, Checked(q) PROVE Goal
    <3>1. audit.goal \in Key
      BY <2>0 DEF AuditRecord, Key
    <3>2. thread' \in [Request -> ThreadRecord] /\ Keyed'
      BY <2>13, <2>19, <2>22, <3>1 DEF Checked
    <3>3. audit' \in AuditRecord
      BY <2>17, <2>18, <2>22 DEF Checked
    <3> QED
      BY <2>0, <2>22, <3>2, <3>3 DEF Checked
  <2>23. ASSUME NEW q \in Request, Started(q) PROVE Goal
    <3>1. thread' \in [Request -> ThreadRecord] /\ Keyed'
      BY <2>13, <2>19, <2>23 DEF Started
    <3>2. audit' \in AuditRecord
      BY <2>17, <2>18, <2>23 DEF Started
    <3> QED
      BY <2>0, <2>23, <3>1, <3>2 DEF Started
  <2>24. CASE Refreshed
    BY <2>0, <2>17, <2>19, <2>24 DEF Refreshed
  <2>25. CASE Blocked
    BY <2>0, <2>17, <2>19, <2>25, OperationOK DEF Blocked
  <2>26. ASSUME NEW lost \in BOOLEAN, CallFails(lost) PROVE Goal
    <3>0. \A p \in Request : thread'[p] \in {Idle, thread[p], [thread[p] EXCEPT !.audited = FALSE]}
      BY <2>26 DEF CallFails
    <3>1. thread' \in [Request -> ThreadRecord] /\ Keyed'
      <4>1. Idle \in ThreadRecord
        BY BlankOK
      <4>2. \A p \in Request : [thread[p] EXCEPT !.audited = FALSE] \in ThreadRecord
        BY <2>0 DEF ThreadRecord
      <4>3. \A p \in Request : thread'[p] \in ThreadRecord
        BY <2>0, <3>0, <4>1, <4>2
      <4>4. thread' \in [Request -> ThreadRecord]
        BY <2>26, <4>3 DEF CallFails
      <4>5. \A p \in Request : [thread[p] EXCEPT !.audited = FALSE].kind = thread[p].kind
                               /\ [thread[p] EXCEPT !.audited = FALSE].pc = thread[p].pc
                               /\ [thread[p] EXCEPT !.audited = FALSE].key = thread[p].key
        BY <2>0 DEF ThreadRecord
      <4>6. ASSUME NEW p \in Request,
                   thread'[p].kind = "start" \/ thread'[p].pc \in Updating \cup {"begin", "write"}
            PROVE  thread'[p].key \in Key
        <5>1. thread'[p] # Idle
          BY <4>6 DEF Idle, Updating
        <5>2. /\ thread'[p].kind = thread[p].kind /\ thread'[p].pc = thread[p].pc
              /\ thread'[p].key = thread[p].key
          BY <3>0, <4>5, <5>1
        <5> QED
          BY <2>0, <4>6, <5>2 DEF Keyed
      <4> QED
        BY <4>4, <4>6 DEF Keyed, Updating
    <3>2. audit' \in AuditRecord
      BY <2>0, <2>26 DEF CallFails, AuditRecord, Answer
    <3> QED
      BY <2>0, <2>26, <3>1, <3>2, OperationOK DEF CallFails
  <2>27. CASE CoreRestarts
    <3>1. thread' \in [Request -> ThreadRecord] /\ Keyed'
      <4>1. \A p \in Request : thread'[p] = [thread[p] EXCEPT !.audited = FALSE]
        BY <2>27 DEF CoreRestarts
      <4>5. ASSUME NEW r \in ThreadRecord, NEW s, s = [r EXCEPT !.audited = FALSE]
            PROVE  s \in ThreadRecord /\ s.kind = r.kind /\ s.pc = r.pc /\ s.key = r.key
        BY <4>5 DEF ThreadRecord
      <4>2. \A p \in Request : /\ thread'[p] \in ThreadRecord /\ thread'[p].kind = thread[p].kind
                               /\ thread'[p].pc = thread[p].pc /\ thread'[p].key = thread[p].key
        BY <2>0, <4>1, <4>5
      <4>3. thread' \in [Request -> ThreadRecord]
        BY <2>27, <4>2 DEF CoreRestarts
      <4> QED
        BY <2>0, <4>2, <4>3 DEF Keyed
    <3>2. audit' \in AuditRecord
      BY <2>0, <2>27, Bounds DEF CoreRestarts, AuditRecord, Asleep
    <3> QED
      BY <2>0, <2>27, <3>1, <3>2, OperationOK DEF CoreRestarts
  <2>28. CASE UNCHANGED vars
    BY <2>0, <2>28 DEF vars, Keyed
  <2> HIDE DEF Goal
  <2> QED
    BY <2>1, <2>2, <2>3, <2>29, <2>30, <2>4, <2>5, <2>6, <2>7, <2>9, <2>10, <2>11, <2>12, <2>14, <2>15, <2>16,
       <2>20, <2>21, <2>22, <2>23, <2>24, <2>25, <2>26, <2>27, <2>28
       DEF Next, Handler, Audit
<1> QED
  BY <1>1, <1>2, PTL DEF Spec

\* The variables of SupervisorUpdate keep their types.
THEOREM UpdateTypes == Spec => []TypeOK
BY TypeInvariant, PTL DEF TypeInv

-----------------------------------------------------------------------------

\* While the updates are not tangled, the file names the latest start as the current or, if
\* there is none, as the last attempt, and every handler that updates is its handler.
Remembered ==
    tangled \/
        /\ file.current \in {None, recent}
        /\ recent # None => recent \in {file.current, file.last}
        /\ \A q \in Request : thread[q].pc \in Updating => thread[q].key = recent

\* A handler about to start its update has read a state that allows it.
Ready == \A q \in Request :
            thread[q].pc = "write" => ~Replayed(thread[q].read, thread[q].key)

\* The action property of KeyOnce, as a formula.
KeyStep ==
    \A q \in Request :
        (thread[q].pc = "write" /\ thread'[q].pc \in Updating)
            => (thread[q].key # recent \/ tangled')

\* Threads that start no update leave the handlers of updates as they are.
Calm == \A q \in Request :
            thread'[q].pc \in Updating => thread[q].pc \in Updating /\ thread'[q].key = thread[q].key

\* Threads that have read nothing to start from leave those that have as they are.
Steady == \A q \in Request :
            thread'[q].pc = "write" =>
                /\ thread[q].pc = "write"
                /\ thread'[q].key = thread[q].key /\ thread'[q].read = thread[q].read

\* The updates are tangled now, or the history is as it was.
Kept == tangled' \/ (~tangled /\ recent' = recent)

\* Finalizing moves the current attempt to the last and forgets an older one only.
LEMMA FinalizedRemembers ==
    ASSUME NEW seen, file \in FileRecord, Remembered, ~tangled
    PROVE  /\ Finalized(file, seen).current \in {None, recent}
           /\ recent # None => recent \in {Finalized(file, seen).current, Finalized(file, seen).last}
BY DEF Remembered, Finalized, FileRecord

\* A step that leaves the file alone and starts nothing keeps the memory.
LEMMA CalmRemembers ==
    ASSUME Remembered, Calm, Kept, UNCHANGED file
    PROVE  Remembered'
BY DEF Remembered, Calm, Kept

\* So does one in which a handler writes the end of its attempt.
LEMMA CalmEnds ==
    ASSUME NEW q \in Request, NEW o \in {"succeeded", "failed"}, Remembered, Calm, Kept,
           thread[q].pc \in Updating, Ends(q, o)
    PROVE  Remembered'
BY DEF Remembered, Calm, Ends, Kept

\* A step that is not about to start an update keeps the others ready.
LEMMA SteadyReady ==
    ASSUME Ready, Steady
    PROVE  Ready'
BY DEF Ready, Steady, Replayed

\* A call is calm and steady.
LEMMA CallCalm ==
    ASSUME NEW q \in Request, NEW kind, NEW mode, NEW key, NEW s, NEW b,
           thread \in [Request -> ThreadRecord], Call(q, kind, mode, key, s, b)
    PROVE  Calm /\ Steady
BY DEF Call, Calm, Steady, Idle, Updating

\* A return is.
LEMMA ReturnCalm ==
    ASSUME NEW q \in Request, NEW a, thread \in [Request -> ThreadRecord], Return(q, a)
    PROVE  Calm /\ Steady
BY DEF Return, Calm, Steady, Idle, Updating

\* So is the report of an update that is over.
LEMMA ReportCalm ==
    ASSUME NEW q \in Request, thread \in [Request -> ThreadRecord], Report(q)
    PROVE  Calm /\ Steady
BY DEF Report, Calm, Steady, Idle, Updating

\* And a status that is complete.
LEMMA SummaryCalm ==
    ASSUME NEW q \in Request, NEW f, thread \in [Request -> ThreadRecord], Summary(q, f)
    PROVE  Calm /\ Steady
<1>1. CASE thread[q].kind = "start"
  BY <1>1 DEF Summary, Calm, Steady, Updating, ThreadRecord
<1>2. CASE thread[q].kind # "start"
  BY <1>2, ReturnCalm DEF Summary
<1> QED
  BY <1>1, <1>2

\* A step that leaves the threads alone is calm and steady.
LEMMA UnchangedCalm ==
    ASSUME UNCHANGED thread
    PROVE  Calm /\ Steady
BY DEF Calm, Steady

\* A call that fails leaves every handler running that is past its start.
LEMMA CallFailsCalm ==
    ASSUME NEW lost \in BOOLEAN, thread \in [Request -> ThreadRecord], CallFails(lost)
    PROVE  Calm /\ Steady
<1>1. \A p \in Request : thread'[p] \in {Idle, thread[p], [thread[p] EXCEPT !.audited = FALSE]}
  BY DEF CallFails
<1>2. \A p \in Request : /\ [thread[p] EXCEPT !.audited = FALSE].pc = thread[p].pc
                         /\ [thread[p] EXCEPT !.audited = FALSE].key = thread[p].key
                         /\ [thread[p] EXCEPT !.audited = FALSE].read = thread[p].read
  BY DEF ThreadRecord
<1>3. Idle.pc = "idle"
  BY DEF Idle
<1> QED
  BY <1>1, <1>2, <1>3 DEF Calm, Steady, Updating

\* Only the check of an update is not steady, and only its start is not calm.
LEMMA StepCalm ==
    ASSUME TypeInv, [Next]_vars
    PROVE  /\ Calm \/ \E p \in Request : Start(p)
           /\ Steady \/ \E p \in Request : Begin(p)
<1>0. thread \in [Request -> ThreadRecord]
  BY DEF TypeInv, TypeOK
<1>1. ASSUME NEW q \in Request, Handler(q)
      PROVE  (Calm \/ Start(q)) /\ (Steady \/ Begin(q))
  <2>1. CASE Probe(q) \/ ApplyUpdatePackage(q) \/ StartUnit(q)
    BY <1>0, <2>1 DEF Probe, ApplyUpdatePackage, StartUnit, Calm, Steady, Updating, ThreadRecord
  <2>2. CASE FinishPackage(q) \/ UnitDone(q)
    BY <1>0, <2>2, ReportCalm DEF FinishPackage, UnitDone
  <2>3. CASE UnitFails(q) \/ Fails(q)
    BY <1>0, <2>3, ReturnCalm DEF UnitFails, Fails
  <2>4. CASE Look(q)
    <3>1. PICK f \in {file, Blank} :
            \/ Summary(q, f)
            \/ thread' = [thread EXCEPT ![q].pc = "finalize", ![q].read = f]
      BY <2>4 DEF Look
    <3>2. CASE thread' = [thread EXCEPT ![q].pc = "finalize", ![q].read = f]
      BY <1>0, <3>2 DEF Calm, Steady, Updating, ThreadRecord
    <3> QED
      BY <1>0, <3>1, <3>2, SummaryCalm
  <2>5. CASE Finalize(q)
    <3>1. \E f : Summary(q, f)
      BY <2>5 DEF Finalize
    <3> QED
      BY <1>0, <3>1, SummaryCalm
  <2>6. CASE Begin(q)
    <3>1. PICK f \in {file, Blank} :
            \/ Return(q, "accepted") \/ Return(q, "error")
            \/ thread' = [thread EXCEPT ![q].pc = "write", ![q].read = f]
      BY <2>6 DEF Begin
    <3>2. CASE thread' = [thread EXCEPT ![q].pc = "write", ![q].read = f]
      BY <1>0, <2>6, <3>2 DEF Calm, Updating, ThreadRecord
    <3> QED
      BY <1>0, <2>6, <3>1, <3>2, ReturnCalm
  <2>7. CASE Start(q)
    BY <1>0, <2>7 DEF Start, Steady, ThreadRecord
  <2> QED
    BY <1>1, <2>1, <2>2, <2>3, <2>4, <2>5, <2>6, <2>7 DEF Handler
<1>2. CASE \E q \in Request : \/ UpdateStatus(q) \/ Wake(q) \/ Checked(q) \/ Started(q)
                              \/ \E mode \in Mode, key \in OperatorKey, s \in BOOLEAN :
                                    UpdateStart(q, mode, key, s)
                              \/ \E elapsed \in BOOLEAN : Inspected(q, elapsed)
  BY <1>0, <1>2, CallCalm, UnchangedCalm
     DEF UpdateStatus, UpdateStart, Wake, Checked, Started, Inspected
<1>3. CASE UpdaterEnds \/ NewRelease \/ Refreshed \/ Blocked \/ UNCHANGED vars
  BY <1>3, UnchangedCalm DEF UpdaterEnds, NewRelease, Refreshed, Blocked, vars
<1>4. CASE Restart
  BY <1>4 DEF Restart, Calm, Steady, Idle, Updating
<1>5. ASSUME NEW lost \in BOOLEAN, CallFails(lost) PROVE Calm /\ Steady
  BY <1>0, <1>5, CallFailsCalm
<1>6. CASE CoreRestarts
  BY <1>0, <1>6 DEF CoreRestarts, Calm, Steady, ThreadRecord
<1> QED
  BY <1>1, <1>2, <1>3, <1>4, <1>5, <1>6 DEF Next, Audit

\* The handlers about to start an update stay ready.
LEMMA ReadyStep ==
    ASSUME TypeInv, Ready, [Next]_vars
    PROVE  Ready'
<1>1. CASE Steady
  BY <1>1, SteadyReady
<1>2. CASE ~Steady
  <2>0. thread \in [Request -> ThreadRecord]
    BY DEF TypeInv, TypeOK
  <2>1. PICK q \in Request : Begin(q)
    BY <1>2, StepCalm
  <2>2. PICK f \in {file, Blank} :
          \/ Return(q, "accepted") \/ Return(q, "error")
          \/ /\ ~Replayed(f, thread[q].key)
             /\ thread' = [thread EXCEPT ![q].pc = "write", ![q].read = f]
    BY <2>1 DEF Begin
  <2>3. /\ ~Replayed(f, thread[q].key)
        /\ thread' = [thread EXCEPT ![q].pc = "write", ![q].read = f]
    BY <1>2, <2>0, <2>2, ReturnCalm
  <2>4. thread'[q].read = f /\ thread'[q].key = thread[q].key
    BY <2>0, <2>3 DEF ThreadRecord
  <2>5. \A p \in Request \ {q} : thread'[p] = thread[p]
    BY <2>0, <2>3
  <2> QED
    BY <2>3, <2>4, <2>5 DEF Ready, Replayed
<1> QED
  BY <1>1, <1>2

\* A step that writes the file keeps the memory of the latest start.
LEMMA WriteRemembers ==
    ASSUME NEW q \in Request, TypeInv, Remembered,
           Finalize(q) \/ Start(q) \/ FinishPackage(q) \/ UnitFails(q) \/ Fails(q)
    PROVE  Remembered'
<1>0. thread \in [Request -> ThreadRecord] /\ file \in FileRecord
  BY DEF TypeInv, TypeOK
<1>1. CASE Finalize(q)
  <2>1. Calm
    <3>1. \E f : Summary(q, f)
      BY <1>1 DEF Finalize
    <3> QED
      BY <1>0, <3>1, SummaryCalm
  <2>2. CASE tangled'
    BY <2>2 DEF Remembered
  <2>3. CASE ~tangled'
    <3>1. ~tangled /\ thread[q].read = file /\ recent' = recent
      BY <1>1, <2>3 DEF Finalize, Tangle
    <3>2. file' = Finalized(file, thread[q].seen)
      BY <1>1, <3>1 DEF Finalize
    <3> QED
      BY <1>0, <2>1, <3>1, <3>2, FinalizedRemembers DEF Remembered, Calm
  <2> QED
    BY <2>2, <2>3
<1>2. CASE Start(q)
  <2>1. CASE tangled'
    BY <2>1 DEF Remembered
  <2>2. CASE ~tangled'
    <3>1. ~Overlap /\ recent' = thread[q].key
      BY <1>2, <2>2 DEF Start, Tangle
    <3>2. \A p \in Request : thread[p].pc \notin Updating
      BY <3>1 DEF Overlap
    <3>3. \A p \in Request : thread'[p].pc \in Updating => thread'[p].key = recent'
      BY <1>0, <1>2, <3>1, <3>2 DEF Start, ThreadRecord
    <3>4. file'.current = recent'
      BY <1>0, <1>2, <3>1 DEF Start, ThreadRecord, FileRecord
    <3> QED
      BY <3>3, <3>4 DEF Remembered
  <2> QED
    BY <2>1, <2>2
<1>3. CASE FinishPackage(q)
  BY <1>0, <1>3, ReportCalm, CalmEnds DEF FinishPackage, Updating, Kept
<1>4. CASE UnitFails(q) \/ Fails(q)
  BY <1>0, <1>4, ReturnCalm, CalmEnds DEF UnitFails, Fails, Updating, Kept
<1> QED
  BY <1>1, <1>2, <1>3, <1>4

\* A step that writes no file leaves it and the history alone, or is a restart that cuts a
\* write short.
LEMMA OtherKept ==
    ASSUME [Next]_vars,
           \A q \in Request :
             ~(Finalize(q) \/ Start(q) \/ FinishPackage(q) \/ UnitFails(q) \/ Fails(q))
    PROVE  Kept /\ (UNCHANGED file \/ tangled')
<1>1. ASSUME NEW q \in Request, Handler(q) PROVE UNCHANGED <<file, recent, tangled>>
  BY <1>1 DEF Handler, Probe, Look, Begin, ApplyUpdatePackage, StartUnit, UnitDone
<1>2. CASE Restart
  BY <1>2 DEF Restart, Tangle, Kept
<1>3. ASSUME NEW q \in Request,
             \/ UpdateStatus(q) \/ Wake(q) \/ Checked(q) \/ Started(q)
             \/ \E mode \in Mode, key \in OperatorKey, s \in BOOLEAN : UpdateStart(q, mode, key, s)
             \/ \E elapsed \in BOOLEAN : Inspected(q, elapsed)
      PROVE  UNCHANGED <<file, recent, tangled>>
  BY <1>3 DEF UpdateStatus, UpdateStart, Wake, Checked, Started, Inspected
<1>4. CASE UpdaterEnds \/ NewRelease \/ Refreshed \/ Blocked \/ CoreRestarts \/ UNCHANGED vars
           \/ \E lost \in BOOLEAN : CallFails(lost)
  BY <1>4 DEF UpdaterEnds, NewRelease, Refreshed, Blocked, CoreRestarts, CallFails, vars, Kept
<1> QED
  BY <1>1, <1>2, <1>3, <1>4 DEF Next, Audit, Kept

\* Every step keeps the memory.
LEMMA RememberedStep ==
    ASSUME TypeInv, Remembered, [Next]_vars
    PROVE  Remembered'
<1>1. CASE \E q \in Request :
             Finalize(q) \/ Start(q) \/ FinishPackage(q) \/ UnitFails(q) \/ Fails(q)
  BY <1>1, WriteRemembers
<1>2. CASE ~\E q \in Request :
             Finalize(q) \/ Start(q) \/ FinishPackage(q) \/ UnitFails(q) \/ Fails(q)
  <2>1. Kept /\ (UNCHANGED file \/ tangled')
    BY <1>2, OtherKept
  <2>2. Calm
    BY <1>2, StepCalm
  <2> QED
    BY <2>1, <2>2, CalmRemembers DEF Remembered
<1> QED
  BY <1>1, <1>2

\* A step that starts an update starts a key that the memory does not hold, or finds the
\* file other than it was read.
LEMMA StartIsNew ==
    ASSUME TypeInv, Remembered, Ready, [Next]_vars
    PROVE  KeyStep
<1> SUFFICES ASSUME NEW q \in Request, thread[q].pc = "write", thread'[q].pc \in Updating,
                    ~tangled'
             PROVE  thread[q].key # recent
  BY DEF KeyStep
<1>0. thread \in [Request -> ThreadRecord]
  BY DEF TypeInv, TypeOK
<1>1. PICK p \in Request : Start(p)
  <2>1. ~Calm
    BY DEF Calm, Updating
  <2> QED
    BY <2>1, StepCalm
<1>2. p = q
  <2>1. CASE p # q
    <3>1. thread'[q] = thread[q]
      BY <1>0, <1>1, <2>1 DEF Start
    <3> QED
      BY <3>1 DEF Updating
  <2> QED
    BY <2>1
<1>3. ~tangled /\ thread[q].read = file
  BY <1>1, <1>2 DEF Start, Tangle
<1>4. ~Replayed(file, thread[q].key)
  BY <1>3 DEF Ready
<1>5. thread[q].key # None
  BY BlankOK DEF TypeInv, Keyed
<1> QED
  BY <1>3, <1>4, <1>5 DEF Remembered, Replayed

\* The memory of the latest start is an invariant, and so is what a start relies on.
THEOREM RememberedInvariant == Spec => [](Remembered /\ Ready)
<1>1. Init => Remembered /\ Ready
  BY DEF Init, Remembered, Ready, Idle, Updating, Blank
<1>2. TypeInv /\ Remembered /\ Ready /\ [Next]_vars => (Remembered /\ Ready)'
  BY RememberedStep, ReadyStep
<1> QED
  BY <1>1, <1>2, TypeInvariant, PTL DEF Spec

\* A start under the latest key is a replay, unless two updates have run side by side or the
\* state was written from a read that was no longer the file's content.
THEOREM KeyStartsOnce == Spec => KeyOnce
<1>1. TypeInv /\ Remembered /\ Ready /\ [Next]_vars => [KeyStep]_vars
  BY StartIsNew
<1>2. KeyStep <=> \A q \in Request :
                    (thread[q].pc = "write" /\ thread'[q].pc \in Updating)
                        => (thread[q].key # recent \/ tangled')
  BY DEF KeyStep
<1> QED
  BY <1>1, <1>2, TypeInvariant, RememberedInvariant, PTL DEF Spec, KeyOnce

===============================================================================
