------------------------------ MODULE BlePairing ------------------------------
(***************************************************************************)
(* BLE pairing sessions: Core opens a session, asks the supervisors that   *)
(* have Bluetooth to advertise it, collects the identity that an endpoint  *)
(* writes to one of the adverts, and lets the operator approve exactly     *)
(* that device or cancel the session.                                      *)
(*                                                                         *)
(* Handlers of Core and of the supervisors run on worker threads.  A       *)
(* handler of Core calls one supervisor after the other and writes each    *)
(* answer into the session, whatever happened to the session meanwhile; a  *)
(* call that times out may still be carried out later.                     *)
(***************************************************************************)
EXTENDS Naturals, FiniteSets

CONSTANTS
    Supervisor,   \* the online, trusted supervisors, with one adapter each
    Session, Device,
    Request,      \* requests Core serves at a time
    None,
    MaxOps        \* bound: requests, identity writes, expiries, helpers that exit,
                  \* calls that time out or are lost, and restarts

ASSUME PairingAssumption ==
    /\ None \notin Supervisor \cup Session \cup Device \cup Request
    /\ MaxOps \in Nat

VARIABLES
    session,   \* ble_pairing_sessions.json of Core
    request,   \* the requests in flight
    work,      \* the calls the supervisors have received and not finished
    advert,    \* each supervisor's _ble_pairing_advert_sessions
    helper,    \* the bluez_pairing_advert.py processes that run
    file,      \* the identity file of each advert, as the endpoint wrote it
    seen,      \* history: the devices that gave their identity to a session
    raced,     \* history: adverts started while another start was under way
    ops        \* operations so far

vars == <<session, request, work, advert, helper, file, seen, raced, ops>>

-----------------------------------------------------------------------------

\* An identity names the device and the session whose offer the device has read.
Identity == Device \X Session

Alive == {"advertising", "received"}
Dead == {"failed", "not_found", "stopped", "expired"}

\* canceled: canceled_at is set.  result: supervisor_results.
SessionRecord == [status   : {"none", "waiting", "failed", "found", "approved", "canceled", "expired"},
                  live     : BOOLEAN,
                  identity : Identity \cup {None},
                  approved : Device \cup {None},
                  canceled : BOOLEAN,
                  result   : [Supervisor -> {"none", "pending"} \cup Alive \cup Dead]]

AdvertRecord == [status : {"none", "failed", "stopped", "expired"} \cup Alive,
                 identity : Identity \cup {None}]
NoAdvert == [status |-> "none", identity |-> None]

Answer == [status : Alive \cup Dead, identity : Identity \cup {None}]
Failed == [status |-> "failed", identity |-> None]

\* todo: the supervisors left to call.  sup: the one that is called.
RequestRecord == [pc      : {"idle", "next", "wait", "update"},
                  op      : {"create", "open", "refresh", "approve", "cancel"},
                  session : Session \cup {None},
                  device  : Device \cup {None},
                  todo    : SUBSET Supervisor,
                  sup     : Supervisor \cup {None},
                  answer  : Answer]
Idle == [pc |-> "idle", op |-> "refresh", session |-> None, device |-> None, todo |-> {},
         sup |-> None, answer |-> Failed]

\* by: the request that waits for the answer, if it still does.  begun: the checks of a
\* start are through and its helper is being started.
Call == [kind : {"start", "begun", "stop", "status"}, sup : Supervisor, session : Session,
         by : Request \cup {None}]

Init ==
    /\ session = [s \in Session |-> [status |-> "none", live |-> TRUE, identity |-> None,
                                     approved |-> None, canceled |-> FALSE,
                                     result |-> [v \in Supervisor |-> "none"]]]
    /\ request = [q \in Request |-> Idle]
    /\ work = {}
    /\ advert = [v \in Supervisor |-> [s \in Session |-> NoAdvert]]
    /\ helper = {}
    /\ file = [h \in Supervisor \X Session |-> None]
    /\ seen = {} /\ raced = {}
    /\ ops = 0

Operation == ops < MaxOps /\ ops' = ops + 1

supervisors == <<advert, helper, file, seen, raced>>

-----------------------------------------------------------------------------
(* Core: sessions *)

\* _expire_old_sessions, which every read of a session runs first.
Expired(r) ==
    IF r.status \notin {"none", "canceled", "expired"} /\ ~r.live
    THEN [r EXCEPT !.status = "expired"] ELSE r
ExpireOld == [s \in Session |-> Expired(session[s])]

Reported(r) == {v \in Supervisor : r.result[v] # "none"}

\* find_active_session: s is an active session of the same node, adapter and profile, which
\* is refreshed first and used if it still is active.  Without one, s is None.
\* (A session id is kept for every request that may need one: a bound of the model.)
Create(q, s) ==
    /\ Operation
    /\ request[q].pc = "idle"
    /\ Cardinality({p \in Request : request[p].op = "create"}) <
         Cardinality({x \in Session : session[x].status = "none"})
    /\ s # None => ExpireOld[s].status \in {"waiting", "found", "approved"}
    /\ session' = ExpireOld
    /\ request' = [request EXCEPT ![q] = [Idle EXCEPT !.pc = "next", !.op = "create", !.session = s,
                                            !.todo = IF s = None THEN {} ELSE Reported(session[s])]]
    /\ UNCHANGED <<work, supervisors>>

Reuse(q) ==
    /\ request[q].pc = "next" /\ request[q].op = "create"
    /\ request[q].session # None /\ request[q].todo = {}
    /\ session[request[q].session].status \notin {"failed", "expired", "canceled"}
    /\ request' = [request EXCEPT ![q] = Idle]
    /\ UNCHANGED <<session, work, supervisors, ops>>

\* C: the candidates.  P: those whose policy is not disabled.
CreateSession(q, s, C, P) ==
    LET r == request[q] IN
    /\ r.pc = "next" /\ r.op = "create" /\ r.todo = {}
    /\ r.session # None => session[r.session].status \in {"failed", "expired", "canceled"}
    /\ session[s].status = "none"
    /\ session' = [ExpireOld EXCEPT
                     ![s].status = IF P = {} THEN "failed" ELSE "waiting",
                     ![s].result = [v \in Supervisor |-> IF v \in P THEN "pending"
                                                         ELSE IF v \in C THEN "failed" ELSE "none"]]
    /\ request' = [request EXCEPT ![q] = [Idle EXCEPT !.pc = "next", !.op = "open",
                                            !.session = s, !.todo = P]]
    /\ UNCHANGED <<work, supervisors, ops>>

\* GET of a session, which refreshes it, an approval and a cancellation read it first.
Look(q, s, op, d) ==
    /\ Operation
    /\ request[q].pc = "idle"
    /\ session[s].status # "none"
    /\ session' = ExpireOld
    /\ request' = [request EXCEPT ![q] = [Idle EXCEPT !.pc = "next", !.op = op, !.session = s,
                                            !.device = d, !.todo = Reported(session[s])]]
    /\ UNCHANGED <<work, supervisors>>

Kind(op) == CASE op = "open" -> "start" [] op = "cancel" -> "stop" [] OTHER -> "status"

CallSupervisor(q, v) ==
    /\ request[q].pc = "next"
    /\ v \in request[q].todo
    /\ work' = work \cup {[kind |-> Kind(request[q].op), sup |-> v,
                           session |-> request[q].session, by |-> q]}
    /\ request' = [request EXCEPT ![q].pc = "wait", ![q].sup = v, ![q].todo = @ \ {v}]
    /\ UNCHANGED <<session, supervisors, ops>>

\* The call is lost, or it times out here and is carried out all the same.
CallFails(q) ==
    /\ Operation
    /\ request[q].pc = "wait"
    /\ \/ work' = {w \in work : w.by # q}
       \/ work' = {IF w.by = q THEN [w EXCEPT !.by = None] ELSE w : w \in work}
    /\ request' = [request EXCEPT ![q].pc = "update", ![q].answer = Failed]
    /\ UNCHANGED <<session, supervisors>>

\* _apply_endpoint_identity looks for approved sessions only.
ApplyIdentity(r, s, i) ==
    IF i[2] # s THEN r
    ELSE [r EXCEPT !.identity = i, !.status = IF @ = "approved" THEN @ ELSE "found"]

\* The status that the supervisors' answers give a session without an identity.
Verdict(r) ==
    IF r.status \in {"found", "approved", "canceled", "expired"} THEN r.status
    ELSE IF \E v \in Supervisor : r.result[v] \in Alive \cup {"pending"} THEN "waiting"
    ELSE "failed"

UpdateSupervisorResult(q) ==
    LET s == request[q].session
        a == request[q].answer
        r == [session[s] EXCEPT !.result[request[q].sup] = a.status]
    IN
    /\ request[q].pc = "update"
    /\ session' = [session EXCEPT ![s] = IF a.identity # None THEN ApplyIdentity(r, s, a.identity)
                                         ELSE [r EXCEPT !.status = Verdict(r)]]
    /\ request' = [request EXCEPT ![q].pc = "next", ![q].sup = None, ![q].answer = Failed]
    /\ UNCHANGED <<work, supervisors, ops>>

\* A bug: the expiry is only looked at when the request comes in.
ApproveLate(q) ==
    LET s == request[q].session
        r == session[s]
    IN
    /\ request[q].pc = "next" /\ request[q].op = "approve" /\ request[q].todo = {}
    /\ session' = IF /\ r.status \notin {"expired", "canceled"}
                     /\ r.identity # None /\ r.identity[1] = request[q].device
                  THEN [session EXCEPT ![s].status = "approved", ![s].approved = request[q].device]
                  ELSE session
    /\ request' = [request EXCEPT ![q] = Idle]
    /\ UNCHANGED <<work, supervisors, ops>>

Approve(q) ==
    LET s == request[q].session
        r == Expired(session[s])
    IN
    /\ request[q].pc = "next" /\ request[q].op = "approve" /\ request[q].todo = {}
    /\ session' = IF /\ r.status \notin {"expired", "canceled"}
                     /\ r.identity # None /\ r.identity[1] = request[q].device
                  THEN [session EXCEPT ![s].status = "approved", ![s].approved = request[q].device]
                  ELSE [session EXCEPT ![s] = r]
    /\ request' = [request EXCEPT ![q] = Idle]
    /\ UNCHANGED <<work, supervisors, ops>>

Cancel(q) ==
    /\ request[q].pc = "next" /\ request[q].op = "cancel" /\ request[q].todo = {}
    /\ session' = [session EXCEPT ![request[q].session].status = "canceled",
                                  ![request[q].session].canceled = TRUE]
    /\ request' = [request EXCEPT ![q] = Idle]
    /\ UNCHANGED <<work, supervisors, ops>>

Finish(q) ==
    /\ request[q].pc = "next" /\ request[q].op \in {"open", "refresh"} /\ request[q].todo = {}
    /\ request' = [request EXCEPT ![q] = Idle]
    /\ UNCHANGED <<session, work, supervisors, ops>>

Lapse(s) ==
    /\ Operation
    /\ session[s].status # "none" /\ session[s].live
    /\ session' = [session EXCEPT ![s].live = FALSE]
    /\ UNCHANGED <<request, work, supervisors>>

-----------------------------------------------------------------------------
(* A supervisor: adverts *)

Reply(w, a) ==
    /\ work' = work \ {w}
    /\ request' = IF w.by = None THEN request
                  ELSE [request EXCEPT ![w.by].pc = "update", ![w.by].answer = a]

\* The token of a call expires with its session.
Refuse(w) ==
    /\ w \in work /\ w.kind # "begun"
    /\ ~session[w.session].live
    /\ Reply(w, Failed)
    /\ UNCHANGED <<session, supervisors, ops>>

\* The adverts of a supervisor once those past their expiry are marked.
Marked(v) == [s \in Session |-> IF advert[v][s].status # "none" /\ ~session[s].live
                                THEN [advert[v][s] EXCEPT !.status = "expired"] ELSE advert[v][s]]

\* A bug: an advert that has received an identity no longer counts.
OccupiedByAdvertising(v, s) == \E x \in Session \ {s} : Marked(v)[x].status = "advertising"

\* Another session is advertised on the adapter.
Occupied(v, s) == \E x \in Session \ {s} : Marked(v)[x].status \in Alive

StartAdvert(w) ==
    LET v == w.sup IN
    /\ w \in work /\ w.kind = "start"
    /\ session[w.session].live
    /\ advert' = [advert EXCEPT ![v] = Marked(v)]
    /\ IF Occupied(v, w.session)
       THEN Reply(w, Failed) /\ UNCHANGED raced
       ELSE /\ work' = (work \ {w}) \cup {[w EXCEPT !.kind = "begun"]}
            /\ raced' = IF \E x \in work : x.kind = "begun" /\ x.sup = v
                        THEN raced \cup {<<v, w.session>>} ELSE raced
            /\ UNCHANGED request
    /\ UNCHANGED <<session, helper, file, seen, ops>>

\* start_pairing_advert removes the identity file of an earlier start and runs the helper.
\* One that does not report in time has not been registered, so nothing terminates it.
HelperStarts(w, ok) ==
    LET h == <<w.sup, w.session>> IN
    /\ w \in work /\ w.kind = "begun"
    /\ IF ok THEN UNCHANGED ops ELSE Operation
    /\ file' = [file EXCEPT ![h] = None]
    /\ IF ok THEN helper' = helper \cup {h} ELSE helper' \in {helper \ {h}, helper \cup {h}}
    /\ advert' = [advert EXCEPT ![w.sup][w.session] =
                    [status |-> IF ok THEN "advertising" ELSE "failed", identity |-> None]]
    /\ Reply(w, IF ok THEN [status |-> "advertising", identity |-> None] ELSE Failed)
    /\ UNCHANGED <<session, seen, raced>>

\* A bug: the session that the identity names is not compared with the advert's.
RefreshedUnchecked(v, s) ==
    LET a == advert[v][s]
        i == file[<<v, s>>]
    IN
    IF a.status \notin Alive THEN a
    ELSE IF <<v, s>> \notin helper THEN [a EXCEPT !.status = "failed"]
    ELSE IF a.identity # None \/ i = None THEN a
    ELSE [status |-> "received", identity |-> <<i[1], s>>]

\* _refresh_ble_pairing_advert_backend_state: the helper first, then the file.
Refreshed(v, s) ==
    LET a == advert[v][s]
        i == file[<<v, s>>]
    IN
    IF a.status \notin Alive THEN a
    ELSE IF <<v, s>> \notin helper THEN [a EXCEPT !.status = "failed"]
    ELSE IF a.identity # None \/ i = None THEN a
    ELSE IF i[2] = s THEN [status |-> "received", identity |-> i]
    ELSE [a EXCEPT !.status = "failed"]

\* A bug: an advert that is not known is answered like one that is.
PayloadAsIs(a) == a

\* Every payload carries the identity, whatever the status.
Payload(a) == IF a.status = "none" THEN [status |-> "not_found", identity |-> None] ELSE a

Status(w) ==
    LET a == Refreshed(w.sup, w.session) IN
    /\ w \in work /\ w.kind = "status"
    /\ session[w.session].live
    /\ advert' = [advert EXCEPT ![w.sup][w.session] = a]
    /\ Reply(w, Payload(a))
    /\ UNCHANGED <<session, helper, file, seen, raced, ops>>

\* A stop that comes before the start has nothing to stop.
Stop(w) ==
    LET a == IF advert[w.sup][w.session].status = "none" THEN NoAdvert
             ELSE [advert[w.sup][w.session] EXCEPT !.status = "stopped"]
    IN
    /\ w \in work /\ w.kind = "stop"
    /\ session[w.session].live
    /\ advert' = [advert EXCEPT ![w.sup][w.session] = a]
    /\ helper' = IF a = NoAdvert THEN helper ELSE helper \ {<<w.sup, w.session>>}
    /\ Reply(w, [status |-> "stopped", identity |-> a.identity])
    /\ UNCHANGED <<session, file, seen, raced, ops>>

\* An endpoint writes its identity, which names the session of the last offer it has read.
WriteIdentity(v, s, i) ==
    /\ Operation
    /\ <<v, s>> \in helper
    /\ session[i[2]].status # "none"
    /\ file' = [file EXCEPT ![<<v, s>>] = i]
    /\ seen' = IF i[2] = s THEN seen \cup {<<i[1], s>>} ELSE seen
    /\ UNCHANGED <<session, request, work, advert, helper, raced>>

\* POST endpoint-identity, which replaces the identity.
PostIdentity(v, s, d) ==
    /\ Operation
    /\ session[s].live
    /\ advert[v][s].status \in Alive
    /\ advert' = [advert EXCEPT ![v][s] = [status |-> "received", identity |-> <<d, s>>]]
    /\ seen' = seen \cup {<<d, s>>}
    /\ UNCHANGED <<session, request, work, helper, file, raced>>

\* External: the helper exits, at the latest when the session expires.
HelperExits(h) ==
    /\ h \in helper
    /\ IF session[h[2]].live THEN Operation ELSE UNCHANGED ops
    /\ helper' = helper \ {h}
    /\ UNCHANGED <<session, request, work, advert, file, seen, raced>>

\* The adverts are kept in memory; helpers have a session of their own and may survive.
SupervisorRestarts(v) ==
    /\ Operation
    /\ advert' = [advert EXCEPT ![v] = [s \in Session |-> NoAdvert]]
    /\ helper' \in {helper, {h \in helper : h[1] # v}}
    /\ work' = {w \in work : w.sup # v}
    /\ request' = [q \in Request |-> IF request[q].pc = "wait" /\ request[q].sup = v
                                     THEN [request[q] EXCEPT !.pc = "update", !.answer = Failed]
                                     ELSE request[q]]
    /\ UNCHANGED <<session, file, seen, raced>>

\* Core stops: the requests in flight are lost, the calls they have made are not.
Crash ==
    /\ Operation
    /\ request' = [q \in Request |-> Idle]
    /\ work' = {[w EXCEPT !.by = None] : w \in work}
    /\ UNCHANGED <<session, supervisors>>

Next ==
    \/ \E q \in Request :
          \/ \E s \in Session \cup {None} : Create(q, s)
          \/ Reuse(q)
          \/ \E s \in Session, C \in SUBSET Supervisor : \E P \in SUBSET C : CreateSession(q, s, C, P)
          \/ \E s \in Session : \/ Look(q, s, "refresh", None)
                                \/ Look(q, s, "cancel", None)
                                \/ \E d \in Device : Look(q, s, "approve", d)
          \/ \E v \in Supervisor : CallSupervisor(q, v)
          \/ CallFails(q) \/ UpdateSupervisorResult(q)
          \/ Approve(q) \/ Cancel(q) \/ Finish(q)
    \/ \E s \in Session : Lapse(s)
    \/ \E w \in Call : \/ Refuse(w) \/ StartAdvert(w) \/ Status(w) \/ Stop(w)
                       \/ \E ok \in BOOLEAN : HelperStarts(w, ok)
    \/ \E v \in Supervisor, s \in Session :
          \/ \E i \in Identity : WriteIdentity(v, s, i)
          \/ \E d \in Device : PostIdentity(v, s, d)
    \/ \E h \in Supervisor \X Session : HelperExits(h)
    \/ \E v \in Supervisor : SupervisorRestarts(v)
    \/ Crash

Spec == Init /\ [][Next]_vars

-----------------------------------------------------------------------------
(* Properties *)

\* Every variable has its type, every call in work is of a known session, and a request
\* that waits for a supervisor has its call in work: answers, timeouts and restarts
\* between them never leave a handler of Core waiting for ever.
TypeOK ==
    /\ session \in [Session -> SessionRecord]
    /\ request \in [Request -> RequestRecord]
    /\ work \subseteq Call
    /\ \A q \in Request : request[q].pc = "wait" <=> \E w \in work : w.by = q
    /\ advert \in [Supervisor -> [Session -> AdvertRecord]]
    /\ helper \subseteq Supervisor \X Session
    /\ file \in [Supervisor \X Session -> Identity \cup {None}]
    /\ seen \subseteq Identity
    /\ raced \subseteq Supervisor \X Session
    /\ ops \in 0..MaxOps

\* A device that is approved for a session has given its identity to an advert of that
\* session, though identities come from several supervisors, late, and from endpoints
\* that have read the offer of another session.
ApprovedWasSeen ==
    \A s \in Session : session[s].approved # None => <<session[s].approved, s>> \in seen

\* A session is never approved after its expiry, though the approval reads it before it
\* calls every supervisor and an answer that comes after the expiry reopens it.
ApprovedInTime ==
    [][\A s \in Session : session[s].status # "approved" /\ session'[s].status = "approved"
                          => session[s].live]_vars

\* A supervisor advertises two sessions on its adapter only if the second start passed
\* the check while the helper of another was being started.
OneAdvert ==
    \A v \in Supervisor : \A s, x \in Session :
        s # x /\ advert[v][s].status \in Alive /\ advert[v][x].status \in Alive
              /\ session[s].live /\ session[x].live
        => <<v, s>> \in raced \/ <<v, x>> \in raced

\* What the contract says: a session that was canceled is rejected from then on.
CanceledIsRejected ==
    \A s \in Session : session[s].canceled => session[s].status # "approved"

==============================================================================
