--------------------------- MODULE BlePairingProofs ---------------------------
(***************************************************************************)
(* Proofs about BlePairing, for every number of supervisors, sessions,     *)
(* devices and requests.                                                   *)
(*                                                                         *)
(* Types strengthens the type invariant with what a request knows at each  *)
(* label (Requests), with the call that belongs to each waiting request    *)
(* (Calls) and with what a session is before it is created (Fresh).        *)
(* Seen follows an identity from the advert through the answer to the      *)
(* session; Races extends OneAdvert to the starts that are under way.      *)
(***************************************************************************)
EXTENDS BlePairing, TLAPS

\* What a request knows at each of its labels.
Well(r) ==
    /\ r \in RequestRecord
    /\ r.pc # "idle" /\ (r.op # "create" \/ r.todo # {}) => r.session \in Session
    /\ r.pc \in {"wait", "update"} => r.session \in Session /\ r.sup \in Supervisor

Requests == \A q \in Request : Well(request[q])

\* A call that somebody waits for is the only one of that request, at its supervisor.
Calls ==
    /\ \A w \in work : w.by # None => /\ request[w.by].pc = "wait"
                                      /\ request[w.by].sup = w.sup
    /\ \A w, x \in work : w.by # None /\ w.by = x.by => w = x

\* A session that was not created yet has no identity, and its time has not run out.
Fresh == \A s \in Session : session[s].status = "none" => session[s].identity = None /\ session[s].live

Types == TypeOK /\ Requests /\ Calls /\ Fresh

-----------------------------------------------------------------------------
(* Type correctness *)

\* What the assumption says of the constants.
LEMMA Constants ==
  /\ MaxOps \in Nat
  /\ None \notin Supervisor /\ None \notin Session /\ None \notin Device /\ None \notin Request
  BY PairingAssumption

\* A failed call has an answer.
LEMMA FailedType == Failed \in Answer
  BY DEF Failed, Answer, Alive, Dead

\* A free request knows nothing.
LEMMA IdleWell == Well(Idle) /\ Idle.pc = "idle" /\ Idle.op = "refresh"
  BY FailedType DEF Well, Idle, RequestRecord

\* An operation is counted within its bound.
LEMMA OpsType == TypeOK /\ Operation => ops' \in 0..MaxOps
  BY Constants DEF TypeOK, Operation

\* A step that moves one request to a well-formed record leaves the others alone.
LEMMA OneRequest ==
  ASSUME Requests, NEW q \in Request, NEW r, Well(r), request \in [Request -> RequestRecord],
         request' = [request EXCEPT ![q] = r]
  PROVE  /\ Requests' /\ request' \in [Request -> RequestRecord]
         /\ request'[q] = r
         /\ \A p \in Request : p # q => request'[p] = request[p]
  BY DEF Requests, Well

\* Expiring a session changes its status only, and only to expired.
LEMMA Expiry ==
  ASSUME session \in [Session -> SessionRecord]
  PROVE  /\ ExpireOld \in [Session -> SessionRecord]
         /\ \A s \in Session : /\ Expired(session[s]) \in SessionRecord
                               /\ ExpireOld[s] = Expired(session[s])
                               /\ Expired(session[s]).status \in {session[s].status, "expired"}
                               /\ session[s].status = "none" => Expired(session[s]) = session[s]
                               /\ Expired(session[s]).live = session[s].live
                               /\ Expired(session[s]).identity = session[s].identity
                               /\ Expired(session[s]).approved = session[s].approved
                               /\ Expired(session[s]).result = session[s].result
  BY DEF ExpireOld, Expired, SessionRecord

\* The sweep over the sessions leaves those alone that do not exist.
LEMMA ExpireFresh ==
  ASSUME session \in [Session -> SessionRecord], Fresh, session' = ExpireOld
  PROVE  Fresh'
  <1> SUFFICES ASSUME NEW s \in Session, session'[s].status = "none"
               PROVE  session'[s].identity = None /\ session'[s].live
    BY DEF Fresh
  <1>1. session'[s] = Expired(session[s]) BY Expiry
  <1>2. session[s].status = "none" BY <1>1, Expiry
  <1> QED BY <1>1, <1>2, Expiry DEF Fresh

\* A step that changes one session, which has been created by then.
LEMMA OneSession ==
  ASSUME Fresh, NEW s \in Session, NEW y \in SessionRecord, NEW old \in [Session -> SessionRecord],
         \A x \in Session : old[x].status = "none" => old[x].identity = None /\ old[x].live,
         session' = [old EXCEPT ![s] = y], y.status # "none" \/ y = old[s]
  PROVE  session' \in [Session -> SessionRecord] /\ Fresh'
  BY DEF Fresh

\* The types hold at the start.
LEMMA TypesInit == Init => Types
  <1> SUFFICES ASSUME Init PROVE Types OBVIOUS
  <1>1. session \in [Session -> SessionRecord] /\ Fresh BY DEF Init, SessionRecord, Fresh
  <1>2. request \in [Request -> RequestRecord] /\ Requests BY IdleWell DEF Init, Requests, Well
  <1>3. \A q \in Request : request[q].pc = "wait" <=> \E w \in work : w.by = q
    BY IdleWell DEF Init
  <1>4. advert \in [Supervisor -> [Session -> AdvertRecord]]
    BY DEF Init, NoAdvert, AdvertRecord
  <1>5. /\ work \subseteq Call /\ helper \subseteq Supervisor \X Session
        /\ file \in [Supervisor \X Session -> Identity \cup {None}]
        /\ seen \subseteq Identity /\ raced \subseteq Supervisor \X Session
        /\ ops \in 0..MaxOps
    BY Constants DEF Init
  <1>6. Calls BY DEF Init, Calls
  <1> QED BY <1>1, <1>2, <1>3, <1>4, <1>5, <1>6 DEF Types, TypeOK

\* A step of a request that makes no call and waits for none.
LEMMA MoveOn ==
  ASSUME Types, NEW q \in Request, NEW r, Well(r), r.pc # "wait", request[q].pc # "wait",
         request' = [request EXCEPT ![q] = r],
         session' \in [Session -> SessionRecord], Fresh',
         UNCHANGED <<work, supervisors>>, ops' \in 0..MaxOps
  PROVE  Types'
  <1>1. /\ Requests' /\ request' \in [Request -> RequestRecord] /\ request'[q] = r
        /\ \A p \in Request : p # q => request'[p] = request[p]
    BY OneRequest DEF Types, TypeOK
  <1>2. \A w \in work : w.by # q BY DEF Types, TypeOK
  <1>3. \A w \in work : w.by # None => w.by \in Request BY DEF Types, TypeOK, Call
  <1>4. Calls' BY <1>1, <1>2, <1>3 DEF Types, Calls
  <1>5. \A p \in Request : request'[p].pc = "wait" <=> \E w \in work' : w.by = p
    BY <1>1, <1>2 DEF Types, TypeOK
  <1> QED BY <1>1, <1>4, <1>5 DEF Types, TypeOK, supervisors

\* Core's handlers keep the types between their calls.
LEMMA TypesCore ==
  ASSUME Types, NEW q \in Request,
         \/ \E s \in Session \cup {None} : Create(q, s)
         \/ Reuse(q)
         \/ \E s \in Session, C \in SUBSET Supervisor : \E P \in SUBSET C : CreateSession(q, s, C, P)
         \/ \E s \in Session : \/ Look(q, s, "refresh", None)
                               \/ Look(q, s, "cancel", None)
                               \/ \E d \in Device : Look(q, s, "approve", d)
         \/ UpdateSupervisorResult(q) \/ Approve(q) \/ Cancel(q) \/ Finish(q)
  PROVE  Types'
  <1> USE Constants
  <1>0. /\ TypeOK /\ request \in [Request -> RequestRecord] /\ Requests /\ Well(request[q])
        /\ session \in [Session -> SessionRecord] /\ ops \in 0..MaxOps /\ Fresh
    BY DEF Types, TypeOK, Requests
  <1>1. ASSUME NEW s \in Session \cup {None}, Create(q, s) PROVE Types'
    <2> DEFINE T == IF s = None THEN {} ELSE Reported(session[s])
               r == [Idle EXCEPT !.pc = "next", !.op = "create", !.session = s, !.todo = T]
    <2>1. request' = [request EXCEPT ![q] = r] BY <1>1 DEF Create
    <2>2. T \subseteq Supervisor BY DEF Reported
    <2>3. T # {} => s \in Session OBVIOUS
    <2> HIDE DEF T
    <2>4. Well(r) /\ r.pc = "next" BY <2>2, <2>3, FailedType DEF Well, Idle, RequestRecord
    <2>5. session' \in [Session -> SessionRecord] BY <1>0, <1>1, Expiry DEF Create
    <2>6. Fresh' BY <1>0, <1>1, ExpireFresh DEF Create
    <2>7. request[q].pc = "idle" /\ UNCHANGED <<work, supervisors>> /\ ops' \in 0..MaxOps
      BY <1>0, <1>1, OpsType DEF Create
    <2> HIDE DEF r
    <2> QED BY <2>1, <2>4, <2>5, <2>6, <2>7, MoveOn
  <1>2. CASE Reuse(q) \/ Finish(q)
    <2>1. request' = [request EXCEPT ![q] = Idle] /\ request[q].pc = "next"
          /\ UNCHANGED <<session, work, supervisors, ops>>
      BY <1>2 DEF Reuse, Finish
    <2>2. Fresh' BY <1>0, <2>1 DEF Fresh
    <2> QED BY <1>0, <2>1, <2>2, IdleWell, MoveOn
  <1>3. ASSUME NEW s \in Session, NEW C \in SUBSET Supervisor, NEW P \in SUBSET C, CreateSession(q, s, C, P)
        PROVE  Types'
    <2> DEFINE r == [Idle EXCEPT !.pc = "next", !.op = "open", !.session = s, !.todo = P]
               a == IF P = {} THEN "failed" ELSE "waiting"
               b == [v \in Supervisor |-> IF v \in P THEN "pending"
                                          ELSE IF v \in C THEN "failed" ELSE "none"]
    <2>1. request' = [request EXCEPT ![q] = r] BY <1>3 DEF CreateSession
    <2>2. Well(r) /\ r.pc = "next" BY FailedType DEF Well, Idle, RequestRecord
    <2>3. session' = [ExpireOld EXCEPT ![s].status = a, ![s].result = b] BY <1>3 DEF CreateSession
    <2>4. a \in {"failed", "waiting"} /\ b \in [Supervisor -> {"none", "pending"} \cup Alive \cup Dead]
      BY DEF Dead
    <2> HIDE DEF a, b, r
    <2> DEFINE old == ExpireOld
               y == [old[s] EXCEPT !.status = a, !.result = b]
    <2>5. old \in [Session -> SessionRecord] BY <1>0, Expiry
    <2>8. \A x \in Session : old[x].status = "none" => old[x].identity = None /\ old[x].live
      BY <1>0, Expiry DEF Fresh
    <2> HIDE DEF old
    <2>9. session' = [old EXCEPT ![s] = y] BY <2>3, <2>5 DEF old
    <2>10. y \in SessionRecord /\ y.status # "none" BY <2>4, <2>5 DEF SessionRecord
    <2> HIDE DEF y
    <2>6. session' \in [Session -> SessionRecord] /\ Fresh'
      BY <1>0, <2>5, <2>8, <2>9, <2>10, OneSession
    <2>7. request[q].pc = "next" /\ UNCHANGED <<work, supervisors, ops>> BY <1>3 DEF CreateSession
    <2> QED BY <1>0, <2>1, <2>2, <2>6, <2>7, MoveOn
  <1>4. ASSUME NEW s \in Session, NEW op \in {"refresh", "cancel", "approve"}, NEW d \in Device \cup {None},
               Look(q, s, op, d)
        PROVE  Types'
    <2> DEFINE T == Reported(session[s])
               r == [Idle EXCEPT !.pc = "next", !.op = op, !.session = s, !.device = d, !.todo = T]
    <2>1. request' = [request EXCEPT ![q] = r] BY <1>4 DEF Look
    <2>2. T \subseteq Supervisor BY DEF Reported
    <2> HIDE DEF T
    <2>3. Well(r) /\ r.pc = "next" BY <2>2, FailedType DEF Well, Idle, RequestRecord
    <2>4. session' \in [Session -> SessionRecord] BY <1>0, <1>4, Expiry DEF Look
    <2>5. Fresh' BY <1>0, <1>4, ExpireFresh DEF Look
    <2>6. request[q].pc = "idle" /\ UNCHANGED <<work, supervisors>> /\ ops' \in 0..MaxOps
      BY <1>0, <1>4, OpsType DEF Look
    <2> HIDE DEF r
    <2> QED BY <2>1, <2>3, <2>4, <2>5, <2>6, MoveOn
  <1>5. CASE UpdateSupervisorResult(q)
    <2>s. PICK s \in Session : s = request[q].session
      BY <1>0, <1>5 DEF UpdateSupervisorResult, Well
    <2>v. PICK v \in Supervisor : v = request[q].sup BY <1>0, <1>5 DEF UpdateSupervisorResult, Well
    <2> DEFINE a == request[q].answer
               z == [session[s] EXCEPT !.result[v] = a.status]
               y == IF a.identity # None THEN ApplyIdentity(z, s, a.identity)
                    ELSE [z EXCEPT !.status = Verdict(z)]
               r == [request[q] EXCEPT !.pc = "next", !.sup = None, !.answer = Failed]
    <2>1. request' = [request EXCEPT ![q] = r] BY <1>0, <1>5 DEF UpdateSupervisorResult
    <2>2. Well(r) /\ r.pc = "next"
      BY <1>0, <1>5, <2>s, FailedType DEF UpdateSupervisorResult, Well, RequestRecord
    <2>3. session' = [session EXCEPT ![s] = y] BY <1>5, <2>s, <2>v DEF UpdateSupervisorResult
    <2>4. a \in Answer BY <1>0 DEF Well, RequestRecord
    <2>5. z \in SessionRecord /\ z.status = session[s].status /\ z.live = session[s].live
      BY <1>0, <2>4 DEF SessionRecord, Answer
    <2> HIDE DEF z, r
    <2>6. Verdict(z) \in {"none", "waiting", "failed", "found", "approved", "canceled", "expired"} \ {"none"}
      BY <2>5 DEF Verdict, SessionRecord
    <2>7. a.identity # None => /\ ApplyIdentity(z, s, a.identity) \in SessionRecord
                               /\ ApplyIdentity(z, s, a.identity).status \in {z.status, "found"}
                               /\ ApplyIdentity(z, s, a.identity).status = "none"
                                    => ApplyIdentity(z, s, a.identity) = z
                               /\ ApplyIdentity(z, s, a.identity).live = z.live
      BY <2>4, <2>5 DEF ApplyIdentity, SessionRecord, Answer
    <2>8. [z EXCEPT !.status = Verdict(z)] \in SessionRecord
          /\ [z EXCEPT !.status = Verdict(z)].status # "none"
      BY <2>5, <2>6 DEF SessionRecord
    <2>9. y \in SessionRecord BY <2>7, <2>8
    <2>10. y.status = "none" => y = z BY <2>7, <2>8
    <2> HIDE DEF y
    <2>11. session' \in [Session -> SessionRecord] BY <1>0, <2>3, <2>9
    <2>12. z.identity = session[s].identity BY <1>0 DEF z, SessionRecord
    <2>13. Fresh' BY <1>0, <2>3, <2>5, <2>10, <2>12 DEF Fresh
    <2>14. request[q].pc = "update" /\ UNCHANGED <<work, supervisors, ops>>
      BY <1>5 DEF UpdateSupervisorResult
    <2> QED BY <1>0, <2>1, <2>2, <2>11, <2>13, <2>14, MoveOn
  <1>6. CASE Approve(q)
    <2>s. PICK s \in Session : s = request[q].session BY <1>0, <1>6 DEF Approve, Well
    <2>d. PICK d \in Device \cup {None} : d = request[q].device BY <1>0 DEF Well, RequestRecord
    <2>1. \/ /\ session' = [session EXCEPT ![s].status = "approved", ![s].approved = d]
             /\ session[s].identity # None
          \/ session' = [session EXCEPT ![s] = Expired(session[s])]
      BY <1>0, <1>6, <2>s, <2>d, Expiry DEF Approve
    <2> DEFINE y == [session[s] EXCEPT !.status = "approved", !.approved = d]
    <2>2. \/ session' = [session EXCEPT ![s] = y]
          \/ session' = [session EXCEPT ![s] = Expired(session[s])]
      BY <1>0, <2>1
    <2>5. y \in SessionRecord /\ y.status # "none" BY <1>0 DEF SessionRecord
    <2>6. Expired(session[s]) \in SessionRecord
          /\ (Expired(session[s]).status # "none" \/ Expired(session[s]) = session[s])
      BY <1>0, Expiry
    <2> HIDE DEF y
    <2>3. session' \in [Session -> SessionRecord] /\ Fresh'
      BY <1>0, <2>2, <2>5, <2>6, OneSession DEF Fresh
    <2>4. request' = [request EXCEPT ![q] = Idle] /\ request[q].pc = "next"
          /\ UNCHANGED <<work, supervisors, ops>>
      BY <1>6 DEF Approve
    <2> QED BY <1>0, <2>3, <2>4, IdleWell, MoveOn
  <1>7. CASE Cancel(q)
    <2>s. PICK s \in Session : s = request[q].session BY <1>0, <1>7 DEF Cancel, Well
    <2> DEFINE y == [session[s] EXCEPT !.status = "canceled", !.canceled = TRUE]
    <2>1. session' = [session EXCEPT ![s] = y] BY <1>0, <1>7, <2>s DEF Cancel
    <2>2. y \in SessionRecord /\ y.status # "none" BY <1>0 DEF SessionRecord
    <2> HIDE DEF y
    <2>3. session' \in [Session -> SessionRecord] /\ Fresh'
      BY <1>0, <2>1, <2>2, OneSession DEF Fresh
    <2>4. request' = [request EXCEPT ![q] = Idle] /\ request[q].pc = "next"
          /\ UNCHANGED <<work, supervisors, ops>>
      BY <1>7 DEF Cancel
    <2> QED BY <1>0, <2>3, <2>4, IdleWell, MoveOn
  <1> QED BY <1>1, <1>2, <1>3, <1>4, <1>5, <1>6, <1>7

\* The part of the types that relates the requests to their calls.
Queue ==
    /\ request \in [Request -> RequestRecord] /\ Requests
    /\ work \subseteq Call /\ Calls
    /\ \A q \in Request : request[q].pc = "wait" <=> \E w \in work : w.by = q

\* The types of the calls are part of the types.
LEMMA QueueOf == Types => Queue
  BY DEF Types, TypeOK, Queue

\* An answer ends its call and wakes the request that waits for it, if any.
LEMMA ReplyQueue ==
  ASSUME Queue, NEW w \in work, NEW a \in Answer, Reply(w, a)
  PROVE  Queue'
  <1> USE Constants
  <1>0. w \in Call /\ work' = work \ {w} /\ work' \subseteq Call BY DEF Queue, Reply
  <1>1. CASE w.by = None
    <2>1. request' = request BY <1>1 DEF Reply
    <2>2. \A p \in Request : (\E x \in work : x.by = p) <=> \E x \in work' : x.by = p
      BY <1>0, <1>1
    <2> QED BY <1>0, <2>1, <2>2 DEF Queue, Requests, Calls
  <1>2. CASE w.by # None
    <2>q. PICK q \in Request : q = w.by BY <1>0, <1>2 DEF Call
    <2> DEFINE r == [request[q] EXCEPT !.pc = "update", !.answer = a]
    <2>1. request' = [request EXCEPT ![q] = r] BY <1>2, <2>q DEF Reply, Queue
    <2>2. request[q].pc = "wait" /\ Well(request[q]) BY <2>q DEF Queue, Requests
    <2>3. Well(r) /\ r.pc = "update" BY <2>2 DEF Well, RequestRecord
    <2> HIDE DEF r
    <2>4. /\ Requests' /\ request' \in [Request -> RequestRecord] /\ request'[q] = r
          /\ \A p \in Request : p # q => request'[p] = request[p]
      BY <2>1, <2>3, OneRequest DEF Queue
    <2>5. \A x \in work' : x \in work /\ x.by # q BY <1>0, <1>2, <2>q DEF Queue, Calls
    <2>6. \A x \in work' : x.by # None => x.by \in Request /\ request'[x.by] = request[x.by]
      BY <1>0, <2>4, <2>5 DEF Call
    <2>7. Calls' BY <2>5, <2>6 DEF Queue, Calls
    <2>8. \A p \in Request : request'[p].pc = "wait" <=> \E x \in work' : x.by = p
      <3> SUFFICES ASSUME NEW p \in Request
                   PROVE  request'[p].pc = "wait" <=> \E x \in work' : x.by = p
        OBVIOUS
      <3>1. CASE p = q BY <2>3, <2>4, <2>5, <3>1
      <3>2. CASE p # q BY <1>0, <2>q, <2>4, <3>2 DEF Queue
      <3> QED BY <3>1, <3>2
    <2> QED BY <1>0, <2>4, <2>7, <2>8 DEF Queue
  <1> QED BY <1>1, <1>2

\* The requests and the calls change as Queue allows, the rest of the types is shown apart.
LEMMA TypesFrom ==
  ASSUME Queue', Fresh', session' \in [Session -> SessionRecord],
         advert' \in [Supervisor -> [Session -> AdvertRecord]],
         helper' \subseteq Supervisor \X Session,
         file' \in [Supervisor \X Session -> Identity \cup {None}],
         seen' \subseteq Identity, raced' \subseteq Supervisor \X Session, ops' \in 0..MaxOps
  PROVE  Types'
  BY DEF Queue, Types, TypeOK

\* Making a call and giving up on it keeps the types.
LEMMA TypesCalls ==
  ASSUME Types, NEW q \in Request, (\E v \in Supervisor : CallSupervisor(q, v)) \/ CallFails(q)
  PROVE  Types'
  <1> USE Constants
  <1>0. Queue /\ TypeOK /\ Well(request[q]) BY QueueOf DEF Types, Requests
  <1>1. ASSUME NEW v \in Supervisor, CallSupervisor(q, v) PROVE Types'
    <2> DEFINE r == [request[q] EXCEPT !.pc = "wait", !.sup = v, !.todo = @ \ {v}]
               w == [kind |-> Kind(request[q].op), sup |-> v, session |-> request[q].session, by |-> q]
    <2>1. request' = [request EXCEPT ![q] = r] BY <1>0, <1>1 DEF CallSupervisor, Queue
    <2>2. request[q].pc = "next" /\ request[q].session \in Session
      BY <1>0, <1>1 DEF CallSupervisor, Well
    <2>3. Well(r) /\ r.pc = "wait" /\ r.sup = v BY <1>0, <2>2 DEF Well, RequestRecord
    <2>4. Kind(request[q].op) \in {"start", "stop", "status"} BY DEF Kind
    <2>5. w \in Call /\ w.by = q /\ w.sup = v BY <2>2, <2>4 DEF Call
    <2>6. work' = work \cup {w} BY <1>1 DEF CallSupervisor
    <2> HIDE DEF r, w
    <2>7. /\ Requests' /\ request' \in [Request -> RequestRecord] /\ request'[q] = r
          /\ \A p \in Request : p # q => request'[p] = request[p]
      BY <1>0, <2>1, <2>3, OneRequest DEF Queue
    <2>8. \A x \in work : x.by # q BY <1>0, <2>2 DEF Queue
    <2>9. \A x \in work : x.by # None => x.by \in Request /\ request'[x.by] = request[x.by]
      BY <1>0, <2>7, <2>8 DEF Queue, Call
    <2>10. Calls' BY <1>0, <2>3, <2>5, <2>6, <2>7, <2>8, <2>9 DEF Queue, Calls
    <2>11. \A p \in Request : request'[p].pc = "wait" <=> \E x \in work' : x.by = p
      BY <1>0, <2>3, <2>5, <2>6, <2>7 DEF Queue
    <2>12. Queue' BY <1>0, <2>5, <2>6, <2>7, <2>10, <2>11 DEF Queue
    <2>13. UNCHANGED <<session, advert, helper, file, seen, raced, ops>>
      BY <1>1 DEF CallSupervisor, supervisors
    <2> QED BY <2>12, <2>13, TypesFrom DEF Types, TypeOK, Fresh
  <1>2. CASE CallFails(q)
    <2> DEFINE r == [request[q] EXCEPT !.pc = "update", !.answer = Failed]
    <2>1. request' = [request EXCEPT ![q] = r] BY <1>0, <1>2 DEF CallFails, Queue
    <2>2. request[q].pc = "wait" BY <1>2 DEF CallFails
    <2>3. Well(r) /\ r.pc = "update" BY <1>0, <2>2, FailedType DEF Well, RequestRecord
    <2> HIDE DEF r
    <2>4. /\ Requests' /\ request' \in [Request -> RequestRecord] /\ request'[q] = r
          /\ \A p \in Request : p # q => request'[p] = request[p]
      BY <1>0, <2>1, <2>3, OneRequest DEF Queue
    <2>5. work' \subseteq Call /\ \A x \in work' : x.by # q /\ (x.by # None => x \in work)
      <3>1. CASE work' = {w \in work : w.by # q} BY <1>0, <3>1 DEF Queue
      <3>2. CASE work' = {IF w.by = q THEN [w EXCEPT !.by = None] ELSE w : w \in work}
        <4>1. ASSUME NEW x \in work' PROVE x \in Call /\ x.by # q /\ (x.by # None => x \in work)
          <5>1. PICK w \in work : x = IF w.by = q THEN [w EXCEPT !.by = None] ELSE w BY <3>2
          <5>2. w \in Call BY <1>0 DEF Queue
          <5> QED BY <5>1, <5>2 DEF Call
        <4> QED BY <4>1
      <3> QED BY <1>2, <3>1, <3>2 DEF CallFails
    <2>6. \A x \in work : x.by # q => x \in work'
      <3> SUFFICES ASSUME NEW x \in work, x.by # q PROVE x \in work' OBVIOUS
      <3>1. x = IF x.by = q THEN [x EXCEPT !.by = None] ELSE x OBVIOUS
      <3> QED BY <1>2, <3>1 DEF CallFails
    <2>7. \A x \in work' : x.by # None => x.by \in Request /\ request'[x.by] = request[x.by]
      BY <1>0, <2>4, <2>5 DEF Queue, Call
    <2>8. Calls' BY <1>0, <2>5, <2>7 DEF Queue, Calls
    <2>9. \A p \in Request : request'[p].pc = "wait" <=> \E x \in work' : x.by = p
      BY <1>0, <2>3, <2>4, <2>5, <2>6 DEF Queue
    <2>10. Queue' BY <2>4, <2>5, <2>8, <2>9 DEF Queue
    <2>11. UNCHANGED <<session, advert, helper, file, seen, raced>> /\ ops' \in 0..MaxOps
      BY <1>0, <1>2, OpsType DEF CallFails, supervisors
    <2> QED BY <2>10, <2>11, TypesFrom DEF Types, TypeOK, Fresh
  <1> QED BY <1>1, <1>2

\* Marking the adverts that ran out changes no identity and no advert of a live session.
LEMMA MarkedType ==
  ASSUME TypeOK, NEW v \in Supervisor
  PROVE  /\ Marked(v) \in [Session -> AdvertRecord]
         /\ \A s \in Session : /\ Marked(v)[s].identity = advert[v][s].identity
                               /\ Marked(v)[s].status \in Alive => Marked(v)[s] = advert[v][s]
                               /\ session[s].live => Marked(v)[s] = advert[v][s]
  <1>1. ASSUME NEW s \in Session
        PROVE  /\ Marked(v)[s] \in AdvertRecord
               /\ Marked(v)[s].identity = advert[v][s].identity
               /\ Marked(v)[s].status \in Alive => Marked(v)[s] = advert[v][s]
               /\ session[s].live => Marked(v)[s] = advert[v][s]
    <2>1. advert[v][s] \in AdvertRecord BY DEF TypeOK
    <2>2. Marked(v)[s] = IF advert[v][s].status # "none" /\ ~session[s].live
                         THEN [advert[v][s] EXCEPT !.status = "expired"] ELSE advert[v][s]
      BY DEF Marked
    <2> QED BY <2>1, <2>2 DEF AdvertRecord, Alive
  <1>2. Marked(v) = [s \in Session |-> Marked(v)[s]] BY DEF Marked
  <1> QED BY <1>1, <1>2

\* A refresh never brings a dead advert back.
LEMMA RefreshedType ==
  ASSUME TypeOK, NEW v \in Supervisor, NEW s \in Session
  PROVE  /\ Refreshed(v, s) \in AdvertRecord
         /\ Refreshed(v, s).status \in Alive => advert[v][s].status \in Alive
  <1>1. advert[v][s] \in AdvertRecord /\ file[<<v, s>>] \in Identity \cup {None} BY DEF TypeOK
  <1> QED BY <1>1 DEF Refreshed, AdvertRecord, Alive

\* What a supervisor reports of an advert is an answer.
LEMMA PayloadType == \A a \in AdvertRecord : Payload(a) \in Answer
  BY DEF Payload, AdvertRecord, Answer, Alive, Dead

\* The supervisors' handlers keep the types.
LEMMA TypesSupervisor ==
  ASSUME Types, NEW w \in Call,
         \/ Refuse(w) \/ StartAdvert(w) \/ Status(w) \/ Stop(w)
         \/ \E ok \in BOOLEAN : HelperStarts(w, ok)
  PROVE  Types'
  <1> USE Constants
  <1>0. Queue /\ TypeOK /\ w \in work /\ w.sup \in Supervisor /\ w.session \in Session
    BY QueueOf DEF Types, Call, Refuse, StartAdvert, Status, Stop, HelperStarts
  <1>1. CASE Refuse(w)
    <2>1. Queue' BY <1>0, <1>1, FailedType, ReplyQueue DEF Refuse
    <2>2. UNCHANGED <<session, advert, helper, file, seen, raced, ops>>
      BY <1>1 DEF Refuse, supervisors
    <2> QED BY <2>1, <2>2, TypesFrom DEF Types, TypeOK, Fresh
  <1>2. CASE StartAdvert(w)
    <2>1. Queue'
      <3>1. CASE Reply(w, Failed) BY <1>0, <3>1, FailedType, ReplyQueue
      <3>2. CASE request' = request /\ work' = (work \ {w}) \cup {[w EXCEPT !.kind = "begun"]}
        <4> DEFINE x == [w EXCEPT !.kind = "begun"]
        <4>1. x \in Call /\ x.by = w.by /\ x.sup = w.sup BY DEF Call
        <4>2. work' = (work \ {w}) \cup {x} BY <3>2
        <4> HIDE DEF x
        <4>3. work' \subseteq Call BY <1>0, <4>1, <4>2 DEF Queue
        <4>4. Calls' BY <1>0, <3>2, <4>1, <4>2 DEF Queue, Calls
        <4>5. \A p \in Request : (\E y \in work : y.by = p) <=> \E y \in work' : y.by = p
          BY <1>0, <4>1, <4>2
        <4> QED BY <1>0, <3>2, <4>3, <4>4, <4>5 DEF Queue, Requests
      <3> QED BY <1>2, <3>1, <3>2 DEF StartAdvert
    <2>2. advert' \in [Supervisor -> [Session -> AdvertRecord]]
      BY <1>0, <1>2, MarkedType DEF StartAdvert, TypeOK
    <2>3. raced' \subseteq Supervisor \X Session BY <1>0, <1>2 DEF StartAdvert, TypeOK
    <2>4. UNCHANGED <<session, helper, file, seen, ops>> BY <1>2 DEF StartAdvert
    <2> QED BY <2>1, <2>2, <2>3, <2>4, TypesFrom DEF Types, TypeOK, Fresh
  <1>3. CASE Status(w)
    <2>1. Refreshed(w.sup, w.session) \in AdvertRecord BY <1>0, RefreshedType
    <2>2. Queue' BY <1>0, <1>3, <2>1, PayloadType, ReplyQueue DEF Status
    <2>3. advert' \in [Supervisor -> [Session -> AdvertRecord]]
      BY <1>0, <1>3, <2>1 DEF Status, TypeOK
    <2>4. UNCHANGED <<session, helper, file, seen, raced, ops>> BY <1>3 DEF Status
    <2> QED BY <2>2, <2>3, <2>4, TypesFrom DEF Types, TypeOK, Fresh
  <1>4. CASE Stop(w)
    <2> DEFINE a == IF advert[w.sup][w.session].status = "none" THEN NoAdvert
                    ELSE [advert[w.sup][w.session] EXCEPT !.status = "stopped"]
    <2>0. advert[w.sup][w.session] \in AdvertRecord BY <1>0 DEF TypeOK
    <2>1. a \in AdvertRecord BY <2>0 DEF NoAdvert, AdvertRecord
    <2>2. /\ advert' = [advert EXCEPT ![w.sup][w.session] = a]
          /\ Reply(w, [status |-> "stopped", identity |-> a.identity])
          /\ helper' \subseteq helper
      BY <1>4 DEF Stop
    <2> HIDE DEF a
    <2>3. [status |-> "stopped", identity |-> a.identity] \in Answer
      BY <2>1 DEF Answer, AdvertRecord, Dead
    <2>4. Queue' BY <1>0, <2>2, <2>3, ReplyQueue
    <2>5. advert' \in [Supervisor -> [Session -> AdvertRecord]] BY <1>0, <2>1, <2>2 DEF TypeOK
    <2>6. UNCHANGED <<session, file, seen, raced, ops>> BY <1>4 DEF Stop
    <2> QED BY <2>2, <2>4, <2>5, <2>6, TypesFrom DEF Types, TypeOK, Fresh
  <1>5. ASSUME NEW ok \in BOOLEAN, HelperStarts(w, ok) PROVE Types'
    <2> DEFINE a == [status |-> IF ok THEN "advertising" ELSE "failed", identity |-> None]
               b == IF ok THEN [status |-> "advertising", identity |-> None] ELSE Failed
    <2>1. a \in AdvertRecord /\ b \in Answer BY FailedType DEF AdvertRecord, Answer, Alive
    <2>2. advert' = [advert EXCEPT ![w.sup][w.session] = a] /\ Reply(w, b)
      BY <1>5 DEF HelperStarts
    <2> HIDE DEF a, b
    <2>3. Queue' BY <1>0, <2>1, <2>2, ReplyQueue
    <2>4. advert' \in [Supervisor -> [Session -> AdvertRecord]] BY <1>0, <2>1, <2>2 DEF TypeOK
    <2>5. <<w.sup, w.session>> \in Supervisor \X Session BY <1>0
    <2>6. helper' \subseteq Supervisor \X Session BY <1>0, <1>5, <2>5 DEF HelperStarts, TypeOK
    <2>7. file' \in [Supervisor \X Session -> Identity \cup {None}]
      BY <1>0, <1>5 DEF HelperStarts, TypeOK
    <2>8. ops' \in 0..MaxOps BY <1>0, <1>5, OpsType DEF HelperStarts, TypeOK
    <2>9. UNCHANGED <<session, seen, raced>> BY <1>5 DEF HelperStarts
    <2> QED BY <2>3, <2>4, <2>6, <2>7, <2>8, <2>9, TypesFrom DEF Types, TypeOK, Fresh
  <1> QED BY <1>1, <1>2, <1>3, <1>4, <1>5

\* Every step keeps the types.
LEMMA TypesNext == Types /\ [Next]_vars => Types'
  <1> SUFFICES ASSUME Types, [Next]_vars PROVE Types' OBVIOUS
  <1> USE Constants
  <1>0. Queue /\ TypeOK /\ Fresh BY QueueOf DEF Types
  <1>1. ASSUME NEW s \in Session, Lapse(s) PROVE Types'
    <2> DEFINE y == [session[s] EXCEPT !.live = FALSE]
    <2>1. session' = [session EXCEPT ![s] = y] /\ session[s].status # "none"
      BY <1>0, <1>1 DEF Lapse, TypeOK
    <2>0. session[s] \in SessionRecord BY <1>0 DEF TypeOK
    <2>2. y \in SessionRecord /\ y.status # "none" BY <2>0, <2>1 DEF SessionRecord
    <2> HIDE DEF y
    <2>3. session' \in [Session -> SessionRecord] /\ Fresh'
      BY <1>0, <2>1, <2>2, OneSession DEF TypeOK, Fresh
    <2>4. UNCHANGED <<request, work, advert, helper, file, seen, raced>> /\ ops' \in 0..MaxOps
      BY <1>0, <1>1, OpsType DEF Lapse, supervisors
    <2>5. Queue' BY <1>0, <2>4 DEF Queue, Requests, Calls
    <2> QED BY <2>3, <2>4, <2>5, TypesFrom DEF Types, TypeOK
  <1>2. ASSUME NEW v \in Supervisor, NEW s \in Session, NEW i \in Identity, WriteIdentity(v, s, i)
        PROVE  Types'
    <2>1. UNCHANGED <<session, request, work, advert, helper, raced>> /\ ops' \in 0..MaxOps
      BY <1>0, <1>2, OpsType DEF WriteIdentity
    <2>2. Queue' BY <1>0, <2>1 DEF Queue, Requests, Calls
    <2>3. file' \in [Supervisor \X Session -> Identity \cup {None}]
      BY <1>0, <1>2 DEF WriteIdentity, TypeOK
    <2>4. seen' \subseteq Identity BY <1>0, <1>2 DEF WriteIdentity, TypeOK, Identity
    <2> QED BY <2>1, <2>2, <2>3, <2>4, TypesFrom DEF Types, TypeOK, Fresh
  <1>3. ASSUME NEW v \in Supervisor, NEW s \in Session, NEW d \in Device, PostIdentity(v, s, d)
        PROVE  Types'
    <2>1. UNCHANGED <<session, request, work, helper, file, raced>> /\ ops' \in 0..MaxOps
      BY <1>0, <1>3, OpsType DEF PostIdentity
    <2>2. Queue' BY <1>0, <2>1 DEF Queue, Requests, Calls
    <2>3. <<d, s>> \in Identity BY DEF Identity
    <2>4. seen' \subseteq Identity BY <1>0, <1>3, <2>3 DEF PostIdentity, TypeOK
    <2>5. [status |-> "received", identity |-> <<d, s>>] \in AdvertRecord
      BY <2>3 DEF AdvertRecord, Alive
    <2>6. advert' \in [Supervisor -> [Session -> AdvertRecord]]
      BY <1>0, <1>3, <2>5 DEF PostIdentity, TypeOK
    <2> QED BY <2>1, <2>2, <2>4, <2>6, TypesFrom DEF Types, TypeOK, Fresh
  <1>4. ASSUME NEW h \in Supervisor \X Session, HelperExits(h) PROVE Types'
    <2>1. UNCHANGED <<session, request, work, advert, file, seen, raced>> /\ ops' \in 0..MaxOps
          /\ helper' \subseteq helper
      BY <1>0, <1>4, OpsType DEF HelperExits, TypeOK
    <2>2. Queue' BY <1>0, <2>1 DEF Queue, Requests, Calls
    <2> QED BY <2>1, <2>2, TypesFrom DEF Types, TypeOK, Fresh
  <1>5. ASSUME NEW v \in Supervisor, SupervisorRestarts(v) PROVE Types'
    <2>1. UNCHANGED <<session, file, seen, raced>> /\ ops' \in 0..MaxOps /\ helper' \subseteq helper
      BY <1>0, <1>5, OpsType DEF SupervisorRestarts
    <2>2. advert' \in [Supervisor -> [Session -> AdvertRecord]]
      BY <1>0, <1>5 DEF SupervisorRestarts, TypeOK, NoAdvert, AdvertRecord
    <2>3. work' = {w \in work : w.sup # v} BY <1>5 DEF SupervisorRestarts
    <2>4. \A q \in Request :
            request'[q] = IF request[q].pc = "wait" /\ request[q].sup = v
                          THEN [request[q] EXCEPT !.pc = "update", !.answer = Failed]
                          ELSE request[q]
      BY <1>5 DEF SupervisorRestarts
    <2>5. ASSUME NEW q \in Request
          PROVE  /\ Well(request'[q])
                 /\ request'[q].pc = "wait" <=> request[q].pc = "wait" /\ request[q].sup # v
                 /\ request'[q].pc = "wait" => request'[q] = request[q]
      <3>1. Well(request[q]) BY DEF Types, Requests
      <3> QED BY <2>4, <3>1, FailedType DEF Well, RequestRecord
    <2>6. request' \in [Request -> RequestRecord] /\ Requests'
      <3>1. request' = [q \in Request |-> request'[q]] BY <1>5 DEF SupervisorRestarts
      <3> QED BY <2>5, <3>1 DEF Requests, Well
    <2>7. \A w \in work : w.by # None => w.by \in Request BY <1>0 DEF Queue, Call
    <2>8. Calls' BY <1>0, <2>3, <2>5, <2>7 DEF Queue, Calls
    <2>9. \A q \in Request : request'[q].pc = "wait" <=> \E w \in work' : w.by = q
      BY <1>0, <2>3, <2>5, <2>7 DEF Queue, Calls
    <2>10. Queue' BY <1>0, <2>3, <2>6, <2>8, <2>9 DEF Queue
    <2> QED BY <2>1, <2>2, <2>10, TypesFrom DEF Types, TypeOK, Fresh
  <1>6. CASE Crash
    <2>1. UNCHANGED <<session, advert, helper, file, seen, raced>> /\ ops' \in 0..MaxOps
      BY <1>0, <1>6, OpsType DEF Crash, supervisors
    <2>2. request' = [q \in Request |-> Idle] /\ work' = {[w EXCEPT !.by = None] : w \in work}
      BY <1>6 DEF Crash
    <2>3. request' \in [Request -> RequestRecord] /\ Requests'
          /\ \A q \in Request : request'[q].pc # "wait"
      BY <2>2, IdleWell DEF Requests, Well
    <2>4. \A x \in work' : x \in Call /\ x.by = None
      <3> SUFFICES ASSUME NEW x \in work' PROVE x \in Call /\ x.by = None OBVIOUS
      <3>1. PICK w \in work : x = [w EXCEPT !.by = None] BY <2>2
      <3>2. w \in Call BY <1>0 DEF Queue
      <3> QED BY <3>1, <3>2 DEF Call
    <2>5. Queue' BY <2>3, <2>4 DEF Queue, Calls
    <2> QED BY <2>1, <2>5, TypesFrom DEF Types, TypeOK, Fresh
  <1>7. CASE UNCHANGED vars
    <2>1. Queue' BY <1>0, <1>7 DEF vars, Queue, Requests, Calls
    <2> QED BY <1>7, <2>1, TypesFrom DEF vars, Types, TypeOK, Fresh
  <1> QED
    BY <1>1, <1>2, <1>3, <1>4, <1>5, <1>6, <1>7, TypesCore, TypesCalls, TypesSupervisor DEF Next

-----------------------------------------------------------------------------
(* How a step changes each variable *)

\* What a step of Core may do to a session.  An identity comes from an answer, an approval
\* takes the device of the identity and is in time, and a lapsed session stays lapsed.
Moves(s) ==
    /\ session'[s].live => session[s].live
    /\ \/ session'[s].identity = session[s].identity
       \/ \E q \in Request : /\ session'[s].identity = request[q].answer.identity
                             /\ request[q].answer.identity # None
                             /\ request[q].answer.identity[2] = s
    /\ \/ session'[s].approved = session[s].approved
       \/ session[s].identity # None /\ session'[s].approved = session[s].identity[1]
    /\ session'[s].status = "approved" => session[s].status = "approved" \/ session[s].live

\* A session that is left alone makes an allowed move.
LEMMA MovesSame == ASSUME NEW s \in Session, session'[s] = session[s], Types PROVE Moves(s)
  <1>1. session[s].live \in BOOLEAN BY DEF Types, TypeOK, SessionRecord
  <1> QED BY <1>1 DEF Moves

\* So does one that expires.
LEMMA MovesExpired ==
  ASSUME NEW s \in Session, session'[s] = Expired(session[s]), Types
  PROVE  Moves(s)
  <1>1. session \in [Session -> SessionRecord] BY DEF Types, TypeOK
  <1> QED BY <1>1, Expiry DEF Moves

\* Every step moves a session in an allowed way.
LEMMA SessionStep ==
  ASSUME Types, [Next]_vars, NEW s \in Session
  PROVE  Moves(s)
  <1> USE Constants
  <1>0. /\ session \in [Session -> SessionRecord] /\ request \in [Request -> RequestRecord]
        /\ session[s] \in SessionRecord /\ Requests /\ Fresh
    BY DEF Types, TypeOK
  <1>1. CASE session' = session BY <1>1, MovesSame
  <1>2. CASE session' = ExpireOld BY <1>0, <1>2, Expiry, MovesExpired
  <1>3. ASSUME NEW q \in Request, NEW x \in Session, NEW C \in SUBSET Supervisor, NEW P \in SUBSET C,
               CreateSession(q, x, C, P)
        PROVE  Moves(s)
    <2> DEFINE a == IF P = {} THEN "failed" ELSE "waiting"
               b == [v \in Supervisor |-> IF v \in P THEN "pending"
                                          ELSE IF v \in C THEN "failed" ELSE "none"]
    <2>1. session' = [ExpireOld EXCEPT ![x].status = a, ![x].result = b] BY <1>3 DEF CreateSession
    <2>2. a # "approved" OBVIOUS
    <2> HIDE DEF a, b
    <2>3. ExpireOld \in [Session -> SessionRecord] /\ ExpireOld[s] = Expired(session[s])
      BY <1>0, Expiry
    <2>4. CASE s # x BY <2>1, <2>3, <2>4, MovesExpired
    <2>5. CASE s = x
      <3>1. session'[s] = [ExpireOld[s] EXCEPT !.status = a, !.result = b] BY <2>1, <2>3, <2>5
      <3>2. /\ session'[s].status = a /\ session'[s].live = ExpireOld[s].live
            /\ session'[s].identity = ExpireOld[s].identity
            /\ session'[s].approved = ExpireOld[s].approved
        BY <2>3, <3>1 DEF SessionRecord
      <3> QED BY <1>0, <2>2, <2>3, <3>2, Expiry DEF Moves
    <2> QED BY <2>4, <2>5
  <1>4. ASSUME NEW q \in Request, UpdateSupervisorResult(q) PROVE Moves(s)
    <2>w. Well(request[q]) BY <1>0 DEF Requests
    <2>x. PICK x \in Session : x = request[q].session BY <2>w, <1>4 DEF UpdateSupervisorResult, Well
    <2>v. PICK v \in Supervisor : v = request[q].sup BY <2>w, <1>4 DEF UpdateSupervisorResult, Well
    <2> DEFINE a == request[q].answer
               z == [session[x] EXCEPT !.result[v] = a.status]
               y == IF a.identity # None THEN ApplyIdentity(z, x, a.identity)
                    ELSE [z EXCEPT !.status = Verdict(z)]
    <2>1. session' = [session EXCEPT ![x] = y] BY <1>4, <2>x, <2>v DEF UpdateSupervisorResult
    <2>2. CASE s # x BY <1>0, <2>1, <2>2, MovesSame
    <2>3. CASE s = x
      <3>0. a \in Answer BY <2>w DEF Well, RequestRecord
      <3>1. /\ z \in SessionRecord /\ z.status = session[s].status /\ z.live = session[s].live
            /\ z.identity = session[s].identity /\ z.approved = session[s].approved
        BY <1>0, <2>3, <3>0 DEF SessionRecord, Answer
      <3>2. session'[s] = y BY <1>0, <2>1, <2>3
      <3> HIDE DEF z
      <3>3. CASE a.identity # None
        <4>1. /\ y.live = z.live /\ y.approved = z.approved
              /\ y.identity = z.identity \/ (y.identity = a.identity /\ a.identity[2] = s)
              /\ y.status = "approved" => z.status = "approved"
          BY <2>3, <3>1, <3>3 DEF ApplyIdentity, SessionRecord
        <4> HIDE DEF y
        <4> QED BY <3>1, <3>2, <3>3, <4>1 DEF Moves
      <3>4. CASE a.identity = None
        <4>1. y = [z EXCEPT !.status = Verdict(z)] BY <3>4
        <4>2. Verdict(z) = "approved" => z.status = "approved" BY DEF Verdict
        <4>3. /\ y.live = z.live /\ y.approved = z.approved /\ y.identity = z.identity
              /\ y.status = Verdict(z)
          BY <3>1, <4>1 DEF SessionRecord
        <4> HIDE DEF y
        <4> QED BY <3>1, <3>2, <4>2, <4>3 DEF Moves
      <3> QED BY <3>3, <3>4
    <2> QED BY <2>2, <2>3
  <1>5. ASSUME NEW q \in Request, Approve(q) PROVE Moves(s)
    <2>w. Well(request[q]) BY <1>0 DEF Requests
    <2>x. PICK x \in Session : x = request[q].session BY <1>5, <2>w DEF Approve, Well
    <2>1. \/ /\ session' = [session EXCEPT ![x].status = "approved", ![x].approved = request[q].device]
             /\ Expired(session[x]).status \notin {"expired", "canceled"}
             /\ session[x].identity # None /\ session[x].identity[1] = request[q].device
          \/ session' = [session EXCEPT ![x] = Expired(session[x])]
      BY <1>0, <1>5, <2>x, Expiry DEF Approve
    <2>2. CASE s # x BY <1>0, <2>1, <2>2, MovesSame
    <2>3. CASE s = x /\ session' = [session EXCEPT ![x] = Expired(session[x])]
      BY <1>0, <2>3, MovesExpired
    <2>4. CASE /\ s = x
               /\ session' = [session EXCEPT ![x].status = "approved", ![x].approved = request[q].device]
               /\ Expired(session[x]).status \notin {"expired", "canceled"}
               /\ session[x].identity # None /\ session[x].identity[1] = request[q].device
      <3>1. /\ session'[s].live = session[s].live /\ session'[s].identity = session[s].identity
            /\ session'[s].approved = session[s].identity[1]
        BY <1>0, <2>4 DEF SessionRecord
      <3>2. session[s].status # "none" BY <1>0, <2>4 DEF Fresh
      <3>3. session[s].live BY <1>0, <2>4, <3>2 DEF Expired, SessionRecord
      <3> QED BY <2>4, <3>1, <3>3 DEF Moves
    <2> QED BY <2>1, <2>2, <2>3, <2>4
  <1>6. ASSUME NEW q \in Request, Cancel(q) PROVE Moves(s)
    <2>w. Well(request[q]) BY <1>0 DEF Requests
    <2>x. PICK x \in Session : x = request[q].session BY <1>6, <2>w DEF Cancel, Well
    <2>1. session' = [session EXCEPT ![x].status = "canceled", ![x].canceled = TRUE]
      BY <1>6, <2>x DEF Cancel
    <2>2. CASE s # x BY <1>0, <2>1, <2>2, MovesSame
    <2>3. CASE s = x BY <1>0, <2>1, <2>3 DEF Moves, SessionRecord
    <2> QED BY <2>2, <2>3
  <1>7. ASSUME NEW x \in Session, Lapse(x) PROVE Moves(s)
    <2>1. session' = [session EXCEPT ![x].live = FALSE] BY <1>7 DEF Lapse
    <2>2. CASE s # x BY <1>0, <2>1, <2>2, MovesSame
    <2>3. CASE s = x BY <1>0, <1>7, <2>1, <2>3 DEF Moves, SessionRecord, Lapse
    <2> QED BY <2>2, <2>3
  <1> QED BY <1>1, <1>2, <1>3, <1>4, <1>5, <1>6, <1>7
      DEF Next, vars, Create, Reuse, Look, CallSupervisor, CallFails, Finish, Refuse, StartAdvert,
          Status, Stop, HelperStarts, WriteIdentity, PostIdentity, HelperExits, SupervisorRestarts,
          Crash

\* The steps of Core's handlers, the first disjunct of the next-state relation.
Handler(q) ==
    \/ \E s \in Session \cup {None} : Create(q, s)
    \/ Reuse(q)
    \/ \E s \in Session, C \in SUBSET Supervisor : \E P \in SUBSET C : CreateSession(q, s, C, P)
    \/ \E s \in Session : \/ Look(q, s, "refresh", None)
                          \/ Look(q, s, "cancel", None)
                          \/ \E d \in Device : Look(q, s, "approve", d)
    \/ \E v \in Supervisor : CallSupervisor(q, v)
    \/ CallFails(q) \/ UpdateSupervisorResult(q)
    \/ Approve(q) \/ Cancel(q) \/ Finish(q)

\* The steps of the supervisors' handlers.
Served(w) ==
    \/ Refuse(w) \/ StartAdvert(w) \/ Status(w) \/ Stop(w)
    \/ \E ok \in BOOLEAN : HelperStarts(w, ok)

\* The steps of Next, by the actor that takes them.
LEMMA NextCases ==
  [Next]_vars => \/ \E q \in Request : Handler(q)
                 \/ \E s \in Session : Lapse(s)
                 \/ \E w \in Call : Served(w)
                 \/ \E v \in Supervisor, s \in Session :
                      \/ \E i \in Identity : WriteIdentity(v, s, i)
                      \/ \E d \in Device : PostIdentity(v, s, d)
                 \/ \E h \in Supervisor \X Session : HelperExits(h)
                 \/ \E v \in Supervisor : SupervisorRestarts(v)
                 \/ Crash
                 \/ UNCHANGED vars
  BY DEF Next, Handler, Served

\* A handler of Core leaves the state of the supervisors alone.
LEMMA HandlerLeaves ==
  ASSUME NEW q \in Request, Handler(q)
  PROVE  UNCHANGED supervisors
  BY DEF Handler, Create, Reuse, CreateSession, Look, CallSupervisor, CallFails,
         UpdateSupervisorResult, Approve, Cancel, Finish

\* The histories only grow.
LEMMA HistoriesGrow ==
  ASSUME [Next]_vars
  PROVE  seen \subseteq seen' /\ raced \subseteq raced'
  <1>1. ASSUME NEW q \in Request, Handler(q) PROVE UNCHANGED <<seen, raced>>
    BY <1>1, HandlerLeaves DEF supervisors
  <1>2. ASSUME NEW w \in Call, Served(w) PROVE seen' = seen /\ raced \subseteq raced'
    <2>1. CASE Refuse(w) \/ Status(w) \/ Stop(w) BY <2>1 DEF Refuse, Status, Stop, supervisors
    <2>2. CASE StartAdvert(w) BY <2>2 DEF StartAdvert, supervisors
    <2>3. ASSUME NEW ok \in BOOLEAN, HelperStarts(w, ok)
          PROVE  seen' = seen /\ raced \subseteq raced'
      BY <2>3 DEF HelperStarts, supervisors
    <2> QED BY <1>2, <2>1, <2>2, <2>3 DEF Served
  <1>3. ASSUME NEW v \in Supervisor, NEW s \in Session,
               \/ \E i \in Identity : WriteIdentity(v, s, i)
               \/ \E d \in Device : PostIdentity(v, s, d)
        PROVE  seen \subseteq seen' /\ raced' = raced
    BY <1>3 DEF WriteIdentity, PostIdentity
  <1>4. CASE \/ \E s \in Session : Lapse(s)
             \/ \E h \in Supervisor \X Session : HelperExits(h)
             \/ \E v \in Supervisor : SupervisorRestarts(v)
             \/ Crash
             \/ UNCHANGED vars
    BY <1>4 DEF Lapse, HelperExits, SupervisorRestarts, Crash, supervisors, vars
  <1> QED BY <1>1, <1>2, <1>3, <1>4, NextCases

\* An answer carries the identity of an advert, or none.
Carried(q) ==
    \/ request'[q].answer.identity \in {None, request[q].answer.identity}
    \/ \E v \in Supervisor, s \in Session : request'[q].answer.identity = advert'[v][s].identity

\* The identity in an answer comes from the advert of the supervisor that was asked.
LEMMA AnswerStep ==
  ASSUME Types, [Next]_vars, NEW q \in Request
  PROVE  Carried(q)
  <1> USE Constants
  <1>0. /\ TypeOK /\ request \in [Request -> RequestRecord] /\ request[q] \in RequestRecord
        /\ Failed.identity = None /\ Idle.answer = Failed
        /\ advert \in [Supervisor -> [Session -> AdvertRecord]]
    BY DEF Types, TypeOK, Failed, Idle
  <1>1. ASSUME request'[q].answer \in {request[q].answer, Failed} PROVE Carried(q)
    BY <1>0, <1>1 DEF Carried
  <1>2. ASSUME NEW p \in Request, NEW r \in RequestRecord, r.answer \in {request[p].answer, Failed},
               request' = [request EXCEPT ![p] = r]
        PROVE  Carried(q)
    <2>1. request'[q].answer \in {request[q].answer, Failed} BY <1>0, <1>2
    <2> QED BY <1>1, <2>1
  <1>3. ASSUME NEW w \in Call, NEW a \in Answer, Reply(w, a),
               a.identity = None \/ \E v \in Supervisor, s \in Session : a.identity = advert'[v][s].identity
        PROVE  Carried(q)
    <2>1. request'[q] = request[q] \/ request'[q].answer = a
      BY <1>0, <1>3 DEF Reply, Call, RequestRecord
    <2> QED BY <1>3, <2>1 DEF Carried
  <1>4. ASSUME NEW p \in Request, Handler(p) PROVE Carried(q)
    <2>1. ASSUME NEW s \in Session \cup {None}, Create(p, s) PROVE Carried(q)
      <3>1. request'[q] = request[q] \/ request'[q].answer = Failed
        BY <1>0, <2>1 DEF Create, Idle
      <3> QED BY <1>1, <3>1
    <2>2. ASSUME NEW s \in Session, NEW C, NEW P, CreateSession(p, s, C, P) PROVE Carried(q)
      <3> DEFINE r == [Idle EXCEPT !.pc = "next", !.op = "open", !.session = s, !.todo = P]
      <3>0. r.answer = Failed BY DEF Idle
      <3>1. request' = [request EXCEPT ![p] = r] BY <2>2 DEF CreateSession
      <3> HIDE DEF r
      <3>2. request'[q] = request[q] \/ request'[q].answer = Failed BY <1>0, <3>0, <3>1
      <3> QED BY <1>1, <3>2
    <2>3. ASSUME NEW s \in Session, NEW op, NEW d, Look(p, s, op, d) PROVE Carried(q)
      <3>1. request'[q] = request[q] \/ request'[q].answer = Failed
        BY <1>0, <2>3 DEF Look, Idle
      <3> QED BY <1>1, <3>1
    <2>4. ASSUME NEW v \in Supervisor, CallSupervisor(p, v) PROVE Carried(q)
      <3>1. request'[q].answer = request[q].answer BY <1>0, <2>4 DEF CallSupervisor, RequestRecord
      <3> QED BY <1>1, <3>1
    <2>6. CASE CallFails(p) \/ UpdateSupervisorResult(p)
      <3>1. CASE q = p
        <4>1. request'[q].answer = Failed
          BY <1>0, <2>6, <3>1 DEF CallFails, UpdateSupervisorResult, RequestRecord
        <4> QED BY <1>1, <4>1
      <3>2. CASE q # p
        <4>1. request'[q] = request[q] BY <1>0, <2>6, <3>2 DEF CallFails, UpdateSupervisorResult
        <4> QED BY <1>1, <4>1
      <3> QED BY <3>1, <3>2
    <2>5. CASE Reuse(p) \/ Approve(p) \/ Cancel(p) \/ Finish(p)
      <3>1. request'[q] = request[q] \/ request'[q] = Idle
        BY <1>0, <2>5 DEF Reuse, Approve, Cancel, Finish
      <3> QED BY <1>0, <1>1, <3>1
    <2> QED BY <1>4, <2>1, <2>2, <2>3, <2>4, <2>5, <2>6 DEF Handler
  <1>5. ASSUME NEW w \in Call, Refuse(w) \/ StartAdvert(w) \/ (\E ok \in BOOLEAN : HelperStarts(w, ok))
        PROVE  Carried(q)
    <2>1. [status |-> "advertising", identity |-> None] \in Answer BY DEF Answer, Alive
    <2>2. \/ Reply(w, Failed) \/ request' = request
          \/ Reply(w, [status |-> "advertising", identity |-> None])
      BY <1>5 DEF Refuse, StartAdvert, HelperStarts
    <2> QED BY <1>0, <1>1, <1>3, <2>1, <2>2, FailedType
  <1>6. ASSUME NEW w \in Call, Status(w) PROVE Carried(q)
    <2> DEFINE a == Refreshed(w.sup, w.session)
    <2>0. w.sup \in Supervisor /\ w.session \in Session BY DEF Call
    <2>1. a \in AdvertRecord /\ Payload(a) \in Answer BY <1>0, <2>0, RefreshedType, PayloadType
    <2>2. Reply(w, Payload(a)) /\ advert' = [advert EXCEPT ![w.sup][w.session] = a]
      BY <1>6 DEF Status
    <2> HIDE DEF a
    <2>3. advert'[w.sup][w.session] = a BY <1>0, <2>0, <2>2
    <2>4. Payload(a).identity = None \/ Payload(a).identity = a.identity BY DEF Payload
    <2> QED BY <1>3, <2>0, <2>1, <2>2, <2>3, <2>4
  <1>7. ASSUME NEW w \in Call, Stop(w) PROVE Carried(q)
    <2> DEFINE a == IF advert[w.sup][w.session].status = "none" THEN NoAdvert
                    ELSE [advert[w.sup][w.session] EXCEPT !.status = "stopped"]
               b == [status |-> "stopped", identity |-> a.identity]
    <2>0. w.sup \in Supervisor /\ w.session \in Session BY DEF Call
    <2>1. advert[w.sup][w.session] \in AdvertRecord BY <1>0, <2>0
    <2>2. a \in AdvertRecord BY <2>1 DEF NoAdvert, AdvertRecord
    <2>3. Reply(w, b) /\ advert' = [advert EXCEPT ![w.sup][w.session] = a] BY <1>7 DEF Stop
    <2> HIDE DEF a
    <2>4. advert'[w.sup][w.session] = a BY <1>0, <2>0, <2>3
    <2>5. b \in Answer /\ b.identity = a.identity BY <2>2 DEF Answer, AdvertRecord, Dead
    <2> QED BY <1>3, <2>0, <2>3, <2>4, <2>5
  <1>8. ASSUME NEW v \in Supervisor, SupervisorRestarts(v) PROVE Carried(q)
    <2>1. request'[q].answer \in {request[q].answer, Failed}
      BY <1>0, <1>8 DEF SupervisorRestarts, RequestRecord
    <2> QED BY <1>1, <2>1
  <1>9. CASE Crash
    <2>1. request'[q].answer = Failed BY <1>0, <1>9 DEF Crash
    <2> QED BY <1>1, <2>1
  <1>10. CASE request' = request BY <1>1, <1>10
  <1>11. ASSUME NEW w \in Call, Served(w) PROVE Carried(q) BY <1>5, <1>6, <1>7, <1>11 DEF Served
  <1>12. \/ request' = request \/ Crash \/ \E v \in Supervisor : SupervisorRestarts(v)
         \/ \E p \in Request : Handler(p)
         \/ \E w \in Call : Served(w)
    BY NextCases DEF vars, Lapse, WriteIdentity, PostIdentity, HelperExits
  <1> QED BY <1>4, <1>8, <1>9, <1>10, <1>11, <1>12

\* An advert takes the identity of its file, if that names its session, or one that was
\* posted to it.  The file has what an endpoint wrote.
Taken(v, s) ==
    \/ advert'[v][s].identity \in {None, advert[v][s].identity}
    \/ advert'[v][s].identity = file[<<v, s>>] /\ file[<<v, s>>][2] = s
    \/ advert'[v][s].identity \in seen'

Written(v, s) ==
    \/ file'[<<v, s>>] \in {None, file[<<v, s>>]}
    \/ file'[<<v, s>>][2] = s => file'[<<v, s>>] \in seen'

\* The identity of an advert comes from its file or is posted by the device.
LEMMA AdvertStep ==
  ASSUME Types, [Next]_vars, NEW v \in Supervisor, NEW s \in Session
  PROVE  Taken(v, s) /\ Written(v, s)
  <1> USE Constants
  <1>0. /\ TypeOK /\ advert \in [Supervisor -> [Session -> AdvertRecord]]
        /\ advert[v][s] \in AdvertRecord /\ <<v, s>> \in Supervisor \X Session
        /\ file \in [Supervisor \X Session -> Identity \cup {None}]
    BY DEF Types, TypeOK
  <1>1. ASSUME NEW w \in Call, StartAdvert(w) PROVE Taken(v, s) /\ Written(v, s)
    <2>1. w.sup \in Supervisor /\ file' = file BY <1>1 DEF Call, StartAdvert
    <2>2. advert' = [advert EXCEPT ![w.sup] = Marked(w.sup)] BY <1>1 DEF StartAdvert
    <2>3. advert'[v][s] = advert[v][s] \/ advert'[v][s] = Marked(v)[s] BY <1>0, <2>1, <2>2
    <2> QED BY <1>0, <2>1, <2>3, MarkedType DEF Taken, Written
  <1>2. ASSUME NEW w \in Call, NEW a, advert' = [advert EXCEPT ![w.sup][w.session] = a]
        PROVE  advert'[v][s] = advert[v][s] \/ (advert'[v][s] = a /\ v = w.sup /\ s = w.session)
    BY <1>0, <1>2 DEF Call
  <1>3. ASSUME NEW w \in Call, NEW ok \in BOOLEAN, HelperStarts(w, ok) PROVE Taken(v, s) /\ Written(v, s)
    <2>1. advert' = [advert EXCEPT ![w.sup][w.session] =
                       [status |-> IF ok THEN "advertising" ELSE "failed", identity |-> None]]
          /\ file' = [file EXCEPT ![<<w.sup, w.session>>] = None]
      BY <1>3 DEF HelperStarts
    <2>2. Taken(v, s) BY <1>2, <2>1 DEF Taken
    <2>3. Written(v, s) BY <1>0, <2>1 DEF Written
    <2> QED BY <2>2, <2>3
  <1>4. ASSUME NEW w \in Call, Status(w) PROVE Taken(v, s) /\ Written(v, s)
    <2>1. /\ advert' = [advert EXCEPT ![w.sup][w.session] = Refreshed(w.sup, w.session)]
          /\ file' = file
      BY <1>4 DEF Status
    <2>2. Refreshed(v, s).identity = advert[v][s].identity
          \/ (Refreshed(v, s).identity = file[<<v, s>>] /\ file[<<v, s>>][2] = s)
      BY <1>0 DEF Refreshed, AdvertRecord
    <2>3. advert'[v][s] = advert[v][s] \/ advert'[v][s] = Refreshed(v, s) BY <1>2, <2>1
    <2> QED BY <2>1, <2>2, <2>3 DEF Taken, Written
  <1>5. ASSUME NEW w \in Call, Stop(w) PROVE Taken(v, s) /\ Written(v, s)
    <2> DEFINE a == IF advert[w.sup][w.session].status = "none" THEN NoAdvert
                    ELSE [advert[w.sup][w.session] EXCEPT !.status = "stopped"]
    <2>1. advert' = [advert EXCEPT ![w.sup][w.session] = a] /\ file' = file BY <1>5 DEF Stop
    <2>2. v = w.sup /\ s = w.session => a.identity \in {None, advert[v][s].identity}
      BY <1>0 DEF NoAdvert, AdvertRecord
    <2> HIDE DEF a
    <2> QED BY <1>2, <2>1, <2>2 DEF Taken, Written
  <1>6. ASSUME NEW u \in Supervisor, NEW x \in Session, NEW i \in Identity, WriteIdentity(u, x, i)
        PROVE  Taken(v, s) /\ Written(v, s)
    <2>1. advert' = advert /\ file' = [file EXCEPT ![<<u, x>>] = i] BY <1>6 DEF WriteIdentity
    <2>2. i = <<i[1], i[2]>> BY DEF Identity
    <2>3. i[2] = x => i \in seen' BY <1>6, <2>2 DEF WriteIdentity
    <2>4. Written(v, s)
      <3>1. CASE <<u, x>> = <<v, s>> BY <1>0, <2>1, <2>3, <3>1 DEF Written
      <3>2. CASE <<u, x>> # <<v, s>> BY <1>0, <2>1, <3>2 DEF Written
      <3> QED BY <3>1, <3>2
    <2> QED BY <2>1, <2>4 DEF Taken, Written
  <1>7. ASSUME NEW u \in Supervisor, NEW x \in Session, NEW d \in Device, PostIdentity(u, x, d)
        PROVE  Taken(v, s) /\ Written(v, s)
    <2>1. /\ advert' = [advert EXCEPT ![u][x] = [status |-> "received", identity |-> <<d, x>>]]
          /\ file' = file /\ <<d, x>> \in seen'
      BY <1>7 DEF PostIdentity
    <2>2. advert'[v][s] = advert[v][s] \/ advert'[v][s].identity = <<d, x>> BY <1>0, <2>1
    <2> QED BY <2>1, <2>2 DEF Taken, Written
  <1>8. ASSUME NEW u \in Supervisor, SupervisorRestarts(u) PROVE Taken(v, s) /\ Written(v, s)
    BY <1>0, <1>8 DEF SupervisorRestarts, NoAdvert, Taken, Written
  <1>9. CASE UNCHANGED <<advert, file>> BY <1>9 DEF Taken, Written
  <1>10. ASSUME NEW w \in Call, Served(w), ~Refuse(w) PROVE Taken(v, s) /\ Written(v, s)
    BY <1>1, <1>3, <1>4, <1>5, <1>10 DEF Served
  <1>11. \/ UNCHANGED <<advert, file>>
         \/ \E w \in Call : Served(w) /\ ~Refuse(w)
         \/ \E u \in Supervisor, x \in Session : \/ \E i \in Identity : WriteIdentity(u, x, i)
                                              \/ \E d \in Device : PostIdentity(u, x, d)
         \/ \E u \in Supervisor : SupervisorRestarts(u)
    BY NextCases, HandlerLeaves DEF vars, supervisors, Lapse, Refuse, HelperExits, Crash
  <1> QED BY <1>6, <1>7, <1>8, <1>9, <1>10, <1>11

-----------------------------------------------------------------------------
(* An approved device was seen *)

\* The way of an identity, from the file of an advert or a post to it, through an answer
\* to the session: at every station it is one that was given to the session's adverts.
Seen ==
    /\ \A v \in Supervisor, s \in Session :
         /\ file[<<v, s>>] # None /\ file[<<v, s>>][2] = s => file[<<v, s>>] \in seen
         /\ advert[v][s].identity # None => advert[v][s].identity \in seen
    /\ \A q \in Request : request[q].answer.identity # None => request[q].answer.identity \in seen
    /\ \A s \in Session :
         session[s].identity # None => session[s].identity \in seen /\ session[s].identity[2] = s

\* Nothing is seen or approved at the start.
LEMMA SeenInit == Init => Seen /\ ApprovedWasSeen
  BY DEF Init, Seen, ApprovedWasSeen, NoAdvert, Idle, Failed

\* Every step keeps that whatever is carried was seen, and so is what is approved.
LEMMA SeenNext == Types /\ Seen /\ ApprovedWasSeen /\ [Next]_vars => (Seen /\ ApprovedWasSeen)'
  <1> SUFFICES ASSUME Types, Seen, ApprovedWasSeen, [Next]_vars PROVE (Seen /\ ApprovedWasSeen)'
    OBVIOUS
  <1>0. seen \subseteq seen' BY HistoriesGrow
  <1>1. ASSUME NEW v \in Supervisor, NEW s \in Session
        PROVE  /\ file'[<<v, s>>] # None /\ file'[<<v, s>>][2] = s => file'[<<v, s>>] \in seen'
               /\ advert'[v][s].identity # None => advert'[v][s].identity \in seen'
    BY <1>0, AdvertStep DEF Seen, Taken, Written
  <1>2. ASSUME NEW q \in Request, request'[q].answer.identity # None
        PROVE  request'[q].answer.identity \in seen'
    BY <1>0, <1>1, <1>2, AnswerStep DEF Seen, Carried
  <1>3. ASSUME NEW s \in Session
        PROVE  /\ session'[s].identity # None
                    => session'[s].identity \in seen' /\ session'[s].identity[2] = s
               /\ session'[s].approved # None => <<session'[s].approved, s>> \in seen'
    <2>0. Moves(s) BY SessionStep
    <2>1. session'[s].identity # None
            => session'[s].identity \in seen' /\ session'[s].identity[2] = s
      BY <1>0, <2>0 DEF Moves, Seen
    <2>2. CASE session'[s].approved = session[s].approved BY <1>0, <2>1, <2>2 DEF ApprovedWasSeen
    <2>3. CASE session[s].identity # None /\ session'[s].approved = session[s].identity[1]
      <3>1. session[s].identity \in seen /\ session[s].identity[2] = s BY <2>3 DEF Seen
      <3>2. session[s].identity \in Identity BY <3>1 DEF Types, TypeOK
      <3>3. session[s].identity = <<session'[s].approved, s>> BY <2>3, <3>1, <3>2 DEF Identity
      <3> QED BY <1>0, <3>1, <3>3, <2>1
    <2> QED BY <2>0, <2>1, <2>2, <2>3 DEF Moves
  <1> QED BY <1>1, <1>2, <1>3 DEF Seen, ApprovedWasSeen

-----------------------------------------------------------------------------
(* One advert per adapter *)

Begun(v, s) == \E w \in work : w.kind = "begun" /\ w.sup = v /\ w.session = s

\* The session takes the adapter, or is about to.
Busy(v, s) == (advert[v][s].status \in Alive /\ session[s].live) \/ Begun(v, s)

\* Two sessions take one adapter only if one of them raced.
Races ==
    \A v \in Supervisor : \A s, x \in Session :
        s # x /\ Busy(v, s) /\ Busy(v, x) => <<v, s>> \in raced \/ <<v, x>> \in raced

\* The only step that takes an adapter is the start that finds it free.
Takes(v, s) ==
    /\ ~Occupied(v, s)
    /\ (\E w \in work : w.kind = "begun" /\ w.sup = v) => <<v, s>> \in raced'
    /\ \A y \in Session \ {s} : Busy(v, y)' => Busy(v, y)

\* A supervisor becomes busy with a session only by taking its start.
LEMMA BusyStep ==
  ASSUME Types, [Next]_vars, NEW v \in Supervisor, NEW s \in Session, Busy(v, s)'
  PROVE  Busy(v, s) \/ Takes(v, s)
  <1> USE Constants
  <1>0. /\ TypeOK /\ advert \in [Supervisor -> [Session -> AdvertRecord]] /\ work \subseteq Call
        /\ advert[v][s] \in AdvertRecord /\ Moves(s) /\ request \in [Request -> RequestRecord]
    BY SessionStep DEF Types, TypeOK
  <1>1. ASSUME advert'[v][s].status \in Alive => advert[v][s].status \in Alive,
               \A w \in work' : w.kind = "begun" =>
                  \E x \in work : x.kind = "begun" /\ x.sup = w.sup /\ x.session = w.session
        PROVE  Busy(v, s)
    BY <1>0, <1>1 DEF Busy, Begun, Moves
  <1>2. ASSUME NEW q \in Request, NEW u \in Supervisor, CallSupervisor(q, u) PROVE Busy(v, s)
    <2>1. Kind(request[q].op) # "begun" BY DEF Kind
    <2> QED BY <1>1, <1>2, <2>1 DEF CallSupervisor, supervisors
  <1>3. ASSUME NEW q \in Request, CallFails(q) PROVE Busy(v, s)
    <2>1. ASSUME NEW w \in work'
          PROVE  \E x \in work : x.kind = w.kind /\ x.sup = w.sup /\ x.session = w.session
      <3>1. w \in work \/ \E x \in work : w = [x EXCEPT !.by = None] BY <1>3, <2>1 DEF CallFails
      <3> QED BY <1>0, <3>1 DEF Call
    <2> QED BY <1>1, <1>3, <2>1 DEF CallFails, supervisors
  <1>4. CASE Crash
    <2>1. ASSUME NEW w \in work'
          PROVE  \E x \in work : x.kind = w.kind /\ x.sup = w.sup /\ x.session = w.session
      <3>1. \E x \in work : w = [x EXCEPT !.by = None] BY <1>4, <2>1 DEF Crash
      <3> QED BY <1>0, <3>1 DEF Call
    <2> QED BY <1>1, <1>4, <2>1 DEF Crash, supervisors
  <1>5. ASSUME NEW w \in Call, Refuse(w) PROVE Busy(v, s)
    BY <1>1, <1>5 DEF Refuse, Reply, supervisors
  <1>6. ASSUME NEW w \in Call, StartAdvert(w) PROVE Busy(v, s) \/ Takes(v, s)
    <2>0. w.sup \in Supervisor BY DEF Call
    <2>1. advert' = [advert EXCEPT ![w.sup] = Marked(w.sup)] BY <1>6 DEF StartAdvert
    <2>2. \A y \in Session : advert'[v][y].status \in Alive => advert[v][y].status \in Alive
      BY <1>0, <2>0, <2>1, MarkedType
    <2>3. CASE Reply(w, Failed) BY <1>1, <2>2, <2>3 DEF Reply
    <2>4. CASE /\ ~Occupied(w.sup, w.session)
               /\ work' = (work \ {w}) \cup {[w EXCEPT !.kind = "begun"]}
               /\ raced' = IF \E x \in work : x.kind = "begun" /\ x.sup = w.sup
                           THEN raced \cup {<<w.sup, w.session>>} ELSE raced
      <3>1. ASSUME NEW y \in Session, ~(v = w.sup /\ y = w.session), Busy(v, y)' PROVE Busy(v, y)
        <4>1. Begun(v, y)' => Begun(v, y) BY <1>0, <2>4, <3>1 DEF Begun, Call
        <4>2. Moves(y) BY SessionStep
        <4> QED BY <2>2, <3>1, <4>1, <4>2 DEF Busy, Moves
      <3>2. CASE v = w.sup /\ s = w.session
        <4>1. \A y \in Session \ {s} : Busy(v, y)' => Busy(v, y) BY <3>1, <3>2
        <4>2. (\E x \in work : x.kind = "begun" /\ x.sup = v) => <<v, s>> \in raced'
          BY <2>4, <3>2
        <4> QED BY <2>4, <3>2, <4>1, <4>2 DEF Takes
      <3> QED BY <3>1, <3>2
    <2> QED BY <1>6, <2>3, <2>4 DEF StartAdvert
  <1>7. ASSUME NEW w \in Call, NEW a \in AdvertRecord, w \in work, work' = work \ {w},
               advert' = [advert EXCEPT ![w.sup][w.session] = a],
               w.kind # "begun" => (a.status \in Alive => advert[w.sup][w.session].status \in Alive)
        PROVE  Busy(v, s)
    <2>1. w.sup \in Supervisor /\ w.session \in Session BY DEF Call
    <2>2. CASE w.kind = "begun" /\ v = w.sup /\ s = w.session BY <1>7, <2>2 DEF Busy, Begun
    <2>3. CASE ~(w.kind = "begun" /\ v = w.sup /\ s = w.session)
      <3>1. advert'[v][s].status \in Alive => advert[v][s].status \in Alive
        BY <1>0, <1>7, <2>1, <2>3
      <3> QED BY <1>1, <1>7, <3>1
    <2> QED BY <2>2, <2>3
  <1>8. ASSUME NEW w \in Call, NEW ok \in BOOLEAN, HelperStarts(w, ok) PROVE Busy(v, s)
    <2> DEFINE a == [status |-> IF ok THEN "advertising" ELSE "failed", identity |-> None]
    <2>1. a \in AdvertRecord BY DEF AdvertRecord, Alive
    <2>2. /\ w \in work /\ work' = work \ {w} /\ w.kind = "begun"
          /\ advert' = [advert EXCEPT ![w.sup][w.session] = a]
      BY <1>8 DEF HelperStarts, Reply
    <2> HIDE DEF a
    <2> QED BY <1>7, <2>1, <2>2
  <1>9. ASSUME NEW w \in Call, Status(w) PROVE Busy(v, s)
    <2>1. /\ w \in work /\ work' = work \ {w}
          /\ advert' = [advert EXCEPT ![w.sup][w.session] = Refreshed(w.sup, w.session)]
      BY <1>9 DEF Status, Reply
    <2>2. w.sup \in Supervisor /\ w.session \in Session BY DEF Call
    <2> QED BY <1>0, <1>7, <2>1, <2>2, RefreshedType
  <1>10. ASSUME NEW w \in Call, Stop(w) PROVE Busy(v, s)
    <2> DEFINE a == IF advert[w.sup][w.session].status = "none" THEN NoAdvert
                    ELSE [advert[w.sup][w.session] EXCEPT !.status = "stopped"]
    <2>0. advert[w.sup][w.session] \in AdvertRecord BY <1>0 DEF Call
    <2>1. a \in AdvertRecord /\ a.status \notin Alive BY <2>0 DEF NoAdvert, AdvertRecord, Alive
    <2>2. /\ w \in work /\ work' = work \ {w}
          /\ advert' = [advert EXCEPT ![w.sup][w.session] = a]
      BY <1>10 DEF Stop, Reply
    <2> HIDE DEF a
    <2> QED BY <1>7, <2>1, <2>2
  <1>11. ASSUME NEW u \in Supervisor, NEW x \in Session, NEW d \in Device, PostIdentity(u, x, d)
         PROVE  Busy(v, s)
    <2>1. advert'[v][s].status \in Alive => advert[v][s].status \in Alive
      BY <1>0, <1>11 DEF PostIdentity
    <2> QED BY <1>1, <1>11, <2>1 DEF PostIdentity
  <1>12. ASSUME NEW u \in Supervisor, SupervisorRestarts(u) PROVE Busy(v, s)
    <2>1. advert'[v][s].status \in Alive => advert[v][s].status \in Alive
      BY <1>0, <1>12 DEF SupervisorRestarts, NoAdvert, Alive
    <2> QED BY <1>1, <1>12, <2>1 DEF SupervisorRestarts
  <1>13. CASE UNCHANGED <<advert, work>> BY <1>1, <1>13
  <1>14. ASSUME NEW q \in Request, Handler(q) PROVE Busy(v, s) \/ Takes(v, s)
    <2>1. advert' = advert BY <1>14, HandlerLeaves DEF supervisors
    <2>2. CASE \/ \E x \in Session \cup {None} : Create(q, x)
               \/ Reuse(q)
               \/ \E x \in Session, C \in SUBSET Supervisor :
                    \E P \in SUBSET C : CreateSession(q, x, C, P)
      BY <1>13, <2>1, <2>2 DEF Create, Reuse, CreateSession
    <2>3. ASSUME NEW x \in Session, NEW op, NEW d, Look(q, x, op, d)
          PROVE  Busy(v, s) \/ Takes(v, s)
      BY <1>13, <2>1, <2>3 DEF Look
    <2>4. CASE UpdateSupervisorResult(q) \/ Approve(q) \/ Cancel(q) \/ Finish(q)
      BY <1>13, <2>1, <2>4 DEF UpdateSupervisorResult, Approve, Cancel, Finish
    <2> QED BY <1>2, <1>3, <1>14, <2>2, <2>3, <2>4 DEF Handler
  <1>15. ASSUME NEW w \in Call, Served(w) PROVE Busy(v, s) \/ Takes(v, s)
    BY <1>15, <1>5, <1>6, <1>8, <1>9, <1>10 DEF Served
  <1>16. CASE \/ \E x \in Session : Lapse(x)
              \/ \E u \in Supervisor, x \in Session, i \in Identity : WriteIdentity(u, x, i)
              \/ \E h \in Supervisor \X Session : HelperExits(h)
              \/ UNCHANGED vars
    BY <1>13, <1>16 DEF Lapse, WriteIdentity, HelperExits, supervisors, vars
  <1> QED BY <1>4, <1>11, <1>12, <1>14, <1>15, <1>16, NextCases

\* Whoever takes an adapter finds nobody else on it, unless it is marked as racing.
LEMMA TakesAlone ==
  ASSUME Types, NEW v \in Supervisor, NEW s \in Session, NEW x \in Session, s # x,
         Takes(v, s), Busy(v, x)
  PROVE  <<v, s>> \in raced'
  <1>1. CASE Begun(v, x) BY <1>1 DEF Begun, Takes
  <1>2. CASE advert[v][x].status \in Alive /\ session[x].live
    <2>1. Marked(v)[x] = advert[v][x] BY <1>2, MarkedType DEF Types
    <2> QED BY <1>2, <2>1 DEF Takes, Occupied
  <1> QED BY <1>1, <1>2 DEF Busy

\* Every step keeps that two adverts at once are the doing of a race.
LEMMA RacesNext == Types /\ Races /\ [Next]_vars => Races'
  <1> SUFFICES ASSUME Types, Races, [Next]_vars, NEW v \in Supervisor, NEW s \in Session,
                      NEW x \in Session, s # x, Busy(v, s)', Busy(v, x)'
               PROVE  <<v, s>> \in raced' \/ <<v, x>> \in raced'
    BY DEF Races
  <1>0. raced \subseteq raced' BY HistoriesGrow
  <1>1. CASE Busy(v, s) /\ Busy(v, x) BY <1>0, <1>1 DEF Races
  <1>2. CASE Takes(v, s) BY <1>2, TakesAlone DEF Takes
  <1>3. CASE Takes(v, x) BY <1>3, TakesAlone DEF Takes
  <1> QED BY <1>1, <1>2, <1>3, BusyStep

-----------------------------------------------------------------------------
(* Theorems *)

\* In every reachable state each variable of Core and of the supervisors has its type, and
\* a request waits for a supervisor exactly as long as its call is in work: no answer,
\* timeout, restart or crash leaves a handler of Core waiting for a call that is gone.
THEOREM PairingTypes == Spec => []TypeOK
  <1>1. Types => TypeOK BY DEF Types
  <1> QED BY <1>1, TypesInit, TypesNext, PTL DEF Spec

\* The types hold in every state.
LEMMA AllTypes == Spec => []Types
  BY TypesInit, TypesNext, PTL DEF Spec

\* A device that Core approves for a pairing session has given its identity to an advert
\* of that very session, whatever identities other endpoints wrote and however late the
\* answers of the supervisors reach the session.
THEOREM ApprovedSeenTheorem == Spec => []ApprovedWasSeen
  BY AllTypes, SeenInit, SeenNext, PTL DEF Spec

\* Core approves no session after its expiry, though an answer that comes late may reopen
\* the session between the lookup of the approval and the approval itself.
THEOREM ApprovedInTimeTheorem == Spec => ApprovedInTime
  <1>1. Types /\ [Next]_vars
        => [\A s \in Session : session[s].status # "approved" /\ session'[s].status = "approved"
                              => session[s].live]_vars
    BY SessionStep DEF Moves
  <1> QED BY <1>1, AllTypes, PTL DEF Spec, ApprovedInTime

\* A supervisor advertises two live sessions on its adapter only if one of them was started
\* while the helper of another was being started, the one window that start_advert leaves.
THEOREM OneAdvertTheorem == Spec => []OneAdvert
  <1>1. Init => Races BY DEF Init, Races, Busy, Begun, NoAdvert, Alive
  <1>2. Races => OneAdvert BY DEF Races, OneAdvert, Busy
  <1> QED BY <1>1, <1>2, AllTypes, RacesNext, PTL DEF Spec

===============================================================================
