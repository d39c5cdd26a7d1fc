-------------------------- MODULE NodeTrustProofs --------------------------
(***************************************************************************)
(* Proofs about NodeTrust, for any sets of nodes, nonces, sessions and     *)
(* requests and any bounds.                                                *)
(***************************************************************************)
EXTENDS NodeTrust, TLAPS

-----------------------------------------------------------------------------
(* The inductive invariant *)

\* Sessions an operator approved.
Decided(s) == session[s].state \in {"approved", "consumed"}

\* Every session names a node.
SessionInv == \A s \in Sessions : session[s].state # "none" => session[s].node \in Nodes

\* What a registration object of node n rests on, in the store or held by a handler.
Backed(n, obj) ==
    /\ obj.source \in Sessions
    /\ Decided(obj.source)
    /\ session[obj.source].node = n
    /\ obj.status = "trusted" => trust[n].status # "none"

RegistrationInv ==
    /\ \A n \in Nodes : registration[n].status # "none" => Backed(n, registration[n])
    /\ \A s \in Sessions : registrationOf[s] # None =>
          Decided(s) /\ session[s].node = registrationOf[s]

TrustInv ==
    /\ \A n \in Nodes : trust[n].status = "none" => trust[n] = NoTrust
    /\ \A n \in Nodes : trust[n].status # "none" => trust[n].token # 0

\* Tokens are fresh when issued, and belong to one node.
TokenInv ==
    /\ \A n \in Nodes : trust[n].token < nextToken
    /\ \A n, m \in Nodes : trust[n].token # 0 /\ trust[n].token = trust[m].token => n = m

\* A request about to create a session owns its id.
CreateInv(q) ==
    request[q].pc = "create" =>
        /\ request[q].sid \in Sessions
        /\ request[q].node \in Nodes
        /\ session[request[q].sid].state = "none"
        /\ \A p \in Requests : p # q => request[p].sid # request[q].sid

RegisterInv(q) ==
    request[q].pc = "register" =>
        request[q].sid \in Onboarding /\ Decided(request[q].sid)

\* A finalizing request carries a token of the node it provisions, and the trust
\* record behind it exists.
FinalizeInv(q) ==
    request[q].pc \in {"principal", "password", "consume", "promote"} =>
        /\ request[q].sid \in Sessions
        /\ Decided(request[q].sid)
        /\ request[q].node \in Nodes
        /\ session[request[q].sid].node = request[q].node
        /\ trust[request[q].node].status # "none"
        /\ request[q].token # 0
        /\ request[q].token <= trust[request[q].node].token
        /\ \A m \in Nodes : trust[m].token = request[q].token => m = request[q].node

WriteInv(q) ==
    /\ request[q].pc \in {"remove", "rotate", "write"} => request[q].node \in Nodes
    /\ request[q].pc = "write" =>
          IF request[q].held = Shared
          THEN IsRegistered(request[q].node)
          ELSE request[q].held.status # "none" /\ Backed(request[q].node, request[q].held)

RequestInv == \A q \in Requests :
    CreateInv(q) /\ RegisterInv(q) /\ FinalizeInv(q) /\ WriteInv(q)

StoreInv == /\ SessionInv
            /\ TrustInv
            /\ TrustNeedsApproval
            /\ ReplayOnlyByIssuer
            /\ RegistrationInv
            /\ ConsumedAfterIssue

IndInv == TypeOK /\ StoreInv /\ TokenInv /\ CredentialIsOwn /\ RequestInv

-----------------------------------------------------------------------------
(* What a step may assume of, and must keep for, the others *)

\* Sessions never vanish, move to another node or lose an approval.
SessionRely ==
    /\ session' \in [Sessions -> SessionRecord]
    /\ \A s \in Sessions : session[s].state # "none" =>
          session'[s].state # "none" /\ session'[s].node = session[s].node
    /\ \A s \in Sessions : Decided(s) => Decided(s)'

\* Trust records never vanish, and move only to the fresh token.
TrustRely ==
    /\ trust' \in [Nodes -> TrustRecord]
    /\ \A n \in Nodes : trust[n].status # "none" => trust'[n].status # "none"
    /\ \A n \in Nodes : \/ trust'[n].token = trust[n].token
                        \/ trust'[n].token = nextToken

\* An idle slot is a well-typed request.
LEMMA IdleType == Idle \in RequestRecord
BY ConstantsAssumption DEF Idle, RequestRecord, NoRegistration, RegistrationRecord

\* expire_stale_sessions only turns pending sessions into expired ones.
LEMMA ExpireFacts ==
    ASSUME TypeOK, NEW S
    PROVE  /\ ExpireStale(S) \in [Sessions -> SessionRecord]
           /\ \A s \in Sessions :
                /\ ExpireStale(S)[s].node = session[s].node
                /\ \/ ExpireStale(S)[s].state = session[s].state
                   \/ session[s].state = "pending" /\ ExpireStale(S)[s].state = "expired"
BY DEF TypeOK, ExpireStale, SessionRecord, SessionStates

\* Detaching a registration object changes nothing of a request but what it holds.
LEMMA DetachFacts ==
    ASSUME TypeOK, NEW n \in Nodes
    PROVE  /\ Detach(n) \in [Requests -> RequestRecord]
           /\ \A q \in Requests :
                /\ Detach(n)[q].pc = request[q].pc
                /\ Detach(n)[q].op = request[q].op
                /\ Detach(n)[q].sid = request[q].sid
                /\ Detach(n)[q].node = request[q].node
                /\ Detach(n)[q].token = request[q].token
                /\ Detach(n)[q].held = IF request[q].pc = "write" /\ request[q].node = n /\ request[q].held = Shared
                                       THEN registration[n] ELSE request[q].held
BY DEF TypeOK, Detach, RequestRecord

\* A step on sessions keeps the invariant of the stores when it consumes only sessions
\* whose node has a trust record.
LEMMA StoreInvSession ==
    ASSUME IndInv, SessionRely, SessionInv',
           UNCHANGED <<trust, trustOf, registration, registrationOf>>,
           \A s \in Sessions : session'[s].state = "consumed" =>
               session[s].state = "consumed" \/ trust[session'[s].node].status # "none"
    PROVE  StoreInv'
<1>1. TrustInv'
  BY DEF IndInv, StoreInv, TrustInv, NoTrust
<1>2. TrustNeedsApproval'
  BY DEF IndInv, StoreInv, TrustNeedsApproval, SessionRely, Decided
<1>3. ReplayOnlyByIssuer'
  BY DEF IndInv, StoreInv, ReplayOnlyByIssuer
<1>4. RegistrationInv'
  BY DEF IndInv, StoreInv, RegistrationInv, SessionRely, Backed, Decided
<1>5. ConsumedAfterIssue'
  BY DEF IndInv, StoreInv, ConsumedAfterIssue, SessionRely
<1> QED BY <1>1, <1>2, <1>3, <1>4, <1>5 DEF StoreInv

\* A request that another one's step leaves alone keeps its invariants.
LEMMA KeepRequest ==
    ASSUME IndInv, SessionRely, TrustRely, nextToken' \in Nat,
           NEW p \in Requests, request'[p] = request[p],
           request[p].pc = "create" =>
               /\ session'[request[p].sid].state = "none"
               /\ \A r \in Requests : r # p => request'[r].sid # request[p].sid,
           request[p].pc = "write" /\ request[p].held = Shared =>
               registration'[request[p].node].status # "none"
    PROVE  /\ CreateInv(p)' /\ RegisterInv(p)' /\ FinalizeInv(p)' /\ WriteInv(p)'
<1>1. CreateInv(p)'
  BY DEF IndInv, RequestInv, CreateInv
<1>2. RegisterInv(p)'
  BY DEF IndInv, RequestInv, RegisterInv, SessionRely, Sessions
<1>3. FinalizeInv(p)'
  <2>1. SUFFICES ASSUME request[p].pc \in {"principal", "password", "consume",
         "promote"}
                 PROVE  FinalizeInv(p)'
    BY DEF FinalizeInv
  <2> DEFINE n == request[p].node
  <2>2. FinalizeInv(p) /\ n \in Nodes
    BY <2>1 DEF IndInv, RequestInv, FinalizeInv
  <2>3. Decided(request[p].sid)' /\ session'[request[p].sid].node = n /\ trust'[n].status # "none"
    BY <2>1, <2>2 DEF FinalizeInv, SessionRely, TrustRely, Decided
  <2>4. \A m \in Nodes : trust[m].token < nextToken /\ trust[m].token \in Nat
    BY DEF IndInv, TokenInv, TypeOK, TrustRecord
  <2>5. nextToken \in Nat /\ request[p].token \in Nat
    BY DEF IndInv, TypeOK, RequestRecord
  <2>6. request[p].token # 0 /\ request[p].token <= trust[n].token /\ request[p].token < nextToken
    BY <2>1, <2>2, <2>4, <2>5 DEF FinalizeInv
  <2>7. request[p].token <= trust'[n].token
    BY <2>2, <2>4, <2>5, <2>6 DEF TrustRely
  <2>8. ASSUME NEW m \in Nodes, trust'[m].token = request[p].token PROVE m = n
    BY <2>1, <2>2, <2>4, <2>5, <2>6, <2>8 DEF TrustRely, FinalizeInv
  <2> QED BY <2>1, <2>2, <2>3, <2>6, <2>7, <2>8 DEF FinalizeInv
<1>4. WriteInv(p)'
  BY DEF IndInv, RequestInv, WriteInv, IsRegistered, Backed, SessionRely, TrustRely,
     Decided
<1> QED BY <1>1, <1>2, <1>3, <1>4

\* The step of slot q leaves the other requests alone and takes no id from them.
RequestRely(q) ==
    /\ request' \in [Requests -> RequestRecord]
    /\ \A p \in Requests : p # q => request'[p] = request[p]
    /\ \/ request'[q].sid = None
       \/ request'[q].sid = request[q].sid
       \/ request'[q].sid \in Sessions /\ session[request'[q].sid].state # "none"
       \/ request'[q].sid \in Sessions /\ IsFresh(request'[q].sid)

\* Only the request that owns a fresh id creates its session.
FreshRely(q) ==
    \A s \in Sessions : session[s].state = "none" =>
        session'[s].state = "none" \/ (request[q].pc = "create" /\ s = request[q].sid)

RegistrationRely == \A n \in Nodes : IsRegistered(n) => registration'[n].status # "none"

\* If slot q keeps its invariants through its own step, so do all the others.
LEMMA RequestStep ==
    ASSUME IndInv, SessionRely, TrustRely, RegistrationRely, nextToken' \in Nat,
           NEW q \in Requests, RequestRely(q), FreshRely(q),
           CreateInv(q)', RegisterInv(q)', FinalizeInv(q)', WriteInv(q)'
    PROVE  RequestInv'
<1>1. SUFFICES ASSUME NEW p \in Requests, p # q
               PROVE  CreateInv(p)' /\ RegisterInv(p)' /\ FinalizeInv(p)' /\ WriteInv(p)'
  BY DEF RequestInv
<1>2. request'[p] = request[p]
  BY <1>1 DEF RequestRely
<1>3. ASSUME request[p].pc = "create"
      PROVE  /\ session'[request[p].sid].state = "none"
             /\ \A r \in Requests : r # p => request'[r].sid # request[p].sid
  <2>1. CreateInv(p) /\ CreateInv(q)
    BY DEF IndInv, RequestInv
  <2>2. session'[request[p].sid].state = "none"
    BY <1>1, <1>3, <2>1 DEF CreateInv, FreshRely
  <2>3. request'[q].sid # request[p].sid
    BY <1>1, <1>3, <2>1, ConstantsAssumption DEF CreateInv, RequestRely, IsFresh,
       Sessions
  <2> QED BY <1>1, <1>3, <2>1, <2>2, <2>3 DEF CreateInv, RequestRely
<1>4. request[p].pc = "write" /\ request[p].held = Shared =>
          registration'[request[p].node].status # "none"
  BY DEF IndInv, RequestInv, WriteInv, RegistrationRely
<1> QED BY <1>2, <1>3, <1>4, KeepRequest

\* A step on sessions and on the request of slot q.
LEMMA SessionRequestStep ==
    ASSUME IndInv, SessionRely, SessionInv', archived' \subseteq Onboarding,
           failures' \in Nat,
           principal' \subseteq Nodes,
           UNCHANGED <<trust, trustOf, registration, registrationOf, password, nextToken>>,
           \A s \in Sessions : session'[s].state = "consumed" =>
               session[s].state = "consumed" \/ trust[session'[s].node].status # "none",
           NEW q \in Requests, RequestRely(q), FreshRely(q),
           CreateInv(q)', RegisterInv(q)', FinalizeInv(q)', WriteInv(q)'
    PROVE  IndInv'
<1>1. TypeOK'
  BY DEF IndInv, TypeOK, SessionRely, RequestRely
<1>2. StoreInv'
  BY StoreInvSession
<1>3. TokenInv' /\ CredentialIsOwn'
  BY DEF IndInv, TokenInv, CredentialIsOwn
<1>4. TrustRely /\ RegistrationRely /\ nextToken' \in Nat
  BY DEF IndInv, TypeOK, TrustRely, RegistrationRely, IsRegistered
<1>5. RequestInv'
  BY <1>4, RequestStep
<1> QED BY <1>1, <1>2, <1>3, <1>5 DEF IndInv

\* No session appears or becomes consumed.
SessionsKept ==
    \A s \in Sessions :
        /\ session'[s].state = "consumed" => session[s].state = "consumed"
        /\ session[s].state = "none" => session'[s].state = "none"

\* A step on sessions only.
LEMMA SessionStep ==
    ASSUME IndInv, SessionRely, archived' \subseteq Onboarding,
           UNCHANGED <<trust, trustOf, registration, registrationOf, principal, password,
                       request, nextToken, failures>>,
           SessionsKept
    PROVE  IndInv'
<1>1. SessionInv'
  BY DEF IndInv, StoreInv, SessionInv, SessionRely, SessionsKept
<1>2. TypeOK'
  BY DEF IndInv, TypeOK, SessionRely
<1>3. StoreInv'
  BY <1>1, StoreInvSession DEF SessionsKept
<1>4. TokenInv' /\ CredentialIsOwn'
  BY DEF IndInv, TokenInv, CredentialIsOwn
<1>5. TrustRely /\ nextToken' \in Nat
  BY DEF IndInv, TypeOK, TrustRely
<1>6. ASSUME NEW p \in Requests
      PROVE  CreateInv(p)' /\ RegisterInv(p)' /\ FinalizeInv(p)' /\ WriteInv(p)'
  <2>1. request[p].pc = "create" =>
            /\ session'[request[p].sid].state = "none"
            /\ \A r \in Requests : r # p => request'[r].sid # request[p].sid
    BY DEF IndInv, RequestInv, CreateInv, SessionsKept
  <2>2. request[p].pc = "write" /\ request[p].held = Shared =>
            registration'[request[p].node].status # "none"
    BY DEF IndInv, RequestInv, WriteInv, IsRegistered
  <2> QED BY <1>5, <2>1, <2>2, KeepRequest
<1> QED BY <1>2, <1>3, <1>4, <1>6 DEF IndInv, RequestInv

\* An operator's decision, taken after stale sessions expired.
LEMMA DecideFacts ==
    ASSUME TypeOK, NEW S, NEW s \in Sessions, NEW next \in {"approved", "rejected"},
           Present(s), CanTransition(ExpireStale(S)[s].state, next),
           session' = [ExpireStale(S) EXCEPT ![s].state = next]
    PROVE  SessionRely /\ SessionsKept
<1> DEFINE e == ExpireStale(S)
<1>1. /\ e \in [Sessions -> SessionRecord]
      /\ \A t \in Sessions :
            /\ e[t].node = session[t].node
            /\ \/ e[t].state = session[t].state
               \/ session[t].state = "pending" /\ e[t].state = "expired"
  BY ExpireFacts
<1>2. /\ session[s].state # "none"
      /\ e[s].state = next \/ e[s].state = "pending" \/ (e[s].state = "approved" /\ next = "consumed")
      /\ session' = [e EXCEPT ![s].state = next]
  BY DEF Present, CanTransition
<1> HIDE DEF e
<1>3. session' \in [Sessions -> SessionRecord]
  <2>1. [e[s] EXCEPT !.state = next] \in SessionRecord
    BY <1>1 DEF SessionRecord, SessionStates
  <2> QED BY <1>1, <1>2, <2>1
<1>4. \A t \in Sessions : /\ session'[t].node = e[t].node
                          /\ session'[t].state = IF t = s THEN next ELSE e[t].state
  BY <1>1, <1>2 DEF SessionRecord
<1> QED BY <1>1, <1>2, <1>3, <1>4 DEF SessionRely, SessionsKept, Decided

\* The handlers that only decide, expire, cancel or archive sessions.
LEMMA OperateStep == IndInv /\ Operate => IndInv'
<1> SUFFICES ASSUME IndInv, Operate PROVE IndInv'
  OBVIOUS
<1> USE DEF IndInv
<1>1. ASSUME NEW s \in Reauth, ApproveReauth(s) PROVE IndInv'
  <2>1. SessionRely /\ SessionsKept
    BY <1>1, DecideFacts DEF ApproveReauth, Sessions
  <2> QED BY <1>1, <2>1, SessionStep DEF ApproveReauth, TypeOK
<1>2. ASSUME NEW s \in Sessions, TtlElapses(s) PROVE IndInv'
  <2>1. SessionRely /\ SessionsKept
    BY <1>2 DEF TtlElapses, SessionRely, SessionsKept, Decided, SessionRecord, TypeOK
  <2> QED BY <1>2, <2>1, SessionStep DEF TtlElapses, TypeOK
<1>3. ASSUME NEW S \in {Onboarding, Reauth}, Poll(S) PROVE IndInv'
  <2>1. SessionRely /\ SessionsKept
    BY <1>3, ExpireFacts DEF Poll, SessionRely, SessionsKept, Decided
  <2> QED BY <1>3, <2>1, SessionStep DEF Poll, TypeOK
<1>4. ASSUME NEW S \in {Onboarding, Reauth}, NEW s \in S, Reject(S, s) PROVE IndInv'
  <2>1. SessionRely /\ SessionsKept
    BY <1>4, DecideFacts DEF Reject, Sessions
  <2> QED BY <1>4, <2>1, SessionStep DEF Reject, TypeOK
<1>5. ASSUME CancelActive PROVE IndInv'
  <2> DEFINE e == ExpireStale(Onboarding)
  <2>1. /\ e \in [Sessions -> SessionRecord]
        /\ \A t \in Sessions :
              /\ e[t].node = session[t].node
              /\ \/ e[t].state = session[t].state
                 \/ session[t].state = "pending" /\ e[t].state = "expired"
    BY ExpireFacts
  <2>2. ASSUME NEW t \in Sessions
        PROVE  \/ session'[t] = e[t]
               \/ session'[t] = [e[t] EXCEPT !.state = "cancelled"] /\ e[t].state = "pending"
    BY <1>5 DEF CancelActive, CanTransition
  <2>3. session' = [t \in Sessions |-> session'[t]]
    BY <1>5 DEF CancelActive
  <2> HIDE DEF e
  <2>4. ASSUME NEW t \in Sessions
        PROVE  /\ session'[t] \in SessionRecord
               /\ session'[t].node = e[t].node
               /\ session'[t].state = e[t].state
                     \/ (e[t].state = "pending" /\ session'[t].state = "cancelled")
    BY <2>1, <2>2 DEF SessionRecord, SessionStates
  <2>5. session' \in [Sessions -> SessionRecord]
    BY <2>3, <2>4
  <2>6. SessionRely /\ SessionsKept
    BY <2>1, <2>4, <2>5 DEF SessionRely, SessionsKept, Decided
  <2> QED BY <1>5, <2>6, SessionStep DEF CancelActive, TypeOK
<1>6. ASSUME Maintain PROVE IndInv'
  <2>1. SessionRely /\ SessionsKept
    BY <1>6, ExpireFacts DEF Maintain, SessionRely, SessionsKept, Decided
  <2> QED BY <1>6, <2>1, SessionStep DEF Maintain, TypeOK
<1> QED BY <1>1, <1>2, <1>3, <1>4, <1>5, <1>6 DEF Operate

\* Stale sessions expire, nothing else happens to sessions.
LEMMA ExpireStep ==
    ASSUME TypeOK, NEW S, session' = ExpireStale(S)
    PROVE  SessionRely /\ SessionsKept
BY ExpireFacts DEF SessionRely, SessionsKept, Decided

\* Consequences of a step that neither creates nor consumes sessions.
LEMMA KeptInv ==
    ASSUME IndInv, SessionRely, SessionsKept
    PROVE  /\ SessionInv'
           /\ \A q \in Requests : FreshRely(q)
           /\ \A s \in Sessions : session'[s].state = "consumed" => session[s].state = "consumed"
BY DEF IndInv, StoreInv, SessionInv, SessionRely, SessionsKept, FreshRely

\* A step that leaves sessions alone.
LEMMA UnchangedSession ==
    ASSUME TypeOK, UNCHANGED session
    PROVE  SessionRely /\ SessionsKept
BY DEF TypeOK, SessionRely, SessionsKept, Decided

\* A request in its first or last state satisfies its invariants.
LEMMA IdleInv ==
    ASSUME NEW q \in Requests, request'[q] = Idle
    PROVE  CreateInv(q)' /\ RegisterInv(q)' /\ FinalizeInv(q)' /\ WriteInv(q)'
BY DEF Idle, CreateInv, RegisterInv, FinalizeInv, WriteInv

\* Writing a well-formed request record into slot q.
LEMMA RequestUpdate ==
    ASSUME TypeOK, NEW q \in Requests, NEW r \in RequestRecord,
           request' = [request EXCEPT ![q] = r],
           \/ r.sid = None
           \/ r.sid = request[q].sid
           \/ r.sid \in Sessions /\ session[r.sid].state # "none"
           \/ r.sid \in Sessions /\ IsFresh(r.sid)
    PROVE  RequestRely(q) /\ request'[q] = r
BY DEF TypeOK, RequestRely

\* Starting a session of either kind, up to the checks.
LEMMA StartStep ==
    ASSUME IndInv, NEW q \in Requests, NEW s \in Sessions, NEW n \in Nodes,
           NEW nonce \in Nonces,
           NEW S, IsFresh(s), session' = ExpireStale(S),
           request' = [request EXCEPT ![q] =
              [Idle EXCEPT !.pc = "create", !.sid = s, !.node = n, !.nonce = nonce]],
           UNCHANGED <<archived, trust, trustOf, registration, registrationOf,
                       principal, password, nextToken, failures>>
    PROVE  IndInv'
<1> DEFINE r == [Idle EXCEPT !.pc = "create", !.sid = s, !.node = n, !.nonce = nonce]
<1>0. TypeOK
  BY DEF IndInv
<1>1. SessionRely /\ SessionsKept
  BY <1>0, ExpireStep
<1>2. r \in RequestRecord /\ r.pc = "create" /\ r.sid = s /\ r.node = n
  BY IdleType DEF Idle, RequestRecord
<1>3. RequestRely(q) /\ request'[q] = r
  <2>1. request' = [request EXCEPT ![q] = r]
    OBVIOUS
  <2> HIDE DEF r
  <2> QED BY <1>0, <1>2, <2>1, RequestUpdate
<1>4. CreateInv(q)'
  BY <1>1, <1>2, <1>3 DEF CreateInv, RequestRely, IsFresh, SessionsKept
<1>5. RegisterInv(q)' /\ FinalizeInv(q)' /\ WriteInv(q)'
  BY <1>2, <1>3 DEF RegisterInv, FinalizeInv, WriteInv
<1>6. archived' \subseteq Onboarding /\ principal' \subseteq Nodes /\ failures' \in Nat
  BY <1>0 DEF TypeOK
<1> QED BY <1>1, <1>3, <1>4, <1>5, <1>6, KeptInv, SessionRequestStep

\* start_session: the id is free, because the request owns it.
LEMMA CreateSessionStep ==
    ASSUME IndInv, NEW q \in Requests, CreateSession(q)
    PROVE  IndInv'
<1> DEFINE s == request[q].sid
           r == [state |-> "pending", node |-> request[q].node,
                 nonce |-> request[q].nonce, overdue |-> FALSE]
<1>0. TypeOK /\ CreateInv(q) /\ request[q].pc = "create"
  BY DEF IndInv, RequestInv, CreateSession
<1>1. s \in Sessions /\ request[q].node \in Nodes /\ session[s].state = "none"
  BY <1>0 DEF CreateInv
<1>2. r \in SessionRecord /\ r.state = "pending" /\ r.node = request[q].node
  BY <1>0, <1>1 DEF SessionRecord, SessionStates, TypeOK, RequestRecord
<1>3. session' = [session EXCEPT ![s] = r]
  BY DEF CreateSession
<1> HIDE DEF r
<1>4. SessionRely /\ FreshRely(q)
  BY <1>0, <1>1, <1>2, <1>3 DEF SessionRely, FreshRely, Decided, TypeOK
<1>5. SessionInv'
  BY <1>0, <1>1, <1>2, <1>3 DEF SessionInv, TypeOK, IndInv, StoreInv
<1>6. RequestRely(q) /\ request'[q] = Idle
  BY <1>0, IdleType, RequestUpdate DEF CreateSession, Idle
<1>7. \A t \in Sessions : session'[t].state = "consumed" => session[t].state = "consumed"
  BY <1>0, <1>1, <1>2, <1>3 DEF TypeOK
<1>8. archived' \subseteq Onboarding /\ principal' \subseteq Nodes /\ failures' \in Nat
  BY <1>0 DEF TypeOK, CreateSession
<1>9. UNCHANGED <<trust, trustOf, registration, registrationOf, password, nextToken>>
  BY DEF CreateSession
<1> QED BY <1>4, <1>5, <1>6, <1>7, <1>8, <1>9, IdleInv, SessionRequestStep

\* Approving an onboarding session, up to the registration.
LEMMA ApproveOnboardingStep ==
    ASSUME IndInv, NEW q \in Requests, NEW s \in Onboarding, ApproveOnboarding(q, s)
    PROVE  IndInv'
<1> DEFINE r == [Idle EXCEPT !.pc = "register", !.sid = s]
<1>0. TypeOK /\ s \in Sessions /\ Present(s)
  BY DEF IndInv, Sessions, ApproveOnboarding
<1>1. SessionRely /\ SessionsKept
  BY <1>0, DecideFacts DEF ApproveOnboarding
<1>2. r \in RequestRecord /\ r.pc = "register" /\ r.sid = s
  BY <1>0, IdleType DEF Idle, RequestRecord
<1>3. request' = [request EXCEPT ![q] = r] /\ session[s].state # "none"
  BY <1>0 DEF ApproveOnboarding, Present
<1>4. RequestRely(q) /\ request'[q] = r
  <2> HIDE DEF r
  <2> QED BY <1>0, <1>2, <1>3, RequestUpdate
<1>5. session'[s].state = "approved"
  BY <1>0, ExpireFacts DEF ApproveOnboarding, SessionRecord
<1>6. RegisterInv(q)'
  BY <1>0, <1>2, <1>4, <1>5 DEF RegisterInv, Decided
<1>7. CreateInv(q)' /\ FinalizeInv(q)' /\ WriteInv(q)'
  BY <1>2, <1>4 DEF CreateInv, FinalizeInv, WriteInv
<1>8. archived' \subseteq Onboarding /\ principal' \subseteq Nodes /\ failures' \in Nat
  BY <1>0 DEF TypeOK, ApproveOnboarding
<1>9. UNCHANGED <<trust, trustOf, registration, registrationOf, password, nextToken>>
  BY DEF ApproveOnboarding
<1> QED BY <1>1, <1>4, <1>6, <1>7, <1>8, <1>9, KeptInv, SessionRequestStep

\* A finalizing request that moves on keeps what it carries.
LEMMA AdvanceFacts ==
    ASSUME TypeOK, NEW q \in Requests, NEW pc \in {"password", "consume", "promote",
           "rotate"},
           request' = [request EXCEPT ![q] = [request[q] EXCEPT !.pc = pc]]
    PROVE  /\ RequestRely(q)
           /\ request'[q].pc = pc
           /\ request'[q].sid = request[q].sid
           /\ request'[q].node = request[q].node
           /\ request'[q].token = request[q].token
<1> DEFINE r == [request[q] EXCEPT !.pc = pc]
<1>1. /\ r \in RequestRecord
      /\ r.pc = pc /\ r.sid = request[q].sid /\ r.node = request[q].node
      /\ r.token = request[q].token
  BY DEF TypeOK, RequestRecord
<1>2. request' = [request EXCEPT ![q] = r]
  OBVIOUS
<1> HIDE DEF r
<1> QED BY <1>1, <1>2, RequestUpdate

\* A finalizing request that moves on keeps its invariants.
LEMMA AdvanceInv ==
    ASSUME IndInv, SessionRely, UNCHANGED trust, NEW q \in Requests,
           request[q].pc \in {"principal", "password", "consume", "promote"},
           request'[q].pc \in {"password", "consume", "promote"},
           request'[q].sid = request[q].sid, request'[q].node = request[q].node,
           request'[q].token = request[q].token
    PROVE  CreateInv(q)' /\ RegisterInv(q)' /\ FinalizeInv(q)' /\ WriteInv(q)'
<1>1. FinalizeInv(q)
  BY DEF IndInv, RequestInv
<1>2. FinalizeInv(q)'
  BY <1>1 DEF FinalizeInv, SessionRely, Decided
<1> QED BY <1>2 DEF CreateInv, RegisterInv, WriteInv

\* Finalize of a consumed session.
LEMMA FinalizeConsumedStep ==
    ASSUME IndInv, NEW q \in Requests, NEW s \in Onboarding, FinalizeConsumed(q, s)
    PROVE  IndInv'
<1> DEFINE n == trustOf[s]
           r == Provisioning("replay", s, n, trust[n].token)
<1>0. TypeOK /\ s \in Sessions /\ session[s].state = "consumed" /\ n \in Nodes
  BY DEF IndInv, Sessions, FinalizeConsumed, TypeOK
<1>1. trust[n].source = s /\ trust[n].status # "none" /\ session[s].node = n /\ trust[n].token # 0
  BY <1>0, ConstantsAssumption
     DEF IndInv, StoreInv, ReplayOnlyByIssuer, TrustInv, TrustNeedsApproval, FinalizeConsumed, NoTrust, Sessions
<1>2. trust[n].token \in Nat
  BY <1>0 DEF TypeOK, TrustRecord
<1>3. /\ r \in RequestRecord
      /\ r.pc = "principal" /\ r.sid = s /\ r.node = n /\ r.token = trust[n].token
  BY <1>0, <1>2, IdleType DEF Provisioning, Idle, RequestRecord
<1>4. request' = [request EXCEPT ![q] = r]
  BY DEF FinalizeConsumed
<1>5. SessionRely /\ SessionsKept
  BY <1>0, ExpireStep DEF FinalizeConsumed
<1>6. UNCHANGED <<archived, trust, trustOf, registration, registrationOf, principal, password, nextToken, failures>>
  BY DEF FinalizeConsumed
<1> HIDE DEF r
<1>7. RequestRely(q) /\ request'[q] = r
  BY <1>0, <1>3, <1>4, RequestUpdate
<1>8. FinalizeInv(q)'
  <2>1. \A m \in Nodes : trust[m].token = trust[n].token => m = n
    BY <1>0, <1>1 DEF IndInv, TokenInv
  <2>2. Decided(s)' /\ session'[s].node = n
    BY <1>0, <1>1, <1>5 DEF SessionRely, Decided
  <2> QED BY <1>0, <1>1, <1>2, <1>3, <1>6, <1>7, <2>1, <2>2 DEF FinalizeInv
<1>9. CreateInv(q)' /\ RegisterInv(q)' /\ WriteInv(q)'
  BY <1>3, <1>7 DEF CreateInv, RegisterInv, WriteInv
<1>10. archived' \subseteq Onboarding /\ principal' \subseteq Nodes /\ failures' \in Nat
  BY <1>0, <1>6 DEF TypeOK
<1> QED BY <1>5, <1>6, <1>7, <1>8, <1>9, <1>10, KeptInv, SessionRequestStep

\* consume_final_payload: the record was issued before.
LEMMA ConsumeStep ==
    ASSUME IndInv, NEW q \in Requests, ConsumeFinalPayload(q)
    PROVE  IndInv'
<1> DEFINE s == request[q].sid
           consumes == Present(s) /\ session[s].state = "approved"
<1>0. TypeOK /\ FinalizeInv(q) /\ request[q].pc = "consume"
  BY DEF IndInv, RequestInv, ConsumeFinalPayload
<1>1. /\ s \in Sessions /\ Decided(s) /\ session[s].node = request[q].node
      /\ request[q].node \in Nodes /\ trust[request[q].node].status # "none"
  BY <1>0 DEF FinalizeInv
<1>2. \/ session' = session
      \/ session' = [session EXCEPT ![s].state = "consumed"]
  BY DEF ConsumeFinalPayload
<1>3. \A t \in Sessions : /\ session'[t] \in SessionRecord
                          /\ session'[t].node = session[t].node
                          /\ session'[t].state = session[t].state \/ (t = s /\ session'[t].state = "consumed")
  <2>1. [session[s] EXCEPT !.state = "consumed"] \in SessionRecord
    BY <1>0, <1>1 DEF TypeOK, SessionRecord, SessionStates
  <2> QED BY <1>0, <1>1, <1>2, <2>1 DEF TypeOK, SessionRecord
<1>4. session' \in [Sessions -> SessionRecord]
  BY <1>0, <1>2, <1>3 DEF TypeOK
<1>5. SessionRely /\ FreshRely(q)
  BY <1>1, <1>3, <1>4 DEF SessionRely, FreshRely, Decided
<1>6. SessionInv'
  BY <1>1, <1>3 DEF SessionInv, IndInv, StoreInv, Decided
<1>7. UNCHANGED <<archived, trust, trustOf, registration, registrationOf, principal, password, nextToken, failures>>
  BY DEF ConsumeFinalPayload
<1>8. RequestRely(q) /\ CreateInv(q)' /\ RegisterInv(q)' /\ FinalizeInv(q)' /\ WriteInv(q)'
  <2>1. CASE consumes /\ request[q].op = "onboarding"
    <3>1. request' = [request EXCEPT ![q] = [request[q] EXCEPT !.pc = "promote"]]
      BY <2>1 DEF ConsumeFinalPayload
    <3> QED BY <1>0, <1>5, <1>7, <3>1, AdvanceFacts, AdvanceInv
  <2>2. CASE ~(consumes /\ request[q].op = "onboarding")
    <3>1. request' = [request EXCEPT ![q] = Idle]
      BY <2>2 DEF ConsumeFinalPayload
    <3> QED BY <1>0, <3>1, IdleType, RequestUpdate, IdleInv DEF Idle
  <2> QED BY <2>1, <2>2
<1>9. \A t \in Sessions : session'[t].state = "consumed" =>
          session[t].state = "consumed" \/ trust[session'[t].node].status # "none"
  BY <1>1, <1>3
<1>10. archived' \subseteq Onboarding /\ principal' \subseteq Nodes /\ failures' \in Nat
  BY <1>0, <1>7 DEF TypeOK
<1> QED BY <1>5, <1>6, <1>7, <1>8, <1>9, <1>10, SessionRequestStep

\* Adding and removing the MQTT principal.
LEMMA PrincipalStep ==
    ASSUME IndInv, NEW q \in Requests, UpsertPrincipal(q) \/ RemovePrincipal(q)
    PROVE  IndInv'
<1>0. TypeOK /\ FinalizeInv(q) /\ WriteInv(q)
  BY DEF IndInv, RequestInv
<1>1. SessionRely /\ SessionsKept
  BY <1>0, UnchangedSession DEF UpsertPrincipal, RemovePrincipal
<1>2. UNCHANGED <<session, archived, trust, trustOf, registration, registrationOf, password, nextToken, failures>>
  BY DEF UpsertPrincipal, RemovePrincipal
<1>3. CASE UpsertPrincipal(q)
  <2>1. request[q].pc = "principal" /\ request' = [request EXCEPT ![q] = [request[q] EXCEPT !.pc = "password"]]
    BY <1>0, <1>3 DEF UpsertPrincipal, TypeOK, RequestRecord
  <2>2. RequestRely(q) /\ CreateInv(q)' /\ RegisterInv(q)' /\ FinalizeInv(q)' /\ WriteInv(q)'
    BY <1>0, <1>1, <1>2, <2>1, AdvanceFacts, AdvanceInv
  <2>3. archived' \subseteq Onboarding /\ principal' \subseteq Nodes /\ failures' \in Nat
    BY <1>0, <1>2, <1>3, <2>1 DEF UpsertPrincipal, TypeOK, FinalizeInv
  <2> QED BY <1>1, <1>2, <2>2, <2>3, KeptInv, SessionRequestStep
<1>4. CASE RemovePrincipal(q)
  <2>1. request[q].pc = "remove" /\ request' = [request EXCEPT ![q] = [request[q] EXCEPT !.pc = "rotate"]]
    BY <1>0, <1>4 DEF RemovePrincipal, TypeOK, RequestRecord
  <2>2. RequestRely(q) /\ request'[q].pc = "rotate" /\ request'[q].node = request[q].node
    BY <1>0, <2>1, AdvanceFacts
  <2>3. CreateInv(q)' /\ RegisterInv(q)' /\ FinalizeInv(q)' /\ WriteInv(q)'
    BY <1>0, <2>1, <2>2 DEF CreateInv, RegisterInv, FinalizeInv, WriteInv
  <2>4. archived' \subseteq Onboarding /\ principal' \subseteq Nodes /\ failures' \in Nat
    BY <1>0, <1>2, <1>4 DEF RemovePrincipal, TypeOK
  <2> QED BY <1>1, <1>2, <2>2, <2>3, <2>4, KeptInv, SessionRequestStep
<1> QED BY <1>3, <1>4

\* The read half of a read-modify-write.
LEMMA ReadRegistrationStep ==
    ASSUME IndInv, NEW q \in Requests, NEW n \in Nodes, ReadRegistration(q, n)
    PROVE  IndInv'
<1> DEFINE r == [Idle EXCEPT !.pc = "write", !.node = n, !.held = Shared]
<1>0. TypeOK /\ IsRegistered(n)
  BY DEF IndInv, ReadRegistration
<1>1. SessionRely /\ SessionsKept
  BY <1>0, UnchangedSession DEF ReadRegistration
<1>2. UNCHANGED <<archived, trust, trustOf, registration, registrationOf, principal, password, nextToken, failures>>
  BY DEF ReadRegistration
<1>3. r \in RequestRecord /\ r.pc = "write" /\ r.sid = None /\ r.node = n /\ r.held = Shared
  BY IdleType DEF Idle, RequestRecord
<1>4. request' = [request EXCEPT ![q] = r]
  BY DEF ReadRegistration
<1> HIDE DEF r
<1>5. RequestRely(q) /\ request'[q] = r
  BY <1>0, <1>3, <1>4, RequestUpdate
<1>6. CreateInv(q)' /\ RegisterInv(q)' /\ FinalizeInv(q)' /\ WriteInv(q)'
  BY <1>0, <1>2, <1>3, <1>5 DEF CreateInv, RegisterInv, FinalizeInv, WriteInv,
     IsRegistered
<1>7. archived' \subseteq Onboarding /\ principal' \subseteq Nodes /\ failures' \in Nat
  BY <1>0, <1>2 DEF TypeOK
<1> QED BY <1>1, <1>2, <1>5, <1>6, <1>7, KeptInv, SessionRequestStep

\* A handler that dies.
LEMMA RequestFailsStep ==
    ASSUME IndInv, NEW q \in Requests, RequestFails(q)
    PROVE  IndInv'
<1>0. TypeOK
  BY DEF IndInv
<1>1. SessionRely /\ SessionsKept
  BY <1>0, UnchangedSession DEF RequestFails
<1>2. UNCHANGED <<archived, trust, trustOf, registration, registrationOf, principal, password, nextToken>>
  BY DEF RequestFails
<1>3. request' = [request EXCEPT ![q] = Idle]
  BY DEF RequestFails
<1>4. RequestRely(q) /\ request'[q] = Idle
  BY <1>0, <1>3, IdleType, RequestUpdate DEF Idle
<1>5. archived' \subseteq Onboarding /\ principal' \subseteq Nodes /\ failures' \in Nat
  BY <1>0, <1>2 DEF TypeOK, RequestFails
<1> QED BY <1>1, <1>2, <1>4, <1>5, IdleInv, KeptInv, SessionRequestStep

\* Setting and dropping the MQTT credential: the token carried is the node's own.
LEMMA PasswordStep ==
    ASSUME IndInv, NEW q \in Requests, SetPrincipalPassword(q) \/ RotatePrincipal(q)
    PROVE  IndInv'
<1>0. TypeOK /\ FinalizeInv(q) /\ WriteInv(q)
  BY DEF IndInv, RequestInv
<1>1. SessionRely /\ SessionsKept
  BY <1>0, UnchangedSession DEF SetPrincipalPassword, RotatePrincipal
<1>2. UNCHANGED <<session, archived, trust, trustOf, registration, registrationOf, principal, nextToken, failures>>
  BY DEF SetPrincipalPassword, RotatePrincipal
<1>3. StoreInv' /\ TokenInv'
  <2>1. StoreInv'
    BY <1>1, <1>2, KeptInv, StoreInvSession
  <2>2. TokenInv'
    BY <1>2 DEF IndInv, TokenInv
  <2> QED BY <2>1, <2>2
<1>4. TrustRely /\ RegistrationRely /\ nextToken' \in Nat
  BY <1>0, <1>2 DEF TypeOK, TrustRely, RegistrationRely, IsRegistered
<1>5. \/ /\ RotatePrincipal(q) /\ request[q].node \in Nodes
         /\ password' = [password EXCEPT ![request[q].node] = 0]
      \/ /\ request[q].pc = "password" /\ request[q].node \in Nodes
         /\ password' = [password EXCEPT ![request[q].node] = request[q].token]
  BY <1>0 DEF SetPrincipalPassword, RotatePrincipal, FinalizeInv, WriteInv
<1>6. password' \in [Nodes -> Nat]
  BY <1>0, <1>5 DEF TypeOK, RequestRecord
<1>7. CredentialIsOwn'
  BY <1>0, <1>2, <1>5 DEF IndInv, CredentialIsOwn, TypeOK, FinalizeInv, TrustRecord,
     RequestRecord
<1>8. RequestRely(q) /\ CreateInv(q)' /\ RegisterInv(q)' /\ FinalizeInv(q)' /\ WriteInv(q)'
  <2>1. CASE request' = [request EXCEPT ![q] = Idle]
    BY <1>0, <2>1, IdleType, RequestUpdate, IdleInv DEF Idle
  <2>2. ASSUME NEW pc \in {"consume", "promote"}, request[q].pc = "password",
               request' = [request EXCEPT ![q] = [request[q] EXCEPT !.pc = pc]]
        PROVE  RequestRely(q) /\ CreateInv(q)' /\ RegisterInv(q)' /\ FinalizeInv(q)' /\ WriteInv(q)'
    BY <1>0, <1>1, <1>2, <2>2, AdvanceFacts, AdvanceInv
  <2> QED BY <2>1, <2>2 DEF SetPrincipalPassword, RotatePrincipal
<1>9. RequestInv'
  BY <1>1, <1>4, <1>8, KeptInv, RequestStep
<1>10. TypeOK'
  BY <1>0, <1>2, <1>6, <1>8 DEF TypeOK, RequestRely
<1> QED BY <1>3, <1>7, <1>9, <1>10 DEF IndInv

\* A step on registrations, given what it makes of them and of the requests.
LEMMA RegistrationStep ==
    ASSUME IndInv,
           UNCHANGED <<session, archived, trust, trustOf, principal, password, nextToken, failures>>,
           registration' \in [Nodes -> RegistrationRecord],
           registrationOf' \in [Sessions -> Nodes \cup {None}],
           request' \in [Requests -> RequestRecord],
           RegistrationInv', RequestInv'
    PROVE  IndInv'
<1>1. TypeOK'
  BY DEF IndInv, TypeOK
<1>2. SessionInv' /\ TrustInv' /\ TrustNeedsApproval' /\ ReplayOnlyByIssuer' /\ ConsumedAfterIssue'
  BY DEF IndInv, StoreInv, SessionInv, TrustInv, TrustNeedsApproval,
     ReplayOnlyByIssuer, ConsumedAfterIssue, NoTrust
<1>3. TokenInv' /\ CredentialIsOwn'
  BY DEF IndInv, TokenInv, CredentialIsOwn
<1> QED BY <1>1, <1>2, <1>3 DEF IndInv, StoreInv

\* Promoting a registration: the record behind it exists.
LEMMA PromoteStep ==
    ASSUME IndInv, NEW q \in Requests, Promote(q)
    PROVE  IndInv'
<1> DEFINE n == IF request[q].op = "onboarding" THEN registrationOf[request[q].sid] ELSE request[q].node
<1>0. TypeOK /\ FinalizeInv(q) /\ request[q].pc = "promote"
  BY DEF IndInv, RequestInv, Promote
<1>1. SessionRely /\ SessionsKept
  BY <1>0, UnchangedSession DEF Promote
<1>2. UNCHANGED <<session, archived, trust, trustOf, registrationOf, principal, password, nextToken, failures>>
  BY DEF Promote
<1>3. n # None => n = request[q].node /\ n \in Nodes /\ trust[n].status # "none"
  BY <1>0 DEF IndInv, StoreInv, RegistrationInv, FinalizeInv
<1>4. \/ registration' = registration
      \/ /\ n \in Nodes /\ trust[n].status # "none" /\ registration[n].status # "none"
         /\ registration' = [registration EXCEPT ![n].status = "trusted"]
  BY <1>3 DEF Promote, SetTrustStatus, IsRegistered
<1> HIDE DEF n
<1>5. \A m \in Nodes :
          /\ registration'[m] \in RegistrationRecord
          /\ registration'[m].source = registration[m].source
          /\ \/ registration'[m].status = registration[m].status
             \/ /\ registration[m].status # "none" /\ trust[m].status # "none"
                /\ registration'[m].status = "trusted"
  BY <1>0, <1>4 DEF TypeOK, RegistrationRecord
<1>6. registration' \in [Nodes -> RegistrationRecord]
  BY <1>0, <1>4, <1>5 DEF TypeOK
<1>7. RegistrationInv'
  BY <1>2, <1>5 DEF IndInv, StoreInv, RegistrationInv, Backed, Decided
<1>8. TrustRely /\ RegistrationRely /\ nextToken' \in Nat
  BY <1>0, <1>2, <1>5 DEF TypeOK, TrustRely, RegistrationRely, IsRegistered
<1>9. RequestRely(q) /\ CreateInv(q)' /\ RegisterInv(q)' /\ FinalizeInv(q)' /\ WriteInv(q)'
  <2>1. CASE request' = [request EXCEPT ![q] = Idle]
    BY <1>0, <2>1, IdleType, RequestUpdate, IdleInv DEF Idle
  <2>2. CASE request' = [request EXCEPT ![q] = [request[q] EXCEPT !.pc = "consume"]]
    BY <1>0, <1>1, <1>2, <2>2, AdvanceFacts, AdvanceInv
  <2> QED BY <2>1, <2>2 DEF Promote
<1>10. RequestInv'
  BY <1>1, <1>8, <1>9, KeptInv, RequestStep
<1> QED BY <1>0, <1>2, <1>6, <1>7, <1>9, <1>10, RegistrationStep DEF RequestRely, TypeOK

\* A request whose registration object is dropped or replaced under it keeps the
\* object's last value, which is backed as the stored one was.
LEMMA KeepDetached ==
    ASSUME IndInv, SessionRely, TrustRely, nextToken' \in Nat,
           NEW n \in Nodes, \A m \in Nodes : m # n => registration'[m] = registration[m],
           NEW q \in Requests, NEW r \in RequestRecord, r.sid = None, request' = [Detach(n) EXCEPT ![q] = r],
           \A s \in Sessions : session[s].state = "none" => session'[s].state = "none",
           NEW p \in Requests, p # q
    PROVE  /\ request' \in [Requests -> RequestRecord]
           /\ request'[q] = r
           /\ CreateInv(p)' /\ RegisterInv(p)' /\ FinalizeInv(p)' /\ WriteInv(p)'
<1>0. TypeOK
  BY DEF IndInv
<1>1. /\ Detach(n) \in [Requests -> RequestRecord]
      /\ \A x \in Requests : Detach(n)[x].sid = request[x].sid
  BY <1>0, DetachFacts
<1>2. /\ request' \in [Requests -> RequestRecord]
      /\ request'[q] = r
      /\ \A x \in Requests : x # q => request'[x] = Detach(n)[x]
  BY <1>1
<1>3. CASE ~(request[p].pc = "write" /\ request[p].node = n /\ request[p].held = Shared)
  <2>1. request'[p] = request[p]
    BY <1>2, <1>3 DEF Detach
  <2>2. ASSUME request[p].pc = "create"
        PROVE  /\ session'[request[p].sid].state = "none"
               /\ \A x \in Requests : x # p => request'[x].sid # request[p].sid
    <3>1. CreateInv(p)
      BY DEF IndInv, RequestInv
    <3> QED BY <1>1, <1>2, <2>2, <3>1, ConstantsAssumption DEF CreateInv, Sessions
  <2>3. request[p].pc = "write" /\ request[p].held = Shared =>
            registration'[request[p].node].status # "none"
    BY <1>3 DEF IndInv, RequestInv, WriteInv, IsRegistered
  <2> QED BY <1>2, <2>1, <2>2, <2>3, KeepRequest
<1>4. CASE request[p].pc = "write" /\ request[p].node = n /\ request[p].held = Shared
  <2>1. request'[p].pc = "write" /\ request'[p].node = n /\ request'[p].held = registration[n]
    BY <1>0, <1>2, <1>4, DetachFacts
  <2>2. registration[n] # Shared
    BY <1>0 DEF TypeOK, RegistrationRecord, Shared
  <2>3. registration[n].status # "none" /\ Backed(n, registration[n])
    BY <1>4 DEF IndInv, RequestInv, WriteInv, IsRegistered, StoreInv, RegistrationInv
  <2>4. WriteInv(p)'
    BY <2>1, <2>2, <2>3 DEF WriteInv, Backed, SessionRely, TrustRely, Decided
  <2> QED BY <1>2, <2>1, <2>4 DEF CreateInv, RegisterInv, FinalizeInv
<1> QED BY <1>3, <1>4

\* The registration written when a session was approved.
LEMMA RegisterStep ==
    ASSUME IndInv, NEW q \in Requests, Register(q)
    PROVE  IndInv'
<1> DEFINE s == request[q].sid
           n == session[s].node
           obj == [status |-> IF session[s].state = "approved" THEN "approved" ELSE "pending",
                   source |-> s]
<1>0. TypeOK /\ RegisterInv(q) /\ request[q].pc = "register" /\ SessionInv
  BY DEF IndInv, RequestInv, Register, StoreInv
<1>1. s \in Onboarding /\ s \in Sessions /\ Decided(s) /\ n \in Nodes
  BY <1>0 DEF RegisterInv, SessionInv, Decided, Sessions
<1>2. UNCHANGED <<session, archived, trust, trustOf, principal, password, nextToken, failures>>
  BY DEF Register
<1>3. SessionRely /\ SessionsKept /\ TrustRely /\ nextToken' \in Nat
  BY <1>0, <1>2, UnchangedSession DEF TypeOK, TrustRely
<1>4. obj \in RegistrationRecord /\ obj.source = s /\ obj.status # "none" /\ obj.status # "trusted"
  BY <1>1 DEF RegistrationRecord
<1>5. /\ registration' = [registration EXCEPT ![n] = obj]
      /\ registrationOf' = [registrationOf EXCEPT ![s] = n]
      /\ request' = [Detach(n) EXCEPT ![q] = Idle]
  BY DEF Register
<1> HIDE DEF obj
<1>6. /\ registration' \in [Nodes -> RegistrationRecord]
      /\ registrationOf' \in [Sessions -> Nodes \cup {None}]
      /\ \A m \in Nodes : m # n => registration'[m] = registration[m]
      /\ registration'[n] = obj
      /\ \A x \in Sessions : x # s => registrationOf'[x] = registrationOf[x]
      /\ registrationOf'[s] = n
  BY <1>0, <1>1, <1>4, <1>5 DEF TypeOK
<1>7. RegistrationInv'
  <2>1. ASSUME NEW m \in Nodes, registration'[m].status # "none"
        PROVE  Backed(m, registration[m])'
    <3>1. CASE m = n
      BY <1>1, <1>2, <1>4, <1>6, <3>1 DEF Backed, Decided
    <3>2. CASE m # n
      BY <1>2, <1>6, <2>1, <3>2 DEF IndInv, StoreInv, RegistrationInv, Backed, Decided
    <3> QED BY <3>1, <3>2
  <2>2. ASSUME NEW x \in Sessions, registrationOf'[x] # None
        PROVE  Decided(x)' /\ session'[x].node = registrationOf'[x]
    BY <1>1, <1>2, <1>6, <2>2 DEF IndInv, StoreInv, RegistrationInv, Decided
  <2> QED BY <2>1, <2>2 DEF RegistrationInv, Backed, Decided
<1>8. Idle \in RequestRecord /\ Idle.sid = None
  BY IdleType DEF Idle
<1>9. request' \in [Requests -> RequestRecord] /\ request'[q] = Idle
  BY <1>0, <1>1, <1>5, <1>8, DetachFacts
<1>10. ASSUME NEW p \in Requests, p # q
       PROVE  CreateInv(p)' /\ RegisterInv(p)' /\ FinalizeInv(p)' /\ WriteInv(p)'
  BY <1>1, <1>3, <1>5, <1>6, <1>8, <1>10, KeepDetached DEF SessionsKept
<1>11. RequestInv'
  BY <1>9, <1>10, IdleInv DEF RequestInv
<1> QED BY <1>2, <1>6, <1>7, <1>9, <1>11, RegistrationStep

\* The write half: the object written is backed even when it was detached.
LEMMA WriteRegistrationStep ==
    ASSUME IndInv, NEW q \in Requests, WriteRegistration(q)
    PROVE  IndInv'
<1> DEFINE n == request[q].node
           obj == IF request[q].held = Shared THEN registration[n] ELSE request[q].held
<1>0. TypeOK /\ WriteInv(q) /\ request[q].pc = "write" /\ n \in Nodes
  BY DEF IndInv, RequestInv, WriteRegistration, WriteInv
<1>1. obj \in RegistrationRecord /\ obj.status # "none" /\ Backed(n, obj)
  BY <1>0 DEF TypeOK, RequestRecord, WriteInv, IsRegistered, IndInv, StoreInv,
     RegistrationInv
<1>2. UNCHANGED <<session, archived, trust, trustOf, principal, password, nextToken, failures>>
  BY DEF WriteRegistration
<1>3. SessionRely /\ SessionsKept /\ TrustRely /\ nextToken' \in Nat
  BY <1>0, <1>2, UnchangedSession DEF TypeOK, TrustRely
<1>4. /\ registration' = [registration EXCEPT ![n] = obj]
      /\ registrationOf' = [registrationOf EXCEPT ![obj.source] = n]
      /\ request' = [request EXCEPT ![q] = Idle]
  BY DEF WriteRegistration
<1> HIDE DEF obj
<1>5. /\ registration' \in [Nodes -> RegistrationRecord]
      /\ registrationOf' \in [Sessions -> Nodes \cup {None}]
      /\ \A m \in Nodes : m # n => registration'[m] = registration[m]
      /\ registration'[n] = obj
      /\ \A x \in Sessions : x # obj.source => registrationOf'[x] = registrationOf[x]
      /\ registrationOf'[obj.source] = n
  BY <1>0, <1>1, <1>4 DEF TypeOK, Backed
<1>6. RegistrationInv'
  <2>1. ASSUME NEW m \in Nodes, registration'[m].status # "none"
        PROVE  Backed(m, registration[m])'
    <3>1. CASE m = n
      BY <1>1, <1>2, <1>5, <3>1 DEF Backed, Decided
    <3>2. CASE m # n
      BY <1>2, <1>5, <2>1, <3>2 DEF IndInv, StoreInv, RegistrationInv, Backed, Decided
    <3> QED BY <3>1, <3>2
  <2>2. ASSUME NEW x \in Sessions, registrationOf'[x] # None
        PROVE  Decided(x)' /\ session'[x].node = registrationOf'[x]
    BY <1>1, <1>2, <1>5, <2>2 DEF IndInv, StoreInv, RegistrationInv, Decided, Backed
  <2> QED BY <2>1, <2>2 DEF RegistrationInv, Backed, Decided
<1>7. RequestRely(q) /\ request'[q] = Idle
  BY <1>0, <1>4, IdleType, RequestUpdate DEF Idle
<1>8. RegistrationRely
  BY <1>1, <1>5 DEF RegistrationRely, IsRegistered
<1>9. RequestInv'
  BY <1>3, <1>7, <1>8, IdleInv, KeptInv, RequestStep
<1> QED BY <1>2, <1>5, <1>6, <1>7, <1>9, RegistrationStep DEF RequestRely

\* The trust record of n is replaced by rec, issued for session s, and slot q goes on
\* to provision it.
LEMMA IssueStep ==
    ASSUME IndInv, NEW q \in Requests, NEW s \in Sessions, NEW n \in Nodes,
           NEW rec \in TrustRecord,
           NEW op \in {"onboarding", "reauth"}, NEW S,
           Decided(s), session[s].node = n, rec.source = s, rec.status # "none",
           \/ rec = trust[n] /\ nextToken' = nextToken
           \/ rec.token = nextToken /\ nextToken' = nextToken + 1,
           TrustUpsert(n, rec), session' = ExpireStale(S),
           request' = [request EXCEPT ![q] = Provisioning(op, s, n, rec.token)],
           UNCHANGED <<archived, registration, registrationOf, principal, password, failures>>
    PROVE  IndInv'
<1> DEFINE r == Provisioning(op, s, n, rec.token)
<1>0. TypeOK /\ rec.token \in Nat
  BY DEF IndInv, TrustRecord
<1>1. SessionRely /\ SessionsKept
  BY <1>0, ExpireStep
<1>2. /\ trust' \in [Nodes -> TrustRecord] /\ trust'[n] = rec
      /\ \A m \in Nodes : m # n => trust'[m] = trust[m]
      /\ trustOf' \in [Sessions -> Nodes \cup {None}]
      /\ \A x \in Sessions : trustOf'[x] = IF x = s THEN n ELSE IF trustOf[x] = n THEN None ELSE trustOf[x]
  BY <1>0 DEF TypeOK, TrustUpsert
<1>3. /\ nextToken \in Nat \ {0} /\ nextToken' \in Nat \ {0} /\ nextToken <= nextToken'
      /\ rec.token # 0 /\ rec.token < nextToken'
      /\ rec.token = trust[n].token \/ rec.token = nextToken
      /\ rec.token = nextToken => nextToken' = nextToken + 1
  BY <1>0 DEF TypeOK, IndInv, TokenInv, StoreInv, TrustInv, TrustRecord
<1>4. TrustRely
  BY <1>2, <1>3 DEF TrustRely
<1>5. \A m \in Nodes : trust[m].token \in Nat /\ trust[m].token < nextToken /\ password[m] \in Nat
  BY <1>0 DEF IndInv, TypeOK, TokenInv, TrustRecord
<1>6. TokenInv'
  BY <1>2, <1>3, <1>5 DEF IndInv, TokenInv
<1>7. CredentialIsOwn'
  BY <1>2, <1>3, <1>5 DEF IndInv, CredentialIsOwn
<1>8. StoreInv'
  <2>1. SessionInv'
    BY <1>1, KeptInv
  <2>2. TrustInv'
    BY <1>2, <1>3 DEF IndInv, StoreInv, TrustInv, NoTrust
  <2>3. TrustNeedsApproval'
    BY <1>1, <1>2 DEF IndInv, StoreInv, TrustNeedsApproval, SessionRely, Decided
  <2>4. ReplayOnlyByIssuer'
    BY <1>2, ConstantsAssumption, <1>0 DEF IndInv, StoreInv, ReplayOnlyByIssuer, TypeOK
  <2>5. RegistrationInv'
    BY <1>1, <1>4 DEF IndInv, StoreInv, RegistrationInv, Backed, SessionRely,
       TrustRely, Decided
  <2>6. ConsumedAfterIssue'
    BY <1>0, <1>1, <1>4 DEF IndInv, StoreInv, ConsumedAfterIssue, SessionInv,
       SessionRely, SessionsKept, TrustRely
  <2> QED BY <2>1, <2>2, <2>3, <2>4, <2>5, <2>6 DEF StoreInv
<1>9. /\ r \in RequestRecord
      /\ r.pc = "principal" /\ r.sid = s /\ r.node = n /\ r.token = rec.token
  BY <1>0, IdleType DEF Provisioning, Idle, RequestRecord
<1>10. request' = [request EXCEPT ![q] = r]
  OBVIOUS
<1> HIDE DEF r
<1>11. RequestRely(q) /\ request'[q] = r
  BY <1>0, <1>9, <1>10, RequestUpdate DEF Decided
<1>12. FinalizeInv(q)'
  <2>1. Decided(s)' /\ session'[s].node = n
    BY <1>1 DEF SessionRely, Decided
  <2>2. \A m \in Nodes : trust'[m].token = rec.token => m = n
    BY <1>2, <1>3, <1>6 DEF TokenInv
  <2> QED BY <1>0, <1>2, <1>3, <1>9, <1>11, <2>1, <2>2 DEF FinalizeInv
<1>13. CreateInv(q)' /\ RegisterInv(q)' /\ WriteInv(q)'
  BY <1>9, <1>11 DEF CreateInv, RegisterInv, WriteInv
<1>14. RegistrationRely
  BY DEF RegistrationRely, IsRegistered
<1>15. RequestInv'
  BY <1>1, <1>3, <1>4, <1>11, <1>12, <1>13, <1>14, KeptInv, RequestStep
<1>16. TypeOK'
  BY <1>0, <1>1, <1>2, <1>3, <1>11 DEF TypeOK, SessionRely, RequestRely
<1> QED BY <1>6, <1>7, <1>8, <1>15, <1>16 DEF IndInv

\* Finalize of an approved onboarding session, first time and again.
LEMMA FinalizeApprovedStep ==
    ASSUME IndInv, NEW q \in Requests, NEW s \in Onboarding, FinalizeApproved(q, s)
    PROVE  IndInv'
<1>0. TypeOK /\ s \in Sessions /\ Decided(s) /\ session[s].node \in Nodes /\ nextToken \in Nat
  BY DEF IndInv, StoreInv, SessionInv, Sessions, FinalizeApproved, Decided, TypeOK
<1>1. CASE trustOf[s] # None
  <2> DEFINE n == trustOf[s]
  <2>1. n \in Nodes /\ trust[n].source = s /\ trust[n].status # "none" /\ session[s].node = n /\ trust[n] \in TrustRecord
    BY <1>0, <1>1, ConstantsAssumption
       DEF TypeOK, IndInv, StoreInv, ReplayOnlyByIssuer, TrustInv, TrustNeedsApproval, NoTrust, Sessions
  <2>2. /\ TrustUpsert(n, trust[n]) /\ nextToken' = nextToken
        /\ request' = [request EXCEPT ![q] = Provisioning("onboarding", s, n, trust[n].token)]
        /\ session' = ExpireStale(Onboarding)
        /\ UNCHANGED <<archived, registration, registrationOf, principal, password, failures>>
    BY <1>1 DEF FinalizeApproved, IssuedNode, IssuedRecord
  <2> HIDE DEF n
  <2> QED BY <1>0, <2>1, <2>2, IssueStep
<1>2. CASE trustOf[s] = None
  <2> DEFINE n == session[s].node
             rec == [status |-> "trusted", token |-> nextToken, source |-> s]
  <2>1. rec \in TrustRecord /\ rec.source = s /\ rec.status # "none" /\ rec.token = nextToken
    BY <1>0 DEF TrustRecord
  <2>2. /\ TrustUpsert(n, rec) /\ nextToken' = nextToken + 1
        /\ request' = [request EXCEPT ![q] = Provisioning("onboarding", s, n, rec.token)]
        /\ session' = ExpireStale(Onboarding)
        /\ UNCHANGED <<archived, registration, registrationOf, principal, password, failures>>
    BY <1>2 DEF FinalizeApproved, IssuedNode, IssuedRecord
  <2> HIDE DEF rec
  <2> QED BY <1>0, <2>1, <2>2, IssueStep
<1> QED BY <1>1, <1>2

\* Finalize of an approved re-auth session.
LEMMA FinalizeReauthStep ==
    ASSUME IndInv, NEW q \in Requests, NEW s \in Reauth, FinalizeReauth(q, s)
    PROVE  IndInv'
<1> DEFINE n == session[s].node
           rec == [status |-> "trusted", token |-> nextToken, source |-> s]
<1>0. TypeOK /\ s \in Sessions /\ Decided(s) /\ n \in Nodes /\ nextToken \in Nat
  BY DEF IndInv, StoreInv, SessionInv, Sessions, FinalizeReauth, Decided, TypeOK
<1>1. rec \in TrustRecord /\ rec.source = s /\ rec.status # "none" /\ rec.token = nextToken
  BY <1>0 DEF TrustRecord
<1>2. /\ TrustUpsert(n, rec) /\ nextToken' = nextToken + 1
      /\ request' = [request EXCEPT ![q] = Provisioning("reauth", s, n, rec.token)]
      /\ session' = ExpireStale(Reauth)
      /\ UNCHANGED <<archived, registration, registrationOf, principal, password, failures>>
  BY DEF FinalizeReauth
<1> HIDE DEF rec
<1> QED BY <1>0, <1>1, <1>2, IssueStep

\* revoke_by_node changes the status of a record and nothing else.
LEMMA RevokeFacts ==
    ASSUME IndInv, NEW n \in Nodes, trust' = RevokedTrust(n)
    PROVE  /\ trust' \in [Nodes -> TrustRecord]
           /\ \A m \in Nodes :
                /\ trust'[m].token = trust[m].token
                /\ trust'[m].source = trust[m].source
                /\ trust'[m].status = "none" <=> trust[m].status = "none"
                /\ trust'[m].status = "none" => trust'[m] = trust[m]
<1>1. trust \in [Nodes -> TrustRecord]
  BY DEF IndInv, TypeOK
<1>2. [trust[n] EXCEPT !.status = "revoked"] \in TrustRecord
  BY <1>1 DEF TrustRecord
<1>3. \/ trust' = trust
      \/ trust[n].status # "none" /\ trust' = [trust EXCEPT ![n] = [trust[n] EXCEPT !.status = "revoked"]]
  BY DEF RevokedTrust
<1>4. trust' \in [Nodes -> TrustRecord]
  BY <1>1, <1>2, <1>3
<1>5. ASSUME NEW m \in Nodes
      PROVE  \/ trust'[m] = trust[m]
             \/ trust[m].status # "none" /\ trust'[m] = [trust[m] EXCEPT !.status = "revoked"]
  BY <1>1, <1>3
<1> QED BY <1>1, <1>4, <1>5 DEF TrustRecord

\* A revocation, given what it makes of registrations and requests.
LEMMA RevocationStep ==
    ASSUME IndInv, NEW n \in Nodes, trust' = RevokedTrust(n),
           UNCHANGED <<session, archived, trustOf, principal, password, nextToken, failures>>,
           registration' \in [Nodes -> RegistrationRecord],
           registrationOf' \in [Sessions -> Nodes \cup {None}],
           request' \in [Requests -> RequestRecord],
           RegistrationInv', RequestInv'
    PROVE  IndInv'
<1>1. /\ trust' \in [Nodes -> TrustRecord]
      /\ \A m \in Nodes :
            /\ trust'[m].token = trust[m].token
            /\ trust'[m].source = trust[m].source
            /\ trust'[m].status = "none" <=> trust[m].status = "none"
            /\ trust'[m].status = "none" => trust'[m] = trust[m]
  BY RevokeFacts
<1>2. TypeOK'
  BY <1>1 DEF IndInv, TypeOK
<1>3. SessionInv' /\ TrustInv' /\ TrustNeedsApproval'
  BY <1>1 DEF IndInv, StoreInv, SessionInv, TrustInv, TrustNeedsApproval, NoTrust
<1>4. ReplayOnlyByIssuer'
  BY <1>1 DEF IndInv, StoreInv, ReplayOnlyByIssuer, TypeOK
<1>5. ConsumedAfterIssue'
  <2>1. \A s \in Sessions : session[s].state = "consumed" => session[s].node \in Nodes
    BY DEF IndInv, StoreInv, SessionInv
  <2> QED BY <1>1, <2>1 DEF IndInv, StoreInv, ConsumedAfterIssue
<1>6. TokenInv' /\ CredentialIsOwn'
  BY <1>1 DEF IndInv, TokenInv, CredentialIsOwn
<1> QED BY <1>2, <1>3, <1>4, <1>5, <1>6 DEF IndInv, StoreInv

\* Revoking a node, up to the deprovisioning.
LEMMA RevokeStep ==
    ASSUME IndInv, NEW q \in Requests, NEW n \in Nodes, RevokeRegistration(q, n)
    PROVE  IndInv'
<1> DEFINE r == [Idle EXCEPT !.pc = "remove", !.node = n]
<1>0. TypeOK /\ IsRegistered(n) /\ trust' = RevokedTrust(n)
  BY DEF IndInv, RevokeRegistration
<1>1. SessionRely /\ SessionsKept
  BY <1>0, UnchangedSession DEF RevokeRegistration
<1>2. UNCHANGED <<session, archived, trustOf, registrationOf, principal, password, nextToken, failures>>
  BY DEF RevokeRegistration
<1>3. TrustRely /\ nextToken' \in Nat
  BY <1>0, <1>2, RevokeFacts DEF TrustRely, TypeOK
<1>4. [registration[n] EXCEPT !.status = "revoked"] \in RegistrationRecord
  BY <1>0 DEF TypeOK, RegistrationRecord
<1>5. registration' = [registration EXCEPT ![n] = [registration[n] EXCEPT !.status = "revoked"]]
  BY <1>0 DEF RevokeRegistration, SetTrustStatus
<1>6. /\ registration' \in [Nodes -> RegistrationRecord]
      /\ \A m \in Nodes : /\ registration'[m].source = registration[m].source
                          /\ \/ registration'[m].status = registration[m].status
                             \/ m = n /\ registration'[m].status = "revoked"
  BY <1>0, <1>4, <1>5 DEF TypeOK, RegistrationRecord
<1>7. RegistrationInv'
  BY <1>0, <1>2, <1>3, <1>6 DEF IndInv, StoreInv, RegistrationInv, Backed, Decided,
     IsRegistered, TrustRely
<1>8. r \in RequestRecord /\ r.pc = "remove" /\ r.sid = None /\ r.node = n
  BY IdleType DEF Idle, RequestRecord
<1>9. request' = [request EXCEPT ![q] = r]
  BY DEF RevokeRegistration
<1> HIDE DEF r
<1>10. RequestRely(q) /\ request'[q] = r
  BY <1>0, <1>8, <1>9, RequestUpdate
<1>11. CreateInv(q)' /\ RegisterInv(q)' /\ FinalizeInv(q)' /\ WriteInv(q)'
  BY <1>8, <1>10 DEF CreateInv, RegisterInv, FinalizeInv, WriteInv
<1>12. RegistrationRely
  BY <1>6 DEF RegistrationRely, IsRegistered
<1>13. RequestInv'
  BY <1>1, <1>3, <1>10, <1>11, <1>12, KeptInv, RequestStep
<1>14. registrationOf' \in [Sessions -> Nodes \cup {None}] /\ request' \in [Requests -> RequestRecord]
  BY <1>0, <1>2, <1>10 DEF TypeOK, RequestRely
<1> QED BY <1>0, <1>2, <1>6, <1>7, <1>13, <1>14, RevocationStep

\* Removing a node, up to the deprovisioning.
LEMMA DeleteStep ==
    ASSUME IndInv, NEW q \in Requests, NEW n \in Nodes, DeleteRegistration(q, n)
    PROVE  IndInv'
<1> DEFINE r == [Idle EXCEPT !.pc = "remove", !.node = n]
<1>0. TypeOK /\ trust' = RevokedTrust(n)
  BY DEF IndInv, DeleteRegistration
<1>1. SessionRely /\ SessionsKept
  BY <1>0, UnchangedSession DEF DeleteRegistration
<1>2. UNCHANGED <<session, archived, trustOf, principal, password, nextToken, failures>>
  BY DEF DeleteRegistration
<1>3. TrustRely /\ nextToken' \in Nat
  BY <1>0, <1>2, RevokeFacts DEF TrustRely, TypeOK
<1>4. NoRegistration \in RegistrationRecord /\ NoRegistration.status = "none"
  BY DEF NoRegistration, RegistrationRecord
<1>5. /\ registration' \in [Nodes -> RegistrationRecord]
      /\ registration'[n].status = "none"
      /\ \A m \in Nodes : m # n => registration'[m] = registration[m]
  BY <1>0, <1>4 DEF TypeOK, DeleteRegistration
<1>6. /\ registrationOf' \in [Sessions -> Nodes \cup {None}]
      /\ \A s \in Sessions : registrationOf'[s] # None => registrationOf'[s] = registrationOf[s]
  BY <1>0 DEF TypeOK, DeleteRegistration
<1>7. RegistrationInv'
  BY <1>2, <1>3, <1>5, <1>6 DEF IndInv, StoreInv, RegistrationInv, Backed, Decided,
     TrustRely
<1>8. r \in RequestRecord /\ r.pc = "remove" /\ r.sid = None /\ r.node = n
  BY IdleType DEF Idle, RequestRecord
<1>9. request' = [Detach(n) EXCEPT ![q] = r]
  BY DEF DeleteRegistration
<1> HIDE DEF r
<1>10. request' \in [Requests -> RequestRecord] /\ request'[q] = r
  BY <1>0, <1>8, <1>9, DetachFacts
<1>11. ASSUME NEW p \in Requests, p # q
       PROVE  CreateInv(p)' /\ RegisterInv(p)' /\ FinalizeInv(p)' /\ WriteInv(p)'
  BY <1>1, <1>3, <1>5, <1>8, <1>9, <1>11, KeepDetached DEF SessionsKept
<1>12. CreateInv(q)' /\ RegisterInv(q)' /\ FinalizeInv(q)' /\ WriteInv(q)'
  BY <1>8, <1>10 DEF CreateInv, RegisterInv, FinalizeInv, WriteInv
<1>13. RequestInv'
  BY <1>11, <1>12 DEF RequestInv
<1> QED BY <1>0, <1>2, <1>5, <1>6, <1>7, <1>10, <1>13, RevocationStep

\* A restart drops the requests and keeps the stores.
LEMMA RestartStep ==
    ASSUME IndInv, Restart
    PROVE  IndInv'
<1>0. TypeOK
  BY DEF IndInv
<1>1. SessionRely /\ SessionsKept
  BY <1>0, UnchangedSession DEF Restart
<1>2. TypeOK'
  BY <1>0, IdleType DEF TypeOK, Restart
<1>3. StoreInv'
  BY <1>1, KeptInv, StoreInvSession DEF Restart
<1>4. TokenInv' /\ CredentialIsOwn'
  BY DEF IndInv, TokenInv, CredentialIsOwn, Restart
<1>5. RequestInv'
  BY IdleInv DEF RequestInv, Restart
<1> QED BY <1>2, <1>3, <1>4, <1>5 DEF IndInv

\* Nothing changes.
LEMMA StutterStep ==
    ASSUME IndInv, UNCHANGED vars
    PROVE  IndInv'
<1>1. SessionRely /\ SessionsKept
  BY UnchangedSession DEF IndInv, vars
<1> QED BY <1>1, SessionStep DEF vars, IndInv, TypeOK

\* The empty stores satisfy the invariant.
LEMMA InitInv == Init => IndInv
<1> SUFFICES ASSUME Init PROVE IndInv
  OBVIOUS
<1>1. TypeOK
  BY IdleType, ConstantsAssumption
     DEF Init, TypeOK, NoSession, SessionRecord, SessionStates, NoTrust, TrustRecord,
         NoRegistration, RegistrationRecord
<1>2. SessionInv /\ TrustInv /\ TrustNeedsApproval /\ ConsumedAfterIssue /\ ReplayOnlyByIssuer
  BY DEF Init, NoSession, NoTrust, SessionInv, TrustInv, TrustNeedsApproval,
         ConsumedAfterIssue, ReplayOnlyByIssuer
<1>3. RegistrationInv
  BY DEF Init, NoRegistration, RegistrationInv
<1>4. TokenInv /\ CredentialIsOwn
  BY DEF Init, NoTrust, TokenInv, CredentialIsOwn
<1>5. RequestInv
  BY DEF Init, Idle, RequestInv, CreateInv, RegisterInv, FinalizeInv, WriteInv
<1> QED BY <1>1, <1>2, <1>3, <1>4, <1>5 DEF IndInv, StoreInv

\* Every step keeps the invariant.
LEMMA NextInv == IndInv /\ [Next]_vars => IndInv'
<1> SUFFICES ASSUME IndInv, [Next]_vars PROVE IndInv'
  OBVIOUS
<1>1. ASSUME NEW q \in Requests, Accept(q) PROVE IndInv'
  <2>1. ASSUME NEW n \in Nodes, NEW nonce \in Nonces, NEW s \in Onboarding,
               StartOnboarding(q, s, n, nonce)
        PROVE  IndInv'
    BY <2>1, StartStep DEF StartOnboarding, Sessions
  <2>2. ASSUME NEW n \in Nodes, NEW nonce \in Nonces, NEW s \in Reauth,
               StartReauth(q, s, n, nonce)
        PROVE  IndInv'
    BY <2>2, StartStep DEF StartReauth, Sessions
  <2>3. ASSUME NEW s \in Onboarding, ApproveOnboarding(q, s) PROVE IndInv'
    BY <2>3, ApproveOnboardingStep
  <2>4. ASSUME NEW n \in Nodes, RevokeRegistration(q, n) PROVE IndInv'
    BY <2>4, RevokeStep
  <2>5. ASSUME NEW n \in Nodes, DeleteRegistration(q, n) PROVE IndInv'
    BY <2>5, DeleteStep
  <2>6. ASSUME NEW n \in Nodes, ReadRegistration(q, n) PROVE IndInv'
    BY <2>6, ReadRegistrationStep
  <2> QED BY <1>1, <2>1, <2>2, <2>3, <2>4, <2>5, <2>6 DEF Accept
<1>2. ASSUME NEW q \in Requests, Finalize(q) PROVE IndInv'
  BY <1>2, FinalizeApprovedStep, FinalizeConsumedStep, FinalizeReauthStep DEF Finalize
<1>3. ASSUME NEW q \in Requests, Continue(q) PROVE IndInv'
  BY <1>3, CreateSessionStep, RegisterStep, PrincipalStep, PasswordStep, ConsumeStep,
     PromoteStep, WriteRegistrationStep DEF Continue
<1>4. ASSUME NEW q \in Requests, RequestFails(q) PROVE IndInv'
  BY <1>4, RequestFailsStep
<1> QED BY <1>1, <1>2, <1>3, <1>4, OperateStep, RestartStep, StutterStep DEF Next

\* IndInv holds in every reachable state.
THEOREM Invariance == Spec => []IndInv
<1>1. Init => IndInv
  BY InitInv
<1>2. IndInv /\ [Next]_vars => IndInv'
  BY NextInv
<1> QED BY <1>1, <1>2, PTL DEF Spec

-----------------------------------------------------------------------------
(* The properties *)

\* Every reachable state is well typed.
THEOREM TypeCorrect == Spec => []TypeOK
<1>1. IndInv => TypeOK
  BY DEF IndInv
<1> QED BY <1>1, Invariance, PTL

\* No trust record without an operator's approval of a session of the same node.
THEOREM ApprovalTheorem == Spec => []TrustNeedsApproval
<1>1. IndInv => TrustNeedsApproval
  BY DEF IndInv, StoreInv
<1> QED BY <1>1, Invariance, PTL

\* Only the session that issued a node's current record can hand it out again.
THEOREM ReplayTheorem == Spec => []ReplayOnlyByIssuer
<1>1. IndInv => ReplayOnlyByIssuer
  BY DEF IndInv, StoreInv
<1> QED BY <1>1, Invariance, PTL

\* A node the registry calls trusted has a trust record, also after a registration
\* that was read before a removal is written back.
THEOREM TrustedTheorem == Spec => []TrustedHasRecord
<1>1. IndInv => TrustedHasRecord
  BY DEF IndInv, StoreInv, RegistrationInv, Backed, TrustedHasRecord
<1> QED BY <1>1, Invariance, PTL

\* A session is consumed only after a record was issued for its node.
THEOREM ConsumedTheorem == Spec => []ConsumedAfterIssue
<1>1. IndInv => ConsumedAfterIssue
  BY DEF IndInv, StoreInv
<1> QED BY <1>1, Invariance, PTL

\* The MQTT credential of a node was issued to that node and is not newer than its
\* trust record.
THEOREM CredentialTheorem == Spec => []CredentialIsOwn
<1>1. IndInv => CredentialIsOwn
  BY DEF IndInv
<1> QED BY <1>1, Invariance, PTL

\* What one step does to trust records.
LEMMA TokenStep ==
    ASSUME IndInv, [Next]_vars, NEW n \in Nodes
    PROVE  /\ trust[n].token <= trust'[n].token
           /\ trust[n].status = "revoked" /\ trust'[n].status = "trusted"
                => trust[n].token < trust'[n].token
<1>0. TypeOK /\ \A m \in Nodes : trust[m].token \in Nat /\ trust[m].token < nextToken
  BY DEF IndInv, TypeOK, TrustRecord, TokenInv
<1> DEFINE Goal == /\ trust[n].token <= trust'[n].token
                   /\ trust[n].status = "revoked" /\ trust'[n].status = "trusted"
                         => trust[n].token < trust'[n].token
<1>1. ASSUME trust' = trust PROVE Goal
  BY <1>0, <1>1
<1>2. ASSUME NEW m \in Nodes, trust' = RevokedTrust(m) PROVE Goal
  <2>1. trust'[n] = trust[n] \/ trust'[n] = [trust[n] EXCEPT !.status = "revoked"]
    BY <1>0, <1>2 DEF RevokedTrust, TypeOK
  <2> QED BY <1>0, <2>1 DEF TypeOK, TrustRecord
<1>3. ASSUME NEW m \in Nodes, NEW rec \in TrustRecord, TrustUpsert(m, rec),
             rec = trust[m] \/ rec.token = nextToken
      PROVE  Goal
  <2>1. trust'[n] = trust[n] \/ trust'[n].token = nextToken
    BY <1>0, <1>3 DEF TrustUpsert, TypeOK
  <2> QED BY <1>0, <2>1 DEF TypeOK
<1>4. ASSUME NEW q \in Requests, NEW s \in Onboarding, FinalizeApproved(q, s) PROVE Goal
  <2>1. s \in Sessions /\ session[s].node \in Nodes /\ nextToken \in Nat
    BY <1>0, <1>4 DEF Sessions, IndInv, StoreInv, SessionInv, FinalizeApproved, TypeOK
  <2>2. CASE trustOf[s] # None
    <3>1. trustOf[s] \in Nodes /\ trust[trustOf[s]] \in TrustRecord
      BY <1>0, <2>1, <2>2 DEF TypeOK
    <3>2. TrustUpsert(trustOf[s], trust[trustOf[s]])
      BY <1>4, <2>2 DEF FinalizeApproved, IssuedNode, IssuedRecord
    <3> QED BY <1>3, <3>1, <3>2
  <2>3. CASE trustOf[s] = None
    <3> DEFINE rec == [status |-> "trusted", token |-> nextToken, source |-> s]
    <3>1. rec \in TrustRecord /\ rec.token = nextToken
      BY <2>1 DEF TrustRecord
    <3>2. TrustUpsert(session[s].node, rec)
      BY <1>4, <2>3 DEF FinalizeApproved, IssuedNode, IssuedRecord
    <3> HIDE DEF rec
    <3> QED BY <1>3, <2>1, <3>1, <3>2
  <2> QED BY <2>2, <2>3
<1>5. ASSUME NEW q \in Requests, NEW s \in Reauth, FinalizeReauth(q, s) PROVE Goal
  <2> DEFINE rec == [status |-> "trusted", token |-> nextToken, source |-> s]
  <2>1. s \in Sessions /\ session[s].node \in Nodes /\ nextToken \in Nat
    BY <1>0, <1>5 DEF Sessions, IndInv, StoreInv, SessionInv, FinalizeReauth, TypeOK
  <2>2. rec \in TrustRecord /\ rec.token = nextToken
    BY <2>1 DEF TrustRecord
  <2>3. TrustUpsert(session[s].node, rec)
    BY <1>5 DEF FinalizeReauth
  <2> HIDE DEF rec
  <2> QED BY <1>3, <2>1, <2>2, <2>3
<1>6. ASSUME NEW q \in Requests, Finalize(q) PROVE Goal
  <2>1. ASSUME NEW s \in Onboarding, FinalizeConsumed(q, s) PROVE Goal
    BY <1>1, <2>1 DEF FinalizeConsumed
  <2> QED BY <1>4, <1>5, <1>6, <2>1 DEF Finalize
<1>7. ASSUME NEW q \in Requests, Accept(q) PROVE Goal
  <2> HIDE DEF Goal
  <2> QED BY <1>1, <1>2, <1>7
       DEF Accept, StartOnboarding, StartReauth, ApproveOnboarding, RevokeRegistration,
           DeleteRegistration, ReadRegistration
<1>8. ASSUME NEW q \in Requests, Continue(q) \/ RequestFails(q) PROVE Goal
  <2> HIDE DEF Goal
  <2> QED BY <1>1, <1>8
       DEF Continue, CreateSession, Register, UpsertPrincipal, SetPrincipalPassword,
           ConsumeFinalPayload, Promote, RemovePrincipal, RotatePrincipal,
           WriteRegistration, RequestFails
<1>9. ASSUME Operate \/ Restart \/ UNCHANGED vars PROVE Goal
  <2> HIDE DEF Goal
  <2> QED BY <1>1, <1>9
       DEF Operate, ApproveReauth, TtlElapses, Poll, Reject, CancelActive, Maintain, Restart, vars
<1> HIDE DEF Goal
<1>10. Goal
  BY <1>6, <1>7, <1>8, <1>9 DEF Next
<1> QED BY <1>10 DEF Goal

\* A superseded or revoked token is never current again.
THEOREM TokenTheorem == Spec => TokensMoveForward
<1>1. IndInv /\ [Next]_vars =>
        [\A n \in Nodes :
            /\ trust[n].token <= trust'[n].token
            /\ trust[n].status = "revoked" /\ trust'[n].status = "trusted"
                  => trust[n].token < trust'[n].token]_vars
  BY TokenStep
<1> QED BY <1>1, Invariance, PTL DEF Spec, TokensMoveForward

\* What a step may do to the state of session s.
Stands(s) ==
    /\ session[s].state \in Terminal => session'[s].state = session[s].state
    /\ session[s].state = "approved" => session'[s].state \in {"approved", "consumed"}

\* What one step does to the state of a session.
LEMMA DecisionStep ==
    ASSUME IndInv, [Next]_vars, NEW s \in Sessions
    PROVE  Stands(s)
<1>0. TypeOK
  BY DEF IndInv
<1>1. ASSUME session' = session PROVE Stands(s)
  BY <1>1 DEF Stands
<1>2. ASSUME NEW S, session' = ExpireStale(S) PROVE Stands(s)
  BY <1>0, <1>2, ExpireFacts DEF Stands, Terminal
<1>3. ASSUME NEW S, NEW t \in Sessions, NEW next \in {"approved", "rejected"},
             CanTransition(ExpireStale(S)[t].state, next),
             session' = [ExpireStale(S) EXCEPT ![t].state = next]
      PROVE  Stands(s)
  <2> DEFINE e == ExpireStale(S)
  <2>1. /\ e \in [Sessions -> SessionRecord]
        /\ \/ e[s].state = session[s].state
           \/ session[s].state = "pending" /\ e[s].state = "expired"
    BY <1>0, ExpireFacts
  <2>2. /\ session' = [e EXCEPT ![t].state = next]
        /\ e[t].state = next \/ e[t].state = "pending"
    BY <1>3 DEF CanTransition
  <2> HIDE DEF e
  <2>3. session'[s].state = IF s = t THEN next ELSE e[s].state
    BY <2>1, <2>2 DEF SessionRecord
  <2> QED BY <2>1, <2>2, <2>3 DEF Stands, Terminal
<1>4. ASSUME NEW q \in Requests, Accept(q) PROVE Stands(s)
  <2>1. ASSUME NEW t \in Onboarding, ApproveOnboarding(q, t) PROVE Stands(s)
    BY <1>3, <2>1 DEF ApproveOnboarding, Sessions
  <2> QED BY <1>1, <1>2, <1>4, <2>1
       DEF Accept, StartOnboarding, StartReauth, RevokeRegistration, DeleteRegistration,
           ReadRegistration
<1>5. ASSUME NEW q \in Requests, Finalize(q) PROVE Stands(s)
  BY <1>2, <1>5 DEF Finalize, FinalizeApproved, FinalizeConsumed, FinalizeReauth
<1>6. ASSUME NEW q \in Requests, Continue(q) \/ RequestFails(q) PROVE Stands(s)
  <2>1. ASSUME CreateSession(q) PROVE Stands(s)
    <3>1. request[q].sid \in Sessions /\ session[request[q].sid].state = "none"
      BY <2>1 DEF IndInv, RequestInv, CreateInv, CreateSession
    <3>2. s # request[q].sid => session'[s] = session[s]
      BY <1>0, <2>1 DEF CreateSession, TypeOK
    <3> QED BY <3>1, <3>2 DEF Stands, Terminal
  <2>2. ASSUME ConsumeFinalPayload(q) PROVE Stands(s)
    <3>1. \/ session' = session
          \/ /\ session[request[q].sid].state = "approved"
             /\ session' = [session EXCEPT ![request[q].sid].state = "consumed"]
      BY <2>2 DEF ConsumeFinalPayload
    <3>2. \/ session'[s].state = session[s].state
          \/ session[s].state = "approved" /\ session'[s].state = "consumed"
      BY <1>0, <3>1 DEF TypeOK, SessionRecord
    <3> QED BY <3>2 DEF Stands, Terminal
  <2> QED BY <1>1, <1>6, <2>1, <2>2
       DEF Continue, Register, UpsertPrincipal, SetPrincipalPassword, Promote,
           RemovePrincipal, RotatePrincipal, WriteRegistration, RequestFails
<1>7. ASSUME Operate PROVE Stands(s)
  <2>1. ASSUME NEW t \in Reauth, ApproveReauth(t) PROVE Stands(s)
    BY <1>3, <2>1 DEF ApproveReauth, Sessions
  <2>2. ASSUME NEW S \in {Onboarding, Reauth}, NEW t \in S, Reject(S, t) PROVE Stands(s)
    BY <1>3, <2>2 DEF Reject, Sessions
  <2>3. ASSUME CancelActive PROVE Stands(s)
    <3> DEFINE e == ExpireStale(Onboarding)
    <3>1. /\ e \in [Sessions -> SessionRecord]
          /\ \/ e[s].state = session[s].state
             \/ session[s].state = "pending" /\ e[s].state = "expired"
      BY <1>0, ExpireFacts
    <3>2. \/ session'[s] = e[s]
          \/ e[s].state = "pending" /\ session'[s] = [e[s] EXCEPT !.state = "cancelled"]
      BY <2>3 DEF CancelActive, CanTransition
    <3> HIDE DEF e
    <3> QED BY <3>1, <3>2 DEF Stands, Terminal
  <2>4. ASSUME NEW t \in Sessions, TtlElapses(t) PROVE Stands(s)
    <3>1. session'[s].state = session[s].state
      BY <1>0, <2>4 DEF TtlElapses, TypeOK, SessionRecord
    <3> QED BY <3>1 DEF Stands
  <2> QED BY <1>2, <1>7, <2>1, <2>2, <2>3, <2>4 DEF Operate, Poll, Maintain
<1>8. ASSUME Restart \/ UNCHANGED vars PROVE Stands(s)
  BY <1>1, <1>8 DEF Restart, vars
<1> QED BY <1>4, <1>5, <1>6, <1>7, <1>8 DEF Next

\* The final decision on a session is never changed.
THEOREM DecisionTheorem == Spec => DecisionStands
<1>1. IndInv /\ [Next]_vars =>
        [\A s \in Sessions :
            /\ session[s].state \in Terminal => session'[s].state = session[s].state
            /\ session[s].state = "approved" => session'[s].state \in {"approved", "consumed"}]_vars
  BY DecisionStep DEF Stands
<1> QED BY <1>1, Invariance, PTL DEF Spec, DecisionStands

=============================================================================
