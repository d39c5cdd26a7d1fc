------------------------------ MODULE NodeTrust ------------------------------
(***************************************************************************)
(* Node onboarding, re-authentication, trust and removal in Hexe Core:     *)
(* the four JSON stores of app/system/onboarding (onboarding sessions,     *)
(* re-auth sessions, registrations, trust records), the node's MQTT        *)
(* principal and credential, and the HTTP handlers of api/system_legacy.py *)
(* that change them.                                                       *)
(*                                                                         *)
(* Handlers declared "def" run in the server's thread pool and handlers    *)
(* declared "async def" run on the event loop, where they give way at every*)
(* await; no lock spans two store calls.  A handler is therefore a request *)
(* that moves from one store call to the next, and every other request may *)
(* run in between.  One call of a store method is one step.  Adjacent      *)
(* calls are joined only where no other request can tell the difference.   *)
(***************************************************************************)
EXTENDS Naturals

CONSTANTS
    Nodes,        \* node ids
    Nonces,       \* node nonces
    Onboarding,   \* ids that onboarding sessions draw from (secrets.token_urlsafe)
    Reauth,       \* ids that re-auth sessions draw from
    Requests,     \* slots for requests in flight: bounds the concurrency
    None,         \* Python's None
    MaxToken,     \* bound: trust tokens ever issued
    MaxFailures   \* bound: requests that die in an awaited call, and restarts

ASSUME ConstantsAssumption ==
    /\ Onboarding \cap Reauth = {}
    /\ None \notin Nodes \cup Nonces \cup Onboarding \cup Reauth
    /\ MaxToken \in Nat
    /\ MaxFailures \in Nat

Sessions == Onboarding \cup Reauth

VARIABLES
    session,         \* both session stores: state, node, nonce, TTL elapsed
    archived,        \* onboarding sessions moved to the archive file
    trust,           \* NodeTrustStore._records_by_node
    trustOf,         \* NodeTrustStore._session_to_node
    registration,    \* NodeRegistrationsStore._records_by_node
    registrationOf,  \* NodeRegistrationsStore._session_to_node
    principal,       \* nodes with an active principal in the MQTT state
    password,        \* token stored as MQTT password of node:<id>, 0 for none
    request,         \* the handlers in flight
    nextToken,       \* the next fresh trust token
    failures         \* failures so far

vars == <<session, archived, trust, trustOf, registration, registrationOf,
          principal, password, request, nextToken, failures>>

-----------------------------------------------------------------------------
(* Records *)

SessionStates == {"none", "pending", "approved", "rejected", "expired",
                  "consumed", "cancelled"}

Terminal == {"rejected", "expired", "consumed", "cancelled"}

SessionRecord == [state   : SessionStates,
                  node    : Nodes \cup {None},
                  nonce   : Nonces \cup {None},
                  overdue : BOOLEAN]

NoSession == [state |-> "none", node |-> None, nonce |-> None, overdue |-> FALSE]

TrustRecord == [status : {"none", "trusted", "revoked"},
                token  : Nat,
                source : Sessions \cup {None}]

NoTrust == [status |-> "none", token |-> 0, source |-> None]

RegistrationRecord == [status : {"none", "pending", "approved", "trusted", "revoked"},
                       source : Onboarding \cup {None}]

NoRegistration == [status |-> "none", source |-> None]

\* The registration object a read-modify-write handler holds: the stored object
\* itself while it is still in the store, or the value it had when it was
\* deleted or replaced there.
Shared == [status |-> "shared", source |-> None]

\* A request: the store call it makes next, and what it carries there.
RequestRecord == [pc    : {"idle", "create", "register", "principal", "password",
                           "consume", "promote", "remove", "rotate", "write"},
                  op    : {"none", "onboarding", "reauth", "replay"},
                  sid   : Sessions \cup {None},
                  node  : Nodes \cup {None},
                  nonce : Nonces \cup {None},
                  token : Nat,
                  held  : RegistrationRecord \cup {Shared}]

Idle == [pc |-> "idle", op |-> "none", sid |-> None, node |-> None,
         nonce |-> None, token |-> 0, held |-> NoRegistration]

Init ==
    /\ session = [s \in Sessions |-> NoSession]
    /\ archived = {}
    /\ trust = [n \in Nodes |-> NoTrust]
    /\ trustOf = [s \in Sessions |-> None]
    /\ registration = [n \in Nodes |-> NoRegistration]
    /\ registrationOf = [s \in Sessions |-> None]
    /\ principal = {}
    /\ password = [n \in Nodes |-> 0]
    /\ request = [q \in Requests |-> Idle]
    /\ nextToken = 1
    /\ failures = 0

-----------------------------------------------------------------------------
(* Session stores *)

\* get: a session that exists and was not archived.
Present(s) == session[s].state # "none" /\ s \notin archived

\* Mutant: an approved session may still be rejected or cancelled.
LooseTransition(prev, next) ==
    \/ prev = next
    \/ prev \in {"pending", "approved"} /\ next \in {"approved", "rejected", "expired", "cancelled"}
    \/ prev = "approved" /\ next = "consumed"

\* _transition: the same state again is accepted, the rest is a fixed relation.
CanTransition(prev, next) ==
    \/ prev = next
    \/ prev = "pending" /\ next \in {"approved", "rejected", "expired", "cancelled"}
    \/ prev = "approved" /\ next = "consumed"

\* expire_stale_sessions on the store whose sessions are S: pending ones only.
ExpireStale(S) ==
    [s \in Sessions |->
        IF s \in S /\ session[s].state = "pending" /\ session[s].overdue
        THEN [session[s] EXCEPT !.state = "expired"]
        ELSE session[s]]

\* find_active_by_node_nonce and find_active_by_node_id.
IsActive(s) == /\ Present(s)
               /\ session[s].state \in {"pending", "approved"}
               /\ ~session[s].overdue

HasActiveOnboarding(nonce) == \E s \in Onboarding : IsActive(s) /\ session[s].nonce = nonce

HasActiveReauth(n) == \E s \in Reauth : IsActive(s) /\ session[s].node = n

-----------------------------------------------------------------------------
(* Registration and trust stores *)

IsRegistered(n) == registration[n].status # "none"

\* The handlers that hold the registration object of n keep the value it has
\* when the store drops or replaces that object.
Detach(n) ==
    [q \in Requests |->
        IF request[q].pc = "write" /\ request[q].node = n /\ request[q].held = Shared
        THEN [request[q] EXCEPT !.held = registration[n]]
        ELSE request[q]]

\* set_trust_status: on the stored object, and nothing when there is none.
SetTrustStatus(n, status) ==
    IF IsRegistered(n)
    THEN [registration EXCEPT ![n].status = status]
    ELSE registration

\* Mutant: the earlier sessions of the node stay mapped to it.
UpsertKeepsMappings(n, rec) ==
    /\ trust' = [trust EXCEPT ![n] = rec]
    /\ trustOf' = [trustOf EXCEPT ![rec.source] = n]

\* NodeTrustStore.upsert: the record replaces the node's record, and only its
\* source session stays mapped to the node.
TrustUpsert(n, rec) ==
    /\ trust' = [trust EXCEPT ![n] = rec]
    /\ trustOf' = [s \in Sessions |->
                     IF s = rec.source THEN n
                     ELSE IF trustOf[s] = n THEN None ELSE trustOf[s]]

\* revoke_by_node: the record and its session mapping stay.
RevokedTrust(n) ==
    IF trust[n].status = "none" THEN trust ELSE [trust EXCEPT ![n].status = "revoked"]

-----------------------------------------------------------------------------
(* Starting sessions *)

\* An id no session has and no starting request is about to use (a random token).
IsFresh(s) == session[s].state = "none" /\ \A p \in Requests : request[p].sid # s

\* start_node_onboarding_session up to its duplicate checks.  The node id is the
\* requested one or derived from the nonce.
StartOnboarding(q, s, n, nonce) ==
    /\ request[q] = Idle
    /\ IsFresh(s)
    /\ ~HasActiveOnboarding(nonce)
    /\ ~IsRegistered(n)
    /\ session' = ExpireStale(Onboarding)
    /\ request' = [request EXCEPT ![q] =
                     [Idle EXCEPT !.pc = "create", !.sid = s, !.node = n,
                                  !.nonce = nonce]]
    /\ UNCHANGED <<archived, trust, trustOf, registration, registrationOf,
                   principal, password, nextToken, failures>>

\* start_node_reauth_session up to its checks.
StartReauth(q, s, n, nonce) ==
    /\ request[q] = Idle
    /\ IsFresh(s)
    /\ IsRegistered(n)
    /\ ~HasActiveReauth(n)
    /\ session' = ExpireStale(Reauth)
    /\ request' = [request EXCEPT ![q] =
                     [Idle EXCEPT !.pc = "create", !.sid = s, !.node = n,
                                  !.nonce = nonce]]
    /\ UNCHANGED <<archived, trust, trustOf, registration, registrationOf,
                   principal, password, nextToken, failures>>

\* start_session of either store.
CreateSession(q) ==
    /\ request[q].pc = "create"
    /\ session' = [session EXCEPT ![request[q].sid] =
                     [state |-> "pending", node |-> request[q].node,
                      nonce |-> request[q].nonce, overdue |-> FALSE]]
    /\ request' = [request EXCEPT ![q] = Idle]
    /\ UNCHANGED <<archived, trust, trustOf, registration, registrationOf,
                   principal, password, nextToken, failures>>

-----------------------------------------------------------------------------
(* Operator decisions, expiry and maintenance *)

\* approve_node_onboarding_session: expire, the expired check, approve_session.
ApproveOnboarding(q, s) ==
    /\ request[q] = Idle
    /\ Present(s)
    /\ LET fresh == ExpireStale(Onboarding) IN
          /\ fresh[s].state # "expired"
          /\ CanTransition(fresh[s].state, "approved")
          /\ session' = [fresh EXCEPT ![s].state = "approved"]
    /\ request' = [request EXCEPT ![q] = [Idle EXCEPT !.pc = "register", !.sid = s]]
    /\ UNCHANGED <<archived, trust, trustOf, registration, registrationOf,
                   principal, password, nextToken, failures>>

\* Mutant: approval alone makes the registration trusted.
RegisterTrusted(q) ==
    /\ request[q].pc = "register"
    /\ LET s == request[q].sid
           n == session[s].node
       IN /\ registration' = [registration EXCEPT ![n] = [status |-> "trusted", source |-> s]]
          /\ registrationOf' = [registrationOf EXCEPT ![s] = n]
          /\ request' = [Detach(n) EXCEPT ![q] = Idle]
    /\ UNCHANGED <<session, archived, trust, trustOf, principal, password,
                   nextToken, failures>>

\* upsert_from_approved_session: a new object, whatever was registered before.
Register(q) ==
    /\ request[q].pc = "register"
    /\ LET s == request[q].sid
           n == session[s].node
       IN /\ registration' = [registration EXCEPT ![n] =
                [status |-> IF session[s].state = "approved" THEN "approved" ELSE "pending",
                 source |-> s]]
          /\ registrationOf' = [registrationOf EXCEPT ![s] = n]
          /\ request' = [Detach(n) EXCEPT ![q] = Idle]
    /\ UNCHANGED <<session, archived, trust, trustOf, principal, password,
                   nextToken, failures>>

\* approve_node_reauth_session.
ApproveReauth(s) ==
    /\ Present(s)
    /\ IsRegistered(session[s].node)
    /\ LET fresh == ExpireStale(Reauth) IN
          /\ fresh[s].state # "expired"
          /\ CanTransition(fresh[s].state, "approved")
          /\ session' = [fresh EXCEPT ![s].state = "approved"]
    /\ UNCHANGED <<archived, trust, trustOf, registration, registrationOf,
                   principal, password, request, nextToken, failures>>

\* reject_node_onboarding_session and reject_node_reauth_session.
Reject(S, s) ==
    /\ s \in S
    /\ Present(s)
    /\ LET fresh == ExpireStale(S) IN
          /\ fresh[s].state # "expired"
          /\ CanTransition(fresh[s].state, "rejected")
          /\ session' = [fresh EXCEPT ![s].state = "rejected"]
    /\ UNCHANGED <<archived, trust, trustOf, registration, registrationOf,
                   principal, password, request, nextToken, failures>>

\* cancel_active_node_onboarding_sessions: tries every pending and approved
\* session and skips those whose transition is refused.
CancelActive ==
    /\ LET fresh == ExpireStale(Onboarding) IN
          session' = [s \in Sessions |->
              IF /\ s \in Onboarding
                 /\ Present(s)
                 /\ fresh[s].state \in {"pending", "approved"}
                 /\ CanTransition(fresh[s].state, "cancelled")
              THEN [fresh[s] EXCEPT !.state = "cancelled"]
              ELSE fresh[s]]
    /\ UNCHANGED <<archived, trust, trustOf, registration, registrationOf,
                   principal, password, request, nextToken, failures>>

\* The session's expires_at passes.
TtlElapses(s) ==
    /\ session[s].state \in {"pending", "approved"}
    /\ ~session[s].overdue
    /\ session' = [session EXCEPT ![s].overdue = TRUE]
    /\ UNCHANGED <<archived, trust, trustOf, registration, registrationOf,
                   principal, password, request, nextToken, failures>>

\* Handlers that expire stale sessions and then only answer: reading or listing
\* sessions, and finalizing one that is pending, rejected, expired or cancelled.
Poll(S) ==
    /\ session' = ExpireStale(S)
    /\ UNCHANGED <<archived, trust, trustOf, registration, registrationOf,
                   principal, password, request, nextToken, failures>>

\* onboarding_session_maintenance_loop: expire, then archive any of the sessions
\* that have been terminal for long enough.
Maintain ==
    /\ session' = ExpireStale(Onboarding)
    /\ \E old \in SUBSET {s \in Onboarding : session[s].state \in Terminal} :
          archived' = archived \cup old
    /\ UNCHANGED <<trust, trustOf, registration, registrationOf, principal,
                   password, request, nextToken, failures>>

-----------------------------------------------------------------------------
(* Finalization *)

\* What the request carries to the MQTT provisioning: a copy of the activation.
Provisioning(op, s, n, token) ==
    [Idle EXCEPT !.pc = "principal", !.op = op, !.sid = s, !.node = n, !.token = token]

\* Issue of a new record for session s, the common part of the three mutants below.
IssueFor(q, s) ==
    /\ request[q] = Idle
    /\ nextToken <= MaxToken
    /\ TrustUpsert(session[s].node,
                   [status |-> "trusted", token |-> nextToken, source |-> s])
    /\ nextToken' = nextToken + 1
    /\ request' = [request EXCEPT ![q] =
                     Provisioning("onboarding", s, session[s].node, nextToken)]
    /\ UNCHANGED <<archived, registration, registrationOf, principal, password, failures>>

\* Mutant: a session is finalized whatever its state.
FinalizeUnapproved(q, s) ==
    /\ Present(s)
    /\ IssueFor(q, s)
    /\ session' = ExpireStale(Onboarding)

\* Mutant: a session that has issued is not finalized again.
FinalizeOnce(q, s) ==
    /\ Present(s)
    /\ session[s].state = "approved"
    /\ trustOf[s] = None
    /\ IssueFor(q, s)
    /\ session' = ExpireStale(Onboarding)

\* Mutant: the session is consumed first and the handler dies before it issues.
FinalizeConsumesFirst(q, s) ==
    /\ \/ /\ session[s].state = "approved"
          /\ session' = [session EXCEPT ![s].state = "consumed"]
          /\ UNCHANGED <<archived, trust, trustOf, registration, registrationOf,
                         principal, password, request, nextToken, failures>>
       \/ /\ session[s].state = "consumed"
          /\ IssueFor(q, s)
          /\ UNCHANGED session
    /\ Present(s)

\* issue_for_approved_session: a session that has already issued gets its record
\* again, as it is, and another one a new record for its node.
IssuedNode(s) == IF trustOf[s] # None THEN trustOf[s] ELSE session[s].node

IssuedRecord(s) ==
    IF trustOf[s] # None
    THEN trust[trustOf[s]]
    ELSE [status |-> "trusted", token |-> nextToken, source |-> s]

\* finalize_node_onboarding_session, session approved.
FinalizeApproved(q, s) ==
    /\ request[q] = Idle
    /\ Present(s)
    /\ session[s].state = "approved"
    /\ trustOf[s] = None => nextToken <= MaxToken
    /\ TrustUpsert(IssuedNode(s), IssuedRecord(s))
    /\ nextToken' = IF trustOf[s] = None THEN nextToken + 1 ELSE nextToken
    /\ request' = [request EXCEPT ![q] =
                     Provisioning("onboarding", s, IssuedNode(s), IssuedRecord(s).token)]
    /\ session' = ExpireStale(Onboarding)
    /\ UNCHANGED <<archived, registration, registrationOf, principal, password, failures>>

\* finalize_node_onboarding_session, session consumed: the activation is handed
\* out again when the trust store still maps the session to a node.
FinalizeConsumed(q, s) ==
    /\ request[q] = Idle
    /\ Present(s)
    /\ session[s].state = "consumed"
    /\ trustOf[s] # None
    /\ request' = [request EXCEPT ![q] =
                     Provisioning("replay", s, trustOf[s], trust[trustOf[s]].token)]
    /\ session' = ExpireStale(Onboarding)
    /\ UNCHANGED <<archived, trust, trustOf, registration, registrationOf,
                   principal, password, nextToken, failures>>

\* Mutant: re-auth makes the old token valid again.
ReissueKeepsToken(q, s) ==
    /\ request[q] = Idle
    /\ Present(s)
    /\ session[s].state = "approved"
    /\ IsRegistered(session[s].node)
    /\ trust' = [trust EXCEPT ![session[s].node].status = "trusted"]
    /\ request' = [request EXCEPT ![q] =
                     Provisioning("reauth", s, session[s].node, trust[session[s].node].token)]
    /\ session' = ExpireStale(Reauth)
    /\ UNCHANGED <<archived, trustOf, registration, registrationOf, principal,
                   password, nextToken, failures>>

\* finalize_node_reauth_session, session approved: reissue_for_node.
FinalizeReauth(q, s) ==
    /\ request[q] = Idle
    /\ Present(s)
    /\ session[s].state = "approved"
    /\ IsRegistered(session[s].node)
    /\ nextToken <= MaxToken
    /\ TrustUpsert(session[s].node,
                   [status |-> "trusted", token |-> nextToken, source |-> s])
    /\ nextToken' = nextToken + 1
    /\ request' = [request EXCEPT ![q] =
                     Provisioning("reauth", s, session[s].node, nextToken)]
    /\ session' = ExpireStale(Reauth)
    /\ UNCHANGED <<archived, registration, registrationOf, principal, password, failures>>

\* _provision_node_mqtt_principal: upsert_principal ...
UpsertPrincipal(q) ==
    /\ request[q].pc = "principal"
    /\ principal' = principal \cup {request[q].node}
    /\ request' = [request EXCEPT ![q].pc = "password"]
    /\ UNCHANGED <<session, archived, trust, trustOf, registration, registrationOf,
                   password, nextToken, failures>>

\* Mutant: the credential is not the token that was issued.
PasswordIsFresh(q) ==
    /\ request[q].pc = "password"
    /\ password' = [password EXCEPT ![request[q].node] = nextToken]
    /\ request' = [request EXCEPT ![q] = Idle]
    /\ UNCHANGED <<session, archived, trust, trustOf, registration, registrationOf,
                   principal, nextToken, failures>>

\* ... then set_principal_password.  Onboarding goes on to consume the session,
\* re-auth to promote the registration; a replay is done.
SetPrincipalPassword(q) ==
    /\ request[q].pc = "password"
    /\ password' = [password EXCEPT ![request[q].node] = request[q].token]
    /\ request' = [request EXCEPT ![q] =
                     CASE request[q].op = "onboarding" -> [request[q] EXCEPT !.pc = "consume"]
                       [] request[q].op = "reauth"     -> [request[q] EXCEPT !.pc = "promote"]
                       [] OTHER                        -> Idle]
    /\ UNCHANGED <<session, archived, trust, trustOf, registration, registrationOf,
                   principal, nextToken, failures>>

\* consume_final_payload: raises, and ends the request, unless the session is
\* still approved.
ConsumeFinalPayload(q) ==
    /\ request[q].pc = "consume"
    /\ LET s == request[q].sid
           consumes == Present(s) /\ session[s].state = "approved"
       IN /\ session' = IF consumes THEN [session EXCEPT ![s].state = "consumed"] ELSE session
          /\ request' = [request EXCEPT ![q] =
                           IF consumes /\ request[q].op = "onboarding"
                           THEN [request[q] EXCEPT !.pc = "promote"]
                           ELSE Idle]
    /\ UNCHANGED <<archived, trust, trustOf, registration, registrationOf,
                   principal, password, nextToken, failures>>

\* mark_trusted_by_session for onboarding (last step), set_trust_status by node id
\* for re-auth (before the session is consumed).
Promote(q) ==
    /\ request[q].pc = "promote"
    /\ LET n == IF request[q].op = "onboarding"
                THEN registrationOf[request[q].sid]
                ELSE request[q].node
       IN registration' = IF n = None THEN registration ELSE SetTrustStatus(n, "trusted")
    /\ request' = [request EXCEPT ![q] =
                     IF request[q].op = "onboarding"
                     THEN Idle
                     ELSE [request[q] EXCEPT !.pc = "consume"]]
    /\ UNCHANGED <<session, archived, trust, trustOf, registrationOf, principal,
                   password, nextToken, failures>>

-----------------------------------------------------------------------------
(* Revocation and removal *)

\* revoke_node_registration up to the deprovisioning.
RevokeRegistration(q, n) ==
    /\ request[q] = Idle
    /\ IsRegistered(n)
    /\ registration' = SetTrustStatus(n, "revoked")
    /\ trust' = RevokedTrust(n)
    /\ request' = [request EXCEPT ![q] = [Idle EXCEPT !.pc = "remove", !.node = n]]
    /\ UNCHANGED <<session, archived, trustOf, registrationOf, principal, password,
                   nextToken, failures>>

\* delete_node_registration up to the deprovisioning.
DeleteRegistration(q, n) ==
    /\ request[q] = Idle
    /\ IsRegistered(n)
    /\ registration' = [registration EXCEPT ![n] = NoRegistration]
    /\ registrationOf' = [s \in Sessions |->
                            IF registrationOf[s] = n THEN None ELSE registrationOf[s]]
    /\ trust' = RevokedTrust(n)
    /\ request' = [Detach(n) EXCEPT ![q] = [Idle EXCEPT !.pc = "remove", !.node = n]]
    /\ UNCHANGED <<session, archived, trustOf, principal, password, nextToken, failures>>

\* _deprovision_node_mqtt_principal: remove_principal ...
RemovePrincipal(q) ==
    /\ request[q].pc = "remove"
    /\ principal' = principal \ {request[q].node}
    /\ request' = [request EXCEPT ![q].pc = "rotate"]
    /\ UNCHANGED <<session, archived, trust, trustOf, registration, registrationOf,
                   password, nextToken, failures>>

\* Mutant: the credential is overwritten by None instead of dropped.
RotateToNone(q) ==
    /\ request[q].pc = "rotate"
    /\ password' = [password EXCEPT ![request[q].node] = None]
    /\ request' = [request EXCEPT ![q] = Idle]
    /\ UNCHANGED <<session, archived, trust, trustOf, registration, registrationOf,
                   principal, nextToken, failures>>

\* ... then rotate_principal, which drops the stored credential.
RotatePrincipal(q) ==
    /\ request[q].pc = "rotate"
    /\ password' = [password EXCEPT ![request[q].node] = 0]
    /\ request' = [request EXCEPT ![q] = Idle]
    /\ UNCHANGED <<session, archived, trust, trustOf, registration, registrationOf,
                   principal, nextToken, failures>>

-----------------------------------------------------------------------------
(* Read-modify-write of a registration, in a thread: metadata updates and      *)
(* provider capability reports.  Bound: one such request at a time per node.   *)

ReadRegistration(q, n) ==
    /\ request[q] = Idle
    /\ IsRegistered(n)
    /\ \A p \in Requests : ~(request[p].pc = "write" /\ request[p].node = n)
    /\ request' = [request EXCEPT ![q] =
                     [Idle EXCEPT !.pc = "write", !.node = n, !.held = Shared]]
    /\ UNCHANGED <<session, archived, trust, trustOf, registration, registrationOf,
                   principal, password, nextToken, failures>>

\* NodeRegistrationsStore.upsert of the object read before, in the store or not.
WriteRegistration(q) ==
    /\ request[q].pc = "write"
    /\ LET n == request[q].node
           obj == IF request[q].held = Shared THEN registration[n] ELSE request[q].held
       IN /\ registration' = [registration EXCEPT ![n] = obj]
          /\ registrationOf' = [registrationOf EXCEPT ![obj.source] = n]
    /\ request' = [request EXCEPT ![q] = Idle]
    /\ UNCHANGED <<session, archived, trust, trustOf, principal, password,
                   nextToken, failures>>

-----------------------------------------------------------------------------
(* Failures *)

\* The awaited calls: principal upsert and removal, credential files, and the
\* reconcile that precedes the consume (onboarding) or promote (re-auth) step.
IsAwaiting(r) ==
    \/ r.pc \in {"principal", "password", "remove", "rotate"}
    \/ r.op = "onboarding" /\ r.pc = "consume"
    \/ r.op = "reauth" /\ r.pc = "promote"

\* An awaited call raises: the handler ends there and undoes nothing.
RequestFails(q) ==
    /\ IsAwaiting(request[q])
    /\ failures < MaxFailures
    /\ failures' = failures + 1
    /\ request' = [request EXCEPT ![q] = Idle]
    /\ UNCHANGED <<session, archived, trust, trustOf, registration, registrationOf,
                   principal, password, nextToken>>

\* The process restarts: every handler in flight is gone, the stores are reloaded.
Restart ==
    /\ failures < MaxFailures
    /\ failures' = failures + 1
    /\ request' = [q \in Requests |-> Idle]
    /\ UNCHANGED <<session, archived, trust, trustOf, registration, registrationOf,
                   principal, password, nextToken>>

-----------------------------------------------------------------------------
(* Specification *)

\* The next store call of the handler in slot q.
Continue(q) ==
    \/ CreateSession(q)
    \/ Register(q)
    \/ UpsertPrincipal(q)
    \/ SetPrincipalPassword(q)
    \/ ConsumeFinalPayload(q)
    \/ Promote(q)
    \/ RemovePrincipal(q)
    \/ RotatePrincipal(q)
    \/ WriteRegistration(q)

Finalize(q) ==
    \/ \E s \in Onboarding : FinalizeApproved(q, s) \/ FinalizeConsumed(q, s)
    \/ \E s \in Reauth : FinalizeReauth(q, s)

Accept(q) ==
    \/ \E n \in Nodes, nonce \in Nonces :
          \/ \E s \in Onboarding : StartOnboarding(q, s, n, nonce)
          \/ \E s \in Reauth : StartReauth(q, s, n, nonce)
    \/ \E s \in Onboarding : ApproveOnboarding(q, s)
    \/ \E n \in Nodes : \/ RevokeRegistration(q, n)
                        \/ DeleteRegistration(q, n)
                        \/ ReadRegistration(q, n)

Operate ==
    \/ \E s \in Reauth : ApproveReauth(s)
    \/ \E s \in Sessions : TtlElapses(s)
    \/ \E S \in {Onboarding, Reauth} : Poll(S) \/ (\E s \in S : Reject(S, s))
    \/ CancelActive
    \/ Maintain

Next ==
    \/ \E q \in Requests : Accept(q) \/ Finalize(q) \/ Continue(q) \/ RequestFails(q)
    \/ Operate
    \/ Restart

Spec == Init /\ [][Next]_vars

\* The event loop and the thread pool run every accepted handler to its end, and a
\* node keeps polling finalize for its session until it gets an answer.
Fairness ==
    /\ \A q \in Requests : WF_vars(Continue(q))
    /\ \A s \in Onboarding : SF_vars(\E q \in Requests : FinalizeApproved(q, s))

FairSpec == Spec /\ Fairness

-----------------------------------------------------------------------------
(* Properties *)

\* Every variable of the stores, the sessions and the handlers in flight has its type.
TypeOK ==
    /\ session \in [Sessions -> SessionRecord]
    /\ archived \subseteq Onboarding
    /\ trust \in [Nodes -> TrustRecord]
    /\ trustOf \in [Sessions -> Nodes \cup {None}]
    /\ registration \in [Nodes -> RegistrationRecord]
    /\ registrationOf \in [Sessions -> Nodes \cup {None}]
    /\ principal \subseteq Nodes
    /\ password \in [Nodes -> Nat]
    /\ request \in [Requests -> RequestRecord]
    /\ nextToken \in Nat \ {0}
    /\ failures \in Nat

\* A trust record, trusted or revoked, was issued by a session of the same node
\* that an operator approved, however handlers interleave with rejection, expiry,
\* cancellation and restarts.
TrustNeedsApproval ==
    \A n \in Nodes : trust[n].status # "none" =>
        /\ trust[n].source \in Sessions
        /\ session[trust[n].source].state \in {"approved", "consumed"}
        /\ session[trust[n].source].node = n

\* The trust store maps a session to a node only while that session is the one that
\* issued the node's current record: after re-auth, or onboarding again, finalizing
\* an older session cannot hand out the newer credentials.
ReplayOnlyByIssuer ==
    \A s \in Sessions : trustOf[s] # None => trust[trustOf[s]].source = s

\* The registry never calls a node trusted that has no trust record, across the two
\* stores and the read-modify-write of registrations.
TrustedHasRecord ==
    \A n \in Nodes : registration[n].status = "trusted" => trust[n].status # "none"

\* A consumed session was preceded by the issue of a record for its node: consuming
\* the only chance to collect credentials never comes first, even when a handler
\* dies half way.
ConsumedAfterIssue ==
    \A s \in Sessions : session[s].state = "consumed" => trust[session[s].node].status # "none"

\* The credential provisioned for a node was issued to that node, and is no newer
\* than the node's trust record, whichever handlers provision at the same time.
CredentialIsOwn ==
    \A n \in Nodes :
        /\ password[n] <= trust[n].token
        /\ password[n] # 0 => \A m \in Nodes : trust[m].token = password[n] => m = n

\* A token that was superseded or revoked never authenticates its node again: the
\* record only moves to newer tokens, and from revoked to trusted only with a new one.
TokensMoveForward ==
    [][\A n \in Nodes :
          /\ trust[n].token <= trust'[n].token
          /\ trust[n].status = "revoked" /\ trust'[n].status = "trusted"
                => trust[n].token < trust'[n].token]_vars

\* The final decision on a session stands: a rejected, expired, consumed or cancelled
\* session keeps its state, and an approved one can only become consumed.
DecisionStands ==
    [][\A s \in Sessions :
          /\ session[s].state \in Terminal => session'[s].state = session[s].state
          /\ session[s].state = "approved" => session'[s].state \in {"approved", "consumed"}]_vars

\* A node that keeps finalizing its approved session ends up with the session consumed,
\* whatever is revoked, removed, restarted or rejected meanwhile.
ApprovedIsCollected ==
    \A s \in Onboarding : session[s].state = "approved" ~> session[s].state = "consumed"

-----------------------------------------------------------------------------
(* What the repository's documentation says, and the code does not keep *)

Quiet == \A q \in Requests : request[q] = Idle

\* docs/nodes/node-onboarding-phase1-contract.md:187: revoke and remove "deprovision
\* the node MQTT principal".  With no request in flight, a node whose trust is
\* revoked has no active principal.
RevokedIsDeprovisioned ==
    Quiet => \A n \in Nodes : trust[n].status = "revoked" => n \notin principal

=============================================================================
