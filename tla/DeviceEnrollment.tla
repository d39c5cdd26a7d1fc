--------------------------- MODULE DeviceEnrollment ---------------------------
(***************************************************************************)
(* Web-app devices of Core: one-time enrollments that an administrator     *)
(* approves, login challenges, the device registry with its limits,        *)
(* replacement, revocation and retention, and the sessions bound to        *)
(* devices.                                                                *)
(*                                                                         *)
(* Every method of the two stores runs under that store's lock, in one     *)
(* transaction: one step here.  An endpoint awaits several of them, so     *)
(* requests interleave between the calls, and Core may stop between them.  *)
(***************************************************************************)
EXTENDS Naturals, FiniteSets

CONSTANTS
    User, Device,
    Enrollment,   \* enrollment ids
    Challenge,    \* ids of device login challenges
    Login,        \* ids of password logins
    Request,      \* requests being served at a time
    None,
    Legacy,       \* devices enrolled before passkeys were introduced
    Owner,        \* the user they belong to
    MaxPerUser,   \* HEXE_WEB_APP_MAX_DEVICES_PER_USER
    MaxPerCore,   \* HEXE_WEB_APP_MAX_DEVICES_PER_CORE
    MaxOps        \* bound: administrative operations (but for enabling a user),
                  \* password logins, expiries and restarts

ASSUME DeviceAssumption ==
    /\ Owner \in User
    /\ Legacy \subseteq Device
    /\ IsFiniteSet(Device)
    /\ Device \cap User = {}
    /\ None \notin Device \cup User \cup Enrollment \cup Challenge \cup Login
    /\ Enrollment \cap Challenge = {}
    /\ Login \cap (Enrollment \cup Challenge) = {}
    /\ MaxPerUser \in Nat /\ MaxPerCore \in Nat /\ MaxOps \in Nat
    /\ Cardinality(Legacy) <= MaxPerUser /\ Cardinality(Legacy) <= MaxPerCore

VARIABLES
    user,        \* each user's row: enabled, disabled or deleted
    device,      \* web_app_devices and web_app_device_state
    passkey,     \* the devices that have a row in web_app_passkeys
    enrollment,  \* web_app_enrollments
    challenge,   \* web_app_device_login_challenges
    session,     \* human_sessions, named by what they were opened with
    request,     \* the requests in flight
    issued,      \* history: sessions opened with each code or login
    reenabled,   \* history: devices an administrator re-enabled
    late,        \* history: devices some of whose sessions were not closed, and users
                 \* none of whose sessions were, at the last time they should have been
    ops          \* operations so far

vars == <<user, device, passkey, enrollment, challenge, session, request,
          issued, reenabled, late, ops>>

history == <<issued, reenabled, late>>

-----------------------------------------------------------------------------

Code == Enrollment \cup Challenge
Origin == Code \cup Login

DeviceRecord == [state : {"none", "active", "disabled", "revoked"}, user : User \cup {None}]

\* live: not past expires_at.  kept: not deleted by the retention run.
EnrollmentRecord == [status  : {"none", "pending", "approved", "expired", "cancelled", "consumed"},
                     user    : User \cup {None},
                     replace : Device \cup {None},
                     live    : BOOLEAN,
                     kept    : BOOLEAN]

ChallengeRecord == [status : {"none", "open", "used"},
                    device : Device \cup {None},
                    user   : User \cup {None},
                    live   : BOOLEAN]

SessionRecord == [state  : {"none", "live", "revoked", "pruned"},
                  device : Device \cup {None},
                  user   : User \cup {None}]

Label == {"idle", "consume", "owner", "retire", "session", "issue", "device", "passkey",
          "login_user", "store_passkey", "close", "disable", "delete", "user_sessions",
          "user_devices", "prune_sessions"}

\* seen: a login has read a passkey row; a request to disable a user has read that the
\* user is enabled.
RequestRecord == [pc     : Label,
                  origin : Origin \cup {None},
                  device : Device \cup {None},
                  user   : User \cup {None},
                  seen   : BOOLEAN]

Idle == [pc |-> "idle", origin |-> None, device |-> None, user |-> None, seen |-> FALSE]

Init ==
    /\ user = [u \in User |-> "enabled"]
    /\ device = [d \in Device |-> IF d \in Legacy THEN [state |-> "active", user |-> Owner]
                                                  ELSE [state |-> "none", user |-> None]]
    /\ passkey = {}
    /\ enrollment = [e \in Enrollment |-> [status |-> "none", user |-> None, replace |-> None,
                                           live |-> TRUE, kept |-> TRUE]]
    /\ challenge = [c \in Challenge |-> [status |-> "none", device |-> None, user |-> None,
                                         live |-> TRUE]]
    /\ session = [o \in Origin |-> [state |-> "none", device |-> None, user |-> None]]
    /\ request = [q \in Request |-> Idle]
    /\ issued = [o \in Origin |-> 0]
    /\ reenabled = {} /\ late = {}
    /\ ops = 0

Operation == ops < MaxOps /\ ops' = ops + 1

Goto(q, l) == request' = [request EXCEPT ![q].pc = l]
Finish(q) == request' = [request EXCEPT ![q] = Idle]
Start(q, r) == request[q].pc = "idle" /\ request' = [request EXCEPT ![q] = r]

OnDevice(d) == {o \in Origin : session[o].device = d}
ByUser(u) == {o \in Origin : session[o].user = u}

\* The live ones of a set of sessions are revoked.
RevokeSessions(O) ==
    session' = [o \in Origin |-> IF o \in O /\ session[o].state = "live"
                                 THEN [session[o] EXCEPT !.state = "revoked"]
                                 ELSE session[o]]

-----------------------------------------------------------------------------
(* Enrollments are created, approved, cancelled and expire *)

CreateEnrollment(e, u, r) ==
    /\ enrollment[e].status = "none"
    /\ user[u] # "deleted"
    /\ enrollment' = [enrollment EXCEPT ![e] = [status |-> "pending", user |-> u, replace |-> r,
                                                live |-> TRUE, kept |-> TRUE]]
    /\ UNCHANGED <<user, device, passkey, challenge, session, request, history, ops>>

Approve(e) ==
    /\ enrollment[e].kept /\ enrollment[e].live
    /\ enrollment[e].status = "pending"
    /\ enrollment' = [enrollment EXCEPT ![e].status = "approved"]
    /\ UNCHANGED <<user, device, passkey, challenge, session, request, history, ops>>

\* Also of an expired enrollment: only consumed and cancelled ones are refused.
Cancel(e) ==
    /\ Operation
    /\ enrollment[e].kept
    /\ enrollment[e].status \in {"pending", "approved", "expired"}
    /\ enrollment' = [enrollment EXCEPT ![e].status = "cancelled"]
    /\ UNCHANGED <<user, device, passkey, challenge, session, request, history>>

Lapse(e) ==
    /\ Operation
    /\ enrollment[e].status \in {"pending", "approved"}
    /\ enrollment[e].live
    /\ enrollment' = [enrollment EXCEPT ![e].live = FALSE]
    /\ UNCHANGED <<user, device, passkey, challenge, session, request, history>>

\* GET of the enrollment writes down that it has expired.
Expire(e) ==
    /\ enrollment[e].status \in {"pending", "approved"}
    /\ ~enrollment[e].live
    /\ enrollment' = [enrollment EXCEPT ![e].status = "expired"]
    /\ UNCHANGED <<user, device, passkey, challenge, session, request, history, ops>>

-----------------------------------------------------------------------------
(* A device completes its enrollment *)

\* The signature over the device id and the passkey registration are verified here.
Complete(q, e, d) ==
    /\ enrollment[e].status # "none" /\ enrollment[e].kept
    /\ Start(q, [Idle EXCEPT !.pc = "consume", !.origin = e, !.device = d])
    /\ UNCHANGED <<user, device, passkey, enrollment, challenge, session, history, ops>>

Active(D) == {d \in D : device[d].state = "active"}
OfUser(u) == {d \in Device : device[d].user = u}

\* A bug: the device that is being added is forgotten.
HasRoomForMore(u, excluded) ==
    /\ Cardinality(Active(OfUser(u)) \ {excluded}) <= MaxPerUser
    /\ Cardinality(Active(Device) \ {excluded}) <= MaxPerCore

\* The replaced device is not counted; without one, the device itself is not.
HasRoom(u, excluded) ==
    /\ Cardinality(Active(OfUser(u)) \ {excluded}) < MaxPerUser
    /\ Cardinality(Active(Device) \ {excluded}) < MaxPerCore

\* A bug: the status is only looked at when the request comes in.
ConsumableTwice(e, d) ==
    /\ enrollment[e].live
    /\ device[d].state = "none"
    /\ HasRoom(enrollment[e].user, d)

\* A device keeps its passkey row for good, so a device that has one is refused
\* by the UNIQUE column even when the enrollment replaces that device itself.
Consumable(e, d) ==
    LET r == enrollment[e].replace IN
    /\ enrollment[e].kept /\ enrollment[e].live
    /\ enrollment[e].status = "approved"
    /\ device[d].state = "none" \/ d = r
    /\ HasRoom(enrollment[e].user, IF r = None THEN d ELSE r)
    /\ r # None => /\ device[r].state \in {"active", "disabled"}
                   /\ device[r].user = enrollment[e].user
    /\ d \notin passkey

Consume(q) ==
    LET e == request[q].origin
        d == request[q].device
        r == enrollment[e].replace
    IN
    /\ request[q].pc = "consume"
    /\ Consumable(e, d)
    /\ device' = [x \in Device |->
                    IF x = d THEN [state |-> "active", user |-> enrollment[e].user]
                    ELSE IF x = r THEN [device[x] EXCEPT !.state = "revoked"]
                    ELSE device[x]]
    /\ passkey' = passkey \cup {d}
    /\ enrollment' = [enrollment EXCEPT ![e].status = "consumed"]
    /\ Goto(q, "owner")
    /\ reenabled' = reenabled \ {d}
    /\ UNCHANGED <<user, challenge, session, issued, late, ops>>

Refuse(q) ==
    /\ request[q].pc = "consume"
    /\ ~Consumable(request[q].origin, request[q].device)
    /\ Finish(q)
    /\ UNCHANGED <<user, device, passkey, enrollment, challenge, session, history, ops>>

\* A bug: the sessions of the replaced device are forgotten.
ReadOwnerOnly(q) ==
    /\ request[q].pc = "owner"
    /\ request' = [request EXCEPT ![q].user = enrollment[request[q].origin].user,
                                  ![q].pc = "session"]
    /\ UNCHANGED <<user, device, passkey, enrollment, challenge, session, history, ops>>

\* get_user_by_id: an enrollment of a user deleted meanwhile ends here.
ReadOwner(q) ==
    LET e == request[q].origin IN
    /\ request[q].pc = "owner"
    /\ IF user[enrollment[e].user] = "deleted" THEN Finish(q)
       ELSE request' = [request EXCEPT ![q].user = enrollment[e].user,
                          ![q].pc = IF enrollment[e].replace = None THEN "session" ELSE "retire"]
    /\ UNCHANGED <<user, device, passkey, enrollment, challenge, session, history, ops>>

RetireReplaced(q) ==
    /\ request[q].pc = "retire"
    /\ RevokeSessions(OnDevice(enrollment[request[q].origin].replace))
    /\ Goto(q, "session")
    /\ UNCHANGED <<user, device, passkey, enrollment, challenge, history, ops>>

\* A bug: the user is not looked at either.
OpenSessionAnyway(q) ==
    LET o == request[q].origin
        d == request[q].device
    IN
    /\ request[q].pc = "session"
    /\ session' = [session EXCEPT ![o] = [state |-> "live", device |-> d, user |-> request[q].user]]
    /\ issued' = [issued EXCEPT ![o] = @ + 1]
    /\ late' = IF device[d].state = "revoked" THEN late \cup {d} ELSE late
    /\ Finish(q)
    /\ UNCHANGED <<user, device, passkey, enrollment, challenge, reenabled, ops>>

\* create_session looks at the user and not at the device.
OpenSession(q) ==
    LET o == request[q].origin
        d == request[q].device
        u == request[q].user
    IN
    /\ request[q].pc = "session"
    /\ IF user[u] = "enabled"
       THEN /\ session' = [session EXCEPT ![o] = [state |-> "live", device |-> d, user |-> u]]
            /\ issued' = [issued EXCEPT ![o] = @ + 1]
            /\ late' = IF device[d].state = "revoked" THEN late \cup {d} ELSE late
       ELSE UNCHANGED <<session, issued, late>>
    /\ Finish(q)
    /\ UNCHANGED <<user, device, passkey, enrollment, challenge, reenabled, ops>>

-----------------------------------------------------------------------------
(* A device, or a user with a password, logs in *)

AskChallenge(q, c, d) ==
    /\ challenge[c].status = "none"
    /\ device[d].state = "active"
    /\ user[device[d].user] = "enabled"
    /\ \A p \in Request : ~(request[p].pc = "issue" /\ request[p].origin = c)
    /\ Start(q, [Idle EXCEPT !.pc = "issue", !.origin = c, !.device = d, !.user = device[d].user])
    /\ UNCHANGED <<user, device, passkey, enrollment, challenge, session, history, ops>>

IssueChallenge(q) ==
    /\ request[q].pc = "issue"
    /\ challenge' = [challenge EXCEPT ![request[q].origin] =
                        [status |-> "open", device |-> request[q].device,
                         user |-> request[q].user, live |-> TRUE]]
    /\ Finish(q)
    /\ UNCHANGED <<user, device, passkey, enrollment, session, history, ops>>

LapseChallenge(c) ==
    /\ Operation
    /\ challenge[c].status = "open" /\ challenge[c].live
    /\ challenge' = [challenge EXCEPT ![c].live = FALSE]
    /\ UNCHANGED <<user, device, passkey, enrollment, session, request, history>>

AnswerChallenge(q, c) ==
    /\ challenge[c].status = "open" /\ challenge[c].live
    /\ challenge' = [challenge EXCEPT ![c].status = "used"]
    /\ Start(q, [Idle EXCEPT !.pc = "device", !.origin = c, !.device = challenge[c].device,
                             !.user = challenge[c].user])
    /\ UNCHANGED <<user, device, passkey, enrollment, session, history, ops>>

ReadDevice(q) ==
    LET d == request[q].device IN
    /\ request[q].pc = "device"
    /\ IF device[d].state = "active" /\ device[d].user = request[q].user
       THEN Goto(q, "passkey") ELSE Finish(q)
    /\ UNCHANGED <<user, device, passkey, enrollment, challenge, session, history, ops>>

ReadPasskey(q) ==
    /\ request[q].pc = "passkey"
    /\ request' = [request EXCEPT ![q].pc = "login_user", ![q].seen = request[q].device \in passkey]
    /\ UNCHANGED <<user, device, passkey, enrollment, challenge, session, history, ops>>

\* The signatures are checked after this read, against the rows already read.
ReadUser(q) ==
    /\ request[q].pc = "login_user"
    /\ IF user[request[q].user] = "enabled" THEN Goto(q, "store_passkey") ELSE Finish(q)
    /\ UNCHANGED <<user, device, passkey, enrollment, challenge, session, history, ops>>

\* A device without a passkey registers one, unless it got one meanwhile.
StorePasskey(q) ==
    LET d == request[q].device IN
    /\ request[q].pc = "store_passkey"
    /\ IF request[q].seen \/ d \notin passkey
       THEN /\ passkey' = passkey \cup {d}
            /\ Goto(q, "session")
       ELSE /\ Finish(q)
            /\ UNCHANGED passkey
    /\ UNCHANGED <<user, device, enrollment, challenge, session, history, ops>>

\* The client names the device; nothing is checked about it.
PasswordLogin(q, l, u, d) ==
    /\ Operation
    /\ issued[l] = 0
    /\ user[u] = "enabled"
    /\ \A p \in Request : request[p].origin # l
    /\ Start(q, [Idle EXCEPT !.pc = "session", !.origin = l, !.device = d, !.user = u])
    /\ UNCHANGED <<user, device, passkey, enrollment, challenge, session, history>>

\* Logout, revocation of one session, and reuse of a spent refresh token.
EndSession(o) ==
    /\ Operation
    /\ session[o].state = "live"
    /\ session' = [session EXCEPT ![o].state = "revoked"]
    /\ UNCHANGED <<user, device, passkey, enrollment, challenge, request, history>>

-----------------------------------------------------------------------------
(* Devices and users are revoked, disabled, enabled and deleted *)

\* DELETE of a device, by its user or by an administrator.
RevokeDevice(q, d) ==
    /\ Operation
    /\ device[d].state \in {"active", "disabled"}
    /\ device' = [device EXCEPT ![d].state = "revoked"]
    /\ Start(q, [Idle EXCEPT !.pc = "close", !.device = d])
    /\ UNCHANGED <<user, passkey, enrollment, challenge, session, history>>

DisableDevice(q, d) ==
    /\ Operation
    /\ device[d].state \in {"active", "disabled"}
    /\ device' = [device EXCEPT ![d].state = "disabled"]
    /\ Start(q, [Idle EXCEPT !.pc = "close", !.device = d])
    /\ reenabled' = reenabled \ {d}
    /\ UNCHANGED <<user, passkey, enrollment, challenge, session, issued, late>>

\* A bug: a revoked device is enabled as well.
EnableAnyDevice(d) ==
    /\ Operation
    /\ device[d].state \in {"disabled", "revoked"}
    /\ device' = [device EXCEPT ![d].state = "active"]
    /\ reenabled' = reenabled \cup {d}
    /\ UNCHANGED <<user, passkey, enrollment, challenge, session, request, issued, late>>

\* The limits are not looked at.
EnableDevice(d) ==
    /\ Operation
    /\ device[d].state = "disabled"
    /\ device' = [device EXCEPT ![d].state = "active"]
    /\ reenabled' = reenabled \cup {d}
    /\ UNCHANGED <<user, passkey, enrollment, challenge, session, request, issued, late>>

CloseSessions(q) ==
    /\ request[q].pc = "close"
    /\ RevokeSessions(OnDevice(request[q].device))
    /\ Finish(q)
    /\ UNCHANGED <<user, device, passkey, enrollment, challenge, history, ops>>

\* POST with enabled off and DELETE read the user's row; POST then awaits the step-up.
ReadExisting(q, u, l) ==
    /\ Operation
    /\ user[u] # "deleted"
    /\ Start(q, [Idle EXCEPT !.pc = l, !.user = u, !.seen = user[u] = "enabled"])
    /\ UNCHANGED <<user, device, passkey, enrollment, challenge, session, history>>

\* The write, whatever the row has become; what follows depends on the row as read.
\* Another user is the last enabled owner, whom the store keeps.
SuspendUser(q) ==
    LET u == request[q].user IN
    /\ \/ /\ request[q].pc = "disable" /\ request[q].seen
          /\ user' = [user EXCEPT ![u] = "disabled"]
       \/ /\ request[q].pc = "delete"
          /\ user' = [user EXCEPT ![u] = "deleted"]
    /\ user[u] # "deleted"
    /\ Goto(q, "user_sessions")
    /\ UNCHANGED <<device, passkey, enrollment, challenge, session, history, ops>>

\* A user that was read as disabled is written as disabled and nothing is closed, also
\* when somebody has enabled the user in between.
DisableAgain(q) ==
    LET u == request[q].user IN
    /\ request[q].pc = "disable" /\ ~request[q].seen
    /\ user[u] # "deleted"
    /\ user' = [user EXCEPT ![u] = "disabled"]
    /\ late' = IF user[u] = "enabled" THEN late \cup {u} ELSE late
    /\ Finish(q)
    /\ UNCHANGED <<device, passkey, enrollment, challenge, session, issued, reenabled, ops>>

\* Deleted meanwhile: no row is found, or a new user of that name is created.
SuspendNobody(q) ==
    /\ request[q].pc \in {"disable", "delete"}
    /\ user[request[q].user] = "deleted"
    /\ Finish(q)
    /\ UNCHANGED <<user, device, passkey, enrollment, challenge, session, history, ops>>

CloseUserSessions(q) ==
    /\ request[q].pc = "user_sessions"
    /\ RevokeSessions(ByUser(request[q].user))
    /\ late' = late \ {request[q].user}
    /\ Goto(q, "user_devices")
    /\ UNCHANGED <<user, device, passkey, enrollment, challenge, issued, reenabled, ops>>

DisableUserDevices(q) ==
    LET hit == {d \in OfUser(request[q].user) : device[d].state \in {"active", "disabled"}} IN
    /\ request[q].pc = "user_devices"
    /\ device' = [d \in Device |-> IF d \in hit THEN [device[d] EXCEPT !.state = "disabled"]
                                                ELSE device[d]]
    /\ reenabled' = reenabled \ hit
    /\ Finish(q)
    /\ UNCHANGED <<user, passkey, enrollment, challenge, session, issued, late, ops>>

\* Nothing depends on what a POST with enabled on has read: one step.
EnableUser(u) ==
    /\ user[u] = "disabled"
    /\ user' = [user EXCEPT ![u] = "enabled"]
    /\ UNCHANGED <<device, passkey, enrollment, challenge, session, request, history, ops>>

-----------------------------------------------------------------------------
(* Retention, and restarts of Core *)

\* A bug: the state of the device is deleted and the device is not.
PruneStateOnly(q, D, E) ==
    /\ Operation
    /\ \A d \in D : device[d].state = "revoked"
    /\ device' = [d \in Device |-> IF d \in D THEN [device[d] EXCEPT !.state = "none"] ELSE device[d]]
    /\ Start(q, [Idle EXCEPT !.pc = "prune_sessions"])
    /\ UNCHANGED <<user, passkey, enrollment, challenge, session, history>>

\* D and E: the rows past the retention window.  A device whose subscription still
\* has to be cleaned up is kept; passkeys are never deleted.
Prune(q, D, E) ==
    /\ Operation
    /\ \A d \in D : device[d].state = "revoked"
    /\ \A e \in E : enrollment[e].status \in {"consumed", "cancelled", "expired"}
    /\ device' = [d \in Device |-> IF d \in D THEN [state |-> "none", user |-> None] ELSE device[d]]
    /\ enrollment' = [e \in Enrollment |-> IF e \in E THEN [enrollment[e] EXCEPT !.kept = FALSE]
                                                      ELSE enrollment[e]]
    /\ Start(q, [Idle EXCEPT !.pc = "prune_sessions"])
    /\ UNCHANGED <<user, passkey, challenge, session, history>>

PruneSessions(q, O) ==
    /\ request[q].pc = "prune_sessions"
    /\ \A o \in O : session[o].state = "revoked"
    /\ session' = [o \in Origin |-> IF o \in O THEN [session[o] EXCEPT !.state = "pruned"]
                                              ELSE session[o]]
    /\ Finish(q)
    /\ UNCHANGED <<user, device, passkey, enrollment, challenge, history, ops>>

\* A request that is about to close the sessions of u, or those of d's user on d.
ClosingUser(u) == \E q \in Request : request[q].pc = "user_sessions" /\ request[q].user = u

Closing(d) ==
    \/ ClosingUser(device[d].user)
    \/ \E q \in Request :
          \/ request[q].pc = "close" /\ request[q].device = d
          \/ /\ request[q].pc \in {"owner", "retire"}
             /\ enrollment[request[q].origin].replace = d

\* Core stops: the requests in flight are lost, the database stays.
Crash ==
    /\ Operation
    /\ late' = late \cup {d \in Device : Closing(d)} \cup {u \in User : ClosingUser(u)}
    /\ request' = [q \in Request |-> Idle]
    /\ UNCHANGED <<user, device, passkey, enrollment, challenge, session, issued, reenabled>>

Next ==
    \/ \E e \in Enrollment :
          \/ \E u \in User, r \in Device \cup {None} : CreateEnrollment(e, u, r)
          \/ Approve(e) \/ Cancel(e) \/ Lapse(e) \/ Expire(e)
    \/ \E c \in Challenge : LapseChallenge(c)
    \/ \E o \in Origin : EndSession(o)
    \/ \E d \in Device : EnableDevice(d)
    \/ \E u \in User : EnableUser(u)
    \/ \E q \in Request :
          \/ \E e \in Enrollment, d \in Device : Complete(q, e, d)
          \/ Consume(q) \/ Refuse(q) \/ ReadOwner(q) \/ RetireReplaced(q) \/ OpenSession(q)
          \/ \E c \in Challenge, d \in Device : AskChallenge(q, c, d)
          \/ IssueChallenge(q)
          \/ \E c \in Challenge : AnswerChallenge(q, c)
          \/ ReadDevice(q) \/ ReadPasskey(q) \/ ReadUser(q) \/ StorePasskey(q)
          \/ \E l \in Login, u \in User, d \in Device : PasswordLogin(q, l, u, d)
          \/ \E d \in Device : RevokeDevice(q, d) \/ DisableDevice(q, d)
          \/ CloseSessions(q)
          \/ \E u \in User, l \in {"disable", "delete"} : ReadExisting(q, u, l)
          \/ SuspendUser(q) \/ DisableAgain(q) \/ SuspendNobody(q)
          \/ CloseUserSessions(q) \/ DisableUserDevices(q)
          \/ \E D \in SUBSET Device, E \in SUBSET Enrollment : Prune(q, D, E)
          \/ \E O \in SUBSET Origin : PruneSessions(q, O)
    \/ Crash

Spec == Init /\ [][Next]_vars

-----------------------------------------------------------------------------
(* Properties *)

\* Every variable has its type, and exactly the devices that have a row in the
\* registry have an owner, across enrollment, replacement and retention.
TypeOK ==
    /\ user \in [User -> {"enabled", "disabled", "deleted"}]
    /\ device \in [Device -> DeviceRecord]
    /\ \A d \in Device : device[d].state = "none" <=> device[d].user = None
    /\ passkey \subseteq Device
    /\ enrollment \in [Enrollment -> EnrollmentRecord]
    /\ challenge \in [Challenge -> ChallengeRecord]
    /\ session \in [Origin -> SessionRecord]
    /\ request \in [Request -> RequestRecord]
    /\ issued \in [Origin -> Nat]
    /\ reenabled \subseteq Device
    /\ late \subseteq Device \cup User
    /\ ops \in 0..MaxOps

\* Enrollments that complete side by side, with and without a replaced device, never
\* take a user or the Core over its device limit: what exceeds it are devices that an
\* administrator re-enabled, which _set_device_enabled does without counting.
WithinLimits ==
    LET counted == Active(Device) \ reenabled IN
    /\ \A u \in User : Cardinality(counted \cap OfUser(u)) <= MaxPerUser
    /\ Cardinality(counted) <= MaxPerCore

\* A device that was revoked or replaced comes back by no sequence of enrollments,
\* logins and administrative calls; all that happens to it is retention.
RevokedForGood ==
    [][\A d \in Device : device[d].state = "revoked" => device'[d].state \in {"revoked", "none"}]_vars

\* A deleted user whose sessions were never closed, since Core stopped first.
OrphanedBy(u) == u \in late /\ user[u] = "deleted"

\* Once the request that revoked or replaced a device is through, its user has no live
\* session on it.  Two things are excepted (late): a login or completion that was under
\* way and opens its session after the revocation, and a crash between the two stores,
\* of this device or of the deletion of its user.
RevocationClosesSessions ==
    \A d \in Device :
        device[d].state = "revoked" /\ d \notin late /\ ~Closing(d) /\ ~OrphanedBy(device[d].user)
        => \A o \in OnDevice(d) \cap ByUser(device[d].user) : session[o].state # "live"

\* Once the request that disabled or deleted a user is through, the user has no live
\* session: no login that was under way opens one later.  Two things are excepted (late):
\* a crash before the sessions are closed, and a request that read the user as disabled,
\* awaited the step-up while somebody enabled the user, and so disables without closing.
SuspendedUserIsOut ==
    \A u \in User :
        user[u] # "enabled" /\ u \notin late /\ ~ClosingUser(u)
        => \A o \in ByUser(u) : session[o].state # "live"

\* The state of a code as its holder sees it.
CodeState(c) ==
    IF c \in Enrollment
    THEN CASE enrollment[c].status = "none" -> "unissued"
           [] enrollment[c].status \in {"pending", "approved"} -> "open"
           [] enrollment[c].status = "consumed" -> "spent"
           [] OTHER -> "void"
    ELSE CASE challenge[c].status = "none" -> "unissued"
           [] challenge[c].status = "open" -> "open"
           [] OTHER -> "spent"

OneTime == INSTANCE OneTimeCode WITH
    code <- [c \in Code |-> CodeState(c)],
    granted <- [c \in Code |-> issued[c]]

\* Enrollments and login challenges are single-use codes: whatever the interleaving of
\* completions, cancellations, expiries, retention runs and restarts, each is spent at
\* most once, never after it was cancelled, and opens at most one session.
SingleUse == OneTime!Spec

==============================================================================
