------------------------ MODULE DeviceEnrollmentProofs ------------------------
(***************************************************************************)
(* Proofs about DeviceEnrollment, for every number of users, devices,      *)
(* codes and requests, and for every limit.                                *)
(*                                                                         *)
(* Types strengthens the type invariant with what a request knows at each  *)
(* label (Requests) and with the owners of the codes that exist (Filled).  *)
(* Codes says that one request at most is between spending a code and      *)
(* opening the session for it; with it every step is one of OneTimeCode    *)
(* or a stutter.  Outs strengthens the two invariants about sessions.      *)
(***************************************************************************)
EXTENDS DeviceEnrollment, FiniteSetTheorems, TLAPS

\* What a request knows at each of its labels.
Well(r) ==
    /\ r \in RequestRecord
    /\ r.pc \in {"consume", "owner", "retire"} => r.origin \in Enrollment
    /\ r.pc \in {"issue", "device", "passkey", "login_user", "store_passkey"}
         => r.origin \in Challenge
    /\ r.pc = "session" => r.origin \in Origin
    /\ r.pc \in {"consume", "owner", "retire", "session", "issue", "device", "passkey",
                 "login_user", "store_passkey", "close"} => r.device \in Device
    /\ r.pc \in {"retire", "session", "issue", "device", "passkey", "login_user",
                 "store_passkey", "disable", "delete", "user_sessions", "user_devices"}
         => r.user \in User

Requests == \A q \in Request : Well(request[q])

\* An enrollment that exists has a user, and so has a challenge, and a device.
Filled ==
    /\ \A e \in Enrollment : enrollment[e].status # "none" => enrollment[e].user \in User
    /\ \A c \in Challenge : challenge[c].status # "none"
                            => challenge[c].device \in Device /\ challenge[c].user \in User
    /\ \A q \in Request : request[q].pc \in {"consume", "owner", "retire"}
                          => enrollment[request[q].origin].status # "none"

Types == TypeOK /\ Requests /\ Filled

-----------------------------------------------------------------------------

\* What the assumption says of the constants.
LEMMA Constants ==
  /\ MaxPerUser \in Nat /\ MaxPerCore \in Nat /\ MaxOps \in Nat
  /\ None \notin Device /\ None \notin User /\ None \notin Origin
  /\ Enrollment \subseteq Origin /\ Challenge \subseteq Origin /\ Login \subseteq Origin
  /\ Owner \in User /\ IsFiniteSet(Device)
  BY DeviceAssumption DEF Origin, Code

\* A free request knows nothing.
LEMMA IdleWell == Well(Idle) /\ Idle.pc = "idle"
  BY DEF Well, Idle, RequestRecord, Label

\* A step that replaces the record of one request.
LEMMA OneRequest ==
  ASSUME Requests, NEW q \in Request, NEW r, Well(r), request \in [Request -> RequestRecord],
         request' = [request EXCEPT ![q] = r]
  PROVE  /\ Requests'
         /\ request' \in [Request -> RequestRecord]
         /\ request'[q] = r
         /\ \A p \in Request : p # q => request'[p] = request[p]
  BY DEF Requests, Well

\* The types hold at the start.
LEMMA TypesInit == Init => Types
  <1> SUFFICES ASSUME Init PROVE Types OBVIOUS
  <1>1. request \in [Request -> RequestRecord] /\ Requests
    BY IdleWell DEF Init, Requests, Well
  <1>2. device \in [Device -> DeviceRecord] /\ \A d \in Device : device[d].state = "none" <=> device[d].user = None
    BY Constants DEF Init, DeviceRecord
  <1>3. enrollment \in [Enrollment -> EnrollmentRecord] BY DEF Init, EnrollmentRecord
  <1>4. challenge \in [Challenge -> ChallengeRecord] BY DEF Init, ChallengeRecord
  <1>5. session \in [Origin -> SessionRecord] BY DEF Init, SessionRecord
  <1>6. Filled BY IdleWell DEF Init, Filled
  <1>7. /\ user \in [User -> {"enabled", "disabled", "deleted"}]
        /\ passkey \subseteq Device /\ reenabled \subseteq Device
        /\ late \subseteq Device \cup User
        /\ issued \in [Origin -> Nat] /\ ops \in 0..MaxOps
    BY Constants DEF Init
  <1> QED BY <1>1, <1>2, <1>3, <1>4, <1>5, <1>6, <1>7 DEF Types, TypeOK

\* The steps of an enrollment that no request carries keep the types.
LEMMA TypesEnrollment ==
  ASSUME Types, NEW e \in Enrollment,
         \/ \E u \in User, r \in Device \cup {None} : CreateEnrollment(e, u, r)
         \/ Approve(e) \/ Cancel(e) \/ Lapse(e) \/ Expire(e)
  PROVE  Types'
  <1> USE Constants
  <1>0. enrollment \in [Enrollment -> EnrollmentRecord] /\ enrollment[e] \in EnrollmentRecord
    BY DEF Types, TypeOK
  <1>1. ASSUME NEW u \in User, NEW r \in Device \cup {None}, CreateEnrollment(e, u, r) PROVE Types'
    <2>1. enrollment' \in [Enrollment -> EnrollmentRecord]
      BY <1>0, <1>1 DEF CreateEnrollment, EnrollmentRecord
    <2>2. Filled' BY <1>1 DEF CreateEnrollment, Filled, Types, TypeOK
    <2> QED BY <1>1, <2>1, <2>2 DEF CreateEnrollment, Types, TypeOK, Requests, history
  <1>2. CASE Approve(e)
    <2>1. enrollment' \in [Enrollment -> EnrollmentRecord]
      BY <1>0, <1>2 DEF Approve, EnrollmentRecord
    <2>2. Filled' BY <1>2 DEF Approve, Filled, Types, TypeOK
    <2> QED BY <1>2, <2>1, <2>2 DEF Approve, Types, TypeOK, Requests, history
  <1>3. CASE Cancel(e)
    <2>1. enrollment' \in [Enrollment -> EnrollmentRecord]
      BY <1>0, <1>3 DEF Cancel, EnrollmentRecord
    <2>2. Filled' BY <1>3 DEF Cancel, Filled, Types, TypeOK
    <2> QED BY <1>3, <2>1, <2>2 DEF Cancel, Operation, Types, TypeOK, Requests, history
  <1>4. CASE Lapse(e)
    <2>1. enrollment' \in [Enrollment -> EnrollmentRecord]
      BY <1>0, <1>4 DEF Lapse, EnrollmentRecord
    <2>2. Filled' BY <1>4 DEF Lapse, Filled, Types, TypeOK
    <2> QED BY <1>4, <2>1, <2>2 DEF Lapse, Operation, Types, TypeOK, Requests, history
  <1>5. CASE Expire(e)
    <2>1. enrollment' \in [Enrollment -> EnrollmentRecord]
      BY <1>0, <1>5 DEF Expire, EnrollmentRecord
    <2>2. Filled' BY <1>5 DEF Expire, Filled, Types, TypeOK
    <2> QED BY <1>5, <2>1, <2>2 DEF Expire, Types, TypeOK, Requests, history
  <1> QED BY <1>1, <1>2, <1>3, <1>4, <1>5

\* The requests' own updates, as the replacement of one record.
LEMMA Updates ==
  ASSUME NEW q \in Request, Types
  PROVE  /\ \A l : Goto(q, l) => request' = [request EXCEPT ![q] = [request[q] EXCEPT !.pc = l]]
         /\ Finish(q) => request' = [request EXCEPT ![q] = Idle]
         /\ \A r : Start(q, r) => request[q].pc = "idle" /\ request' = [request EXCEPT ![q] = r]
  BY DEF Goto, Finish, Start, Types, TypeOK

\* Revoking sessions keeps the type of their table.
LEMMA RevokeType ==
  ASSUME Types, NEW O, RevokeSessions(O)
  PROVE  session' \in [Origin -> SessionRecord]
  <1>1. session \in [Origin -> SessionRecord] BY DEF Types, TypeOK
  <1>2. \A z \in SessionRecord : [z EXCEPT !.state = "revoked"] \in SessionRecord
    BY DEF SessionRecord
  <1> QED BY <1>1, <1>2 DEF RevokeSessions

\* An operation is counted within its bound.
LEMMA OpsType == Types /\ Operation => ops' \in 0..MaxOps
  BY Constants DEF Types, TypeOK, Operation

\* The steps of completing an enrollment keep the types.
LEMMA TypesComplete ==
  ASSUME Types, NEW q \in Request,
         \/ \E e \in Enrollment, d \in Device : Complete(q, e, d)
         \/ Consume(q) \/ Refuse(q) \/ ReadOwner(q) \/ RetireReplaced(q) \/ OpenSession(q)
  PROVE  Types'
  <1> USE Constants
  <1>0. /\ request \in [Request -> RequestRecord] /\ Requests /\ Well(request[q])
        /\ enrollment \in [Enrollment -> EnrollmentRecord]
    BY DEF Types, TypeOK, Requests
  <1>1. ASSUME NEW e \in Enrollment, NEW d \in Device, Complete(q, e, d) PROVE Types'
    <2> DEFINE r == [Idle EXCEPT !.pc = "consume", !.origin = e, !.device = d]
    <2>1. request' = [request EXCEPT ![q] = r] BY <1>1, Updates DEF Complete
    <2>2. Well(r) BY DEF Well, Idle, RequestRecord, Label
    <2>3. r.pc = "consume" /\ r.origin = e BY DEF Idle
    <2> HIDE DEF r
    <2>4. Requests' /\ request' \in [Request -> RequestRecord] BY <1>0, <2>1, <2>2, OneRequest
    <2>5. Filled' BY <1>0, <1>1, <2>1, <2>2, <2>3, OneRequest DEF Complete, Types, Filled
    <2> QED BY <1>1, <2>4, <2>5 DEF Complete, Types, TypeOK, history
  <1>2. CASE Consume(q)
    <2> DEFINE e == request[q].origin
               d == request[q].device
               x == enrollment[e].replace
               r == [request[q] EXCEPT !.pc = "owner"]
    <2>0. e \in Enrollment /\ d \in Device /\ enrollment[e].user \in User
          /\ enrollment[e].status # "none" /\ enrollment[e] \in EnrollmentRecord
      BY <1>0, <1>2 DEF Consume, Well, Types, Filled
    <2>1. request' = [request EXCEPT ![q] = r] BY <1>2, Updates DEF Consume
    <2>2. Well(r) BY <1>0, <1>2 DEF Consume, Well, RequestRecord, Label
    <2>3. r.pc = "owner" /\ r.origin = e BY <1>0 DEF Well, RequestRecord
    <2>4. x # None => device[x].state \in {"active", "disabled"}
      BY <1>2 DEF Consume, Consumable
    <2>5. /\ enrollment' = [enrollment EXCEPT ![e].status = "consumed"]
          /\ passkey' = passkey \cup {d} /\ reenabled' = reenabled \ {d}
          /\ device' = [y \in Device |->
                          IF y = d THEN [state |-> "active", user |-> enrollment[e].user]
                          ELSE IF y = x THEN [device[y] EXCEPT !.state = "revoked"]
                          ELSE device[y]]
      BY <1>2 DEF Consume
    <2> HIDE DEF r
    <2>6. Requests' /\ request' \in [Request -> RequestRecord] BY <1>0, <2>1, <2>2, OneRequest
    <2>7. Filled'
      <3>1. \A p \in Request : request'[p].pc \in {"consume", "owner", "retire"}
              => request[p].pc \in {"consume", "owner", "retire"} /\ request'[p].origin = request[p].origin
        BY <1>0, <1>2, <2>1, <2>2, <2>3, OneRequest DEF Consume
      <3>2. challenge' = challenge BY <1>2 DEF Consume
      <3>3. \A f \in Enrollment : enrollment'[f].user = enrollment[f].user
              /\ (enrollment[f].status # "none" <=> enrollment'[f].status # "none")
        BY <1>0, <2>0, <2>5
      <3>4. \A p \in Request : request'[p].pc \in {"consume", "owner", "retire"}
                               => request'[p].origin \in Enrollment
        BY <2>6 DEF Requests, Well
      <3> QED BY <3>1, <3>2, <3>3, <3>4 DEF Types, Filled
    <2>8. enrollment' \in [Enrollment -> EnrollmentRecord] BY <1>0, <2>0, <2>5 DEF EnrollmentRecord
    <2>9. /\ device' \in [Device -> DeviceRecord]
          /\ \A y \in Device : device'[y].state = "none" <=> device'[y].user = None
      <3> HIDE DEF x
      <3> QED BY <2>0, <2>4, <2>5 DEF Types, TypeOK, DeviceRecord
    <2>10. passkey' \subseteq Device /\ reenabled' \subseteq Device BY <2>0, <2>5 DEF Types, TypeOK
    <2>11. UNCHANGED <<user, challenge, session, issued, late, ops>> BY <1>2 DEF Consume
    <2> QED BY <2>6, <2>7, <2>8, <2>9, <2>10, <2>11 DEF Types, TypeOK
  <1>3. CASE Refuse(q)
    <2>1. request' = [request EXCEPT ![q] = Idle] BY <1>3, Updates DEF Refuse
    <2>2. Requests' /\ request' \in [Request -> RequestRecord]
      BY <1>0, <2>1, IdleWell, OneRequest
    <2>3. Filled' BY <1>0, <1>3, <2>1, IdleWell, OneRequest DEF Refuse, Types, Filled
    <2> QED BY <1>3, <2>2, <2>3 DEF Refuse, Types, TypeOK, history
  <1>4. CASE ReadOwner(q)
    <2> DEFINE e == request[q].origin
               r == [request[q] EXCEPT !.user = enrollment[e].user,
                       !.pc = IF enrollment[e].replace = None THEN "session" ELSE "retire"]
    <2>0. e \in Enrollment /\ enrollment[e].user \in User /\ request[q].pc = "owner"
      BY <1>0, <1>4 DEF ReadOwner, Well, Types, Filled
    <2>1. request' = [request EXCEPT ![q] = Idle] \/ request' = [request EXCEPT ![q] = r]
      BY <1>0, <1>4, Updates DEF ReadOwner
    <2>2. Well(r) BY <1>0, <2>0 DEF Well, RequestRecord, Label
    <2>3. r.origin = e BY <1>0 DEF Well, RequestRecord
    <2>4. UNCHANGED <<user, device, passkey, enrollment, challenge, session, history, ops>>
      BY <1>4 DEF ReadOwner
    <2> HIDE DEF r
    <2>5. Requests' /\ request' \in [Request -> RequestRecord]
      BY <1>0, <2>1, <2>2, IdleWell, OneRequest
    <2>6. Filled' BY <1>0, <2>0, <2>1, <2>2, <2>3, <2>4, IdleWell, OneRequest DEF Types, Filled
    <2> QED BY <2>4, <2>5, <2>6 DEF Types, TypeOK, history
  <1>5. CASE RetireReplaced(q)
    <2> DEFINE r == [request[q] EXCEPT !.pc = "session"]
    <2>1. request' = [request EXCEPT ![q] = r] BY <1>5, Updates DEF RetireReplaced
    <2>2. Well(r) BY <1>0, <1>5 DEF RetireReplaced, Well, RequestRecord, Label
    <2>3. r.pc = "session" BY <1>0 DEF Well, RequestRecord
    <2> HIDE DEF r
    <2>4. Requests' /\ request' \in [Request -> RequestRecord] BY <1>0, <2>1, <2>2, OneRequest
    <2>5. Filled' BY <1>0, <1>5, <2>1, <2>2, <2>3, OneRequest DEF RetireReplaced, Types, Filled
    <2>6. session' \in [Origin -> SessionRecord]
      BY <1>5, RevokeType DEF RetireReplaced, Types, TypeOK
    <2> QED BY <1>5, <2>4, <2>5, <2>6 DEF RetireReplaced, Types, TypeOK, history
  <1>6. CASE OpenSession(q)
    <2>0. request[q].origin \in Origin /\ request[q].device \in Device /\ request[q].user \in User
      BY <1>0, <1>6 DEF OpenSession, Well
    <2>1. request' = [request EXCEPT ![q] = Idle] BY <1>6, Updates DEF OpenSession
    <2>2. Requests' /\ request' \in [Request -> RequestRecord]
      BY <1>0, <2>1, IdleWell, OneRequest
    <2>3. Filled' BY <1>0, <1>6, <2>1, IdleWell, OneRequest DEF OpenSession, Types, Filled
    <2>4. session' \in [Origin -> SessionRecord]
      BY <2>0, <1>6 DEF OpenSession, Types, TypeOK, SessionRecord
    <2>5. issued' \in [Origin -> Nat] BY <2>0, <1>6 DEF OpenSession, Types, TypeOK
    <2>6. late' \subseteq Device \cup User BY <2>0, <1>6 DEF OpenSession, Types, TypeOK
    <2> QED BY <1>6, <2>2, <2>3, <2>4, <2>5, <2>6 DEF OpenSession, Types, TypeOK
  <1> QED BY <1>1, <1>2, <1>3, <1>4, <1>5, <1>6

\* The steps of a login keep the types.
LEMMA TypesLogin ==
  ASSUME Types, NEW q \in Request,
         \/ \E c \in Challenge, d \in Device : AskChallenge(q, c, d)
         \/ IssueChallenge(q)
         \/ \E c \in Challenge : AnswerChallenge(q, c)
         \/ ReadDevice(q) \/ ReadPasskey(q) \/ ReadUser(q) \/ StorePasskey(q)
         \/ \E l \in Login, u \in User, d \in Device : PasswordLogin(q, l, u, d)
  PROVE  Types'
  <1> USE Constants
  <1>0. /\ request \in [Request -> RequestRecord] /\ Requests /\ Well(request[q])
        /\ challenge \in [Challenge -> ChallengeRecord]
    BY DEF Types, TypeOK, Requests
  <1>1. ASSUME NEW c \in Challenge, NEW d \in Device, AskChallenge(q, c, d) PROVE Types'
    <2> DEFINE r == [Idle EXCEPT !.pc = "issue", !.origin = c, !.device = d, !.user = device[d].user]
    <2>0. device[d].user \in User BY <1>1 DEF AskChallenge, Types, TypeOK, DeviceRecord
    <2>1. request' = [request EXCEPT ![q] = r] BY <1>1, Updates DEF AskChallenge
    <2>2. Well(r) BY <2>0 DEF Well, Idle, RequestRecord, Label
    <2>3. r.pc = "issue" BY DEF Idle
    <2> HIDE DEF r
    <2>4. Requests' /\ request' \in [Request -> RequestRecord] BY <1>0, <2>1, <2>2, OneRequest
    <2>5. Filled' BY <1>0, <1>1, <2>1, <2>2, <2>3, OneRequest DEF AskChallenge, Types, Filled
    <2> QED BY <1>1, <2>4, <2>5 DEF AskChallenge, Types, TypeOK, history
  <1>2. CASE IssueChallenge(q)
    <2>0. request[q].origin \in Challenge /\ request[q].device \in Device /\ request[q].user \in User
      BY <1>0, <1>2 DEF IssueChallenge, Well
    <2>1. request' = [request EXCEPT ![q] = Idle] BY <1>2, Updates DEF IssueChallenge
    <2>2. Requests' /\ request' \in [Request -> RequestRecord]
      BY <1>0, <2>1, IdleWell, OneRequest
    <2>3. challenge' \in [Challenge -> ChallengeRecord]
      BY <1>0, <1>2, <2>0 DEF IssueChallenge, ChallengeRecord
    <2>4. Filled'
      <3>1. \A c \in Challenge : challenge'[c].status # "none"
                            => challenge'[c].device \in Device /\ challenge'[c].user \in User
        BY <1>0, <1>2, <2>0 DEF IssueChallenge, Types, Filled
      <3> QED BY <1>0, <1>2, <2>1, <3>1, IdleWell, OneRequest DEF IssueChallenge, Types, Filled
    <2> QED BY <1>2, <2>2, <2>3, <2>4 DEF IssueChallenge, Types, TypeOK, history
  <1>3. ASSUME NEW c \in Challenge, AnswerChallenge(q, c) PROVE Types'
    <2> DEFINE r == [Idle EXCEPT !.pc = "device", !.origin = c, !.device = challenge[c].device,
                                 !.user = challenge[c].user]
    <2>0. challenge[c].device \in Device /\ challenge[c].user \in User
      BY <1>3 DEF AnswerChallenge, Types, Filled
    <2>1. request' = [request EXCEPT ![q] = r] BY <1>3, Updates DEF AnswerChallenge
    <2>2. Well(r) BY <2>0 DEF Well, Idle, RequestRecord, Label
    <2>3. r.pc = "device" BY DEF Idle
    <2> HIDE DEF r
    <2>4. Requests' /\ request' \in [Request -> RequestRecord] BY <1>0, <2>1, <2>2, OneRequest
    <2>5. challenge' \in [Challenge -> ChallengeRecord]
      BY <1>0, <1>3 DEF AnswerChallenge, ChallengeRecord
    <2>6. Filled'
      <3>1. \A x \in Challenge : challenge'[x].status # "none"
                            => challenge'[x].device \in Device /\ challenge'[x].user \in User
        <4>1. challenge' = [challenge EXCEPT ![c] = [challenge[c] EXCEPT !.status = "used"]]
          BY <1>0, <1>3 DEF AnswerChallenge
        <4>2. challenge[c] \in ChallengeRecord BY <1>0
        <4> QED BY <1>0, <2>0, <4>1, <4>2 DEF ChallengeRecord, Types, Filled
      <3> QED BY <1>0, <1>3, <2>1, <2>2, <2>3, <3>1, OneRequest DEF AnswerChallenge, Types, Filled
    <2> QED BY <1>3, <2>4, <2>5, <2>6 DEF AnswerChallenge, Types, TypeOK, history
  <1>4. CASE ReadDevice(q) \/ ReadUser(q)
    <2> DEFINE r == [request[q] EXCEPT !.pc = IF request[q].pc = "device" THEN "passkey" ELSE "store_passkey"]
    <2>1. request' = [request EXCEPT ![q] = Idle] \/ request' = [request EXCEPT ![q] = r]
      BY <1>4, Updates DEF ReadDevice, ReadUser
    <2>2. Well(r) BY <1>0, <1>4 DEF ReadDevice, ReadUser, Well, RequestRecord, Label
    <2>3. r.pc \in {"passkey", "store_passkey"} BY <1>0 DEF Well, RequestRecord
    <2>4. UNCHANGED <<user, device, passkey, enrollment, challenge, session, history, ops>>
      BY <1>4 DEF ReadDevice, ReadUser
    <2> HIDE DEF r
    <2>5. Requests' /\ request' \in [Request -> RequestRecord]
      BY <1>0, <2>1, <2>2, IdleWell, OneRequest
    <2>6. Filled' BY <1>0, <2>1, <2>2, <2>3, <2>4, IdleWell, OneRequest DEF Types, Filled
    <2> QED BY <2>4, <2>5, <2>6 DEF Types, TypeOK, history
  <1>5. CASE ReadPasskey(q)
    <2> DEFINE r == [request[q] EXCEPT !.pc = "login_user", !.seen = request[q].device \in passkey]
    <2>1. request' = [request EXCEPT ![q] = r] BY <1>0, <1>5 DEF ReadPasskey
    <2>2. Well(r)
      <3>1. (request[q].device \in passkey) \in BOOLEAN OBVIOUS
      <3> QED BY <1>0, <1>5, <3>1 DEF ReadPasskey, Well, RequestRecord, Label
    <2>3. r.pc = "login_user" BY <1>0 DEF Well, RequestRecord
    <2> HIDE DEF r
    <2>4. Requests' /\ request' \in [Request -> RequestRecord] BY <1>0, <2>1, <2>2, OneRequest
    <2>5. Filled' BY <1>0, <1>5, <2>1, <2>2, <2>3, OneRequest DEF ReadPasskey, Types, Filled
    <2> QED BY <1>5, <2>4, <2>5 DEF ReadPasskey, Types, TypeOK, history
  <1>6. CASE StorePasskey(q)
    <2> DEFINE r == [request[q] EXCEPT !.pc = "session"]
    <2>1. request' = [request EXCEPT ![q] = Idle] \/ request' = [request EXCEPT ![q] = r]
      BY <1>6, Updates DEF StorePasskey
    <2>2. Well(r) BY <1>0, <1>6 DEF StorePasskey, Well, RequestRecord, Label
    <2>3. r.pc = "session" BY <1>0 DEF Well, RequestRecord
    <2>4. UNCHANGED <<user, device, enrollment, challenge, session, history, ops>>
      BY <1>6 DEF StorePasskey
    <2> HIDE DEF r
    <2>5. Requests' /\ request' \in [Request -> RequestRecord]
      BY <1>0, <2>1, <2>2, IdleWell, OneRequest
    <2>6. Filled' BY <1>0, <2>1, <2>2, <2>3, <2>4, IdleWell, OneRequest DEF Types, Filled
    <2>7. passkey' \subseteq Device BY <1>0, <1>6 DEF StorePasskey, Types, TypeOK, Well
    <2> QED BY <2>4, <2>5, <2>6, <2>7 DEF Types, TypeOK, history
  <1>7. ASSUME NEW l \in Login, NEW u \in User, NEW d \in Device, PasswordLogin(q, l, u, d) PROVE Types'
    <2> DEFINE r == [Idle EXCEPT !.pc = "session", !.origin = l, !.device = d, !.user = u]
    <2>1. request' = [request EXCEPT ![q] = r] BY <1>7, Updates DEF PasswordLogin
    <2>2. Well(r) BY DEF Well, Idle, RequestRecord, Label
    <2>3. r.pc = "session" BY DEF Idle
    <2> HIDE DEF r
    <2>4. Requests' /\ request' \in [Request -> RequestRecord] BY <1>0, <2>1, <2>2, OneRequest
    <2>5. Filled' BY <1>0, <1>7, <2>1, <2>2, <2>3, OneRequest DEF PasswordLogin, Types, Filled
    <2> QED BY <1>7, <2>4, <2>5, OpsType DEF PasswordLogin, Types, TypeOK, history
  <1> QED BY <1>1, <1>2, <1>3, <1>4, <1>5, <1>6, <1>7

\* The administrative endpoints and retention keep the types.
LEMMA TypesAdmin ==
  ASSUME Types, NEW q \in Request,
         \/ \E d \in Device : RevokeDevice(q, d) \/ DisableDevice(q, d)
         \/ CloseSessions(q)
         \/ \E u \in User, l \in {"disable", "delete"} : ReadExisting(q, u, l)
         \/ SuspendUser(q) \/ DisableAgain(q) \/ SuspendNobody(q)
         \/ CloseUserSessions(q) \/ DisableUserDevices(q)
         \/ \E D \in SUBSET Device, E \in SUBSET Enrollment : Prune(q, D, E)
         \/ \E O \in SUBSET Origin : PruneSessions(q, O)
  PROVE  Types'
  <1> USE Constants
  <1>0. /\ request \in [Request -> RequestRecord] /\ Requests /\ Well(request[q])
        /\ device \in [Device -> DeviceRecord]
    BY DEF Types, TypeOK, Requests
  <1>1. ASSUME NEW d \in Device, RevokeDevice(q, d) \/ DisableDevice(q, d) PROVE Types'
    <2> DEFINE r == [Idle EXCEPT !.pc = "close", !.device = d]
    <2>1. request' = [request EXCEPT ![q] = r] BY <1>1, Updates DEF RevokeDevice, DisableDevice
    <2>2. Well(r) BY DEF Well, Idle, RequestRecord, Label
    <2>3. r.pc = "close" BY DEF Idle
    <2>4. /\ device' \in [Device -> DeviceRecord]
          /\ \A x \in Device : device'[x].state = "none" <=> device'[x].user = None
      <3>1. PICK z \in {"revoked", "disabled"} : device' = [device EXCEPT ![d].state = z]
        BY <1>1 DEF RevokeDevice, DisableDevice
      <3>2. device[d].state \in {"active", "disabled"} BY <1>1 DEF RevokeDevice, DisableDevice
      <3>3. \A x \in Device : device[x].state = "none" <=> device[x].user = None
        BY DEF Types, TypeOK
      <3> QED BY <1>0, <3>1, <3>2, <3>3 DEF DeviceRecord
    <2>5. reenabled' \subseteq Device
      BY <1>1 DEF RevokeDevice, DisableDevice, Types, TypeOK, history
    <2>6. ops' \in 0..MaxOps BY <1>1, OpsType DEF RevokeDevice, DisableDevice
    <2>7. UNCHANGED <<user, passkey, enrollment, challenge, session, issued, late>>
      BY <1>1 DEF RevokeDevice, DisableDevice, history
    <2> HIDE DEF r
    <2>8. Requests' /\ request' \in [Request -> RequestRecord] BY <1>0, <2>1, <2>2, OneRequest
    <2>9. Filled' BY <1>0, <2>1, <2>2, <2>3, <2>7, OneRequest DEF Types, Filled
    <2> QED BY <2>4, <2>5, <2>6, <2>7, <2>8, <2>9 DEF Types, TypeOK
  <1>2. CASE CloseSessions(q)
    <2>1. request' = [request EXCEPT ![q] = Idle] BY <1>2, Updates DEF CloseSessions
    <2>2. Requests' /\ request' \in [Request -> RequestRecord]
      BY <1>0, <2>1, IdleWell, OneRequest
    <2>3. Filled' BY <1>0, <1>2, <2>1, IdleWell, OneRequest DEF CloseSessions, Types, Filled
    <2>4. session' \in [Origin -> SessionRecord]
      BY <1>2 DEF CloseSessions, RevokeSessions, Types, TypeOK, SessionRecord
    <2> QED BY <1>2, <2>2, <2>3, <2>4 DEF CloseSessions, Types, TypeOK, history
  <1>3. ASSUME NEW u \in User, NEW l \in {"disable", "delete"}, ReadExisting(q, u, l)
        PROVE  Types'
    <2> DEFINE r == [Idle EXCEPT !.pc = l, !.user = u, !.seen = user[u] = "enabled"]
    <2>1. request' = [request EXCEPT ![q] = r] BY <1>3 DEF ReadExisting, Start
    <2>2. Well(r)
      <3>1. (user[u] = "enabled") \in BOOLEAN OBVIOUS
      <3> QED BY <3>1 DEF Well, Idle, RequestRecord, Label
    <2>3. r.pc = l BY DEF Idle
    <2> HIDE DEF r
    <2>4. Requests' /\ request' \in [Request -> RequestRecord] BY <1>0, <2>1, <2>2, OneRequest
    <2>5. Filled' BY <1>0, <1>3, <2>1, <2>2, <2>3, OneRequest DEF ReadExisting, Types, Filled
    <2> QED BY <1>3, <2>4, <2>5, OpsType DEF ReadExisting, Types, TypeOK, history
  <1>8. CASE SuspendUser(q)
    <2> DEFINE r == [request[q] EXCEPT !.pc = "user_sessions"]
    <2>1. request' = [request EXCEPT ![q] = r] BY <1>8, Updates DEF SuspendUser
    <2>2. Well(r) BY <1>0, <1>8 DEF SuspendUser, Well, RequestRecord, Label
    <2>3. r.pc = "user_sessions" BY <1>0 DEF Well, RequestRecord
    <2> HIDE DEF r
    <2>4. Requests' /\ request' \in [Request -> RequestRecord] BY <1>0, <2>1, <2>2, OneRequest
    <2>5. Filled' BY <1>0, <1>8, <2>1, <2>2, <2>3, OneRequest DEF SuspendUser, Types, Filled
    <2>6. user' \in [User -> {"enabled", "disabled", "deleted"}]
      BY <1>8 DEF SuspendUser, Types, TypeOK
    <2> QED BY <1>8, <2>4, <2>5, <2>6 DEF SuspendUser, Types, TypeOK, history
  <1>9. CASE DisableAgain(q) \/ SuspendNobody(q)
    <2>0. request[q].user \in User BY <1>0, <1>9 DEF DisableAgain, SuspendNobody, Well
    <2>1. request' = [request EXCEPT ![q] = Idle]
      BY <1>9, Updates DEF DisableAgain, SuspendNobody
    <2>2. Requests' /\ request' \in [Request -> RequestRecord]
      BY <1>0, <2>1, IdleWell, OneRequest
    <2>3. UNCHANGED <<device, passkey, enrollment, challenge, session, issued, reenabled, ops>>
      BY <1>9 DEF DisableAgain, SuspendNobody, history
    <2>4. Filled' BY <1>0, <2>1, <2>3, IdleWell, OneRequest DEF Types, Filled
    <2>5. user' \in [User -> {"enabled", "disabled", "deleted"}] /\ late' \subseteq Device \cup User
      BY <1>9, <2>0 DEF DisableAgain, SuspendNobody, Types, TypeOK, history
    <2> QED BY <2>2, <2>3, <2>4, <2>5 DEF Types, TypeOK
  <1>4. CASE CloseUserSessions(q)
    <2> DEFINE r == [request[q] EXCEPT !.pc = "user_devices"]
    <2>1. request' = [request EXCEPT ![q] = r] BY <1>4, Updates DEF CloseUserSessions
    <2>2. Well(r) BY <1>0, <1>4 DEF CloseUserSessions, Well, RequestRecord, Label
    <2>3. r.pc = "user_devices" BY <1>0 DEF Well, RequestRecord
    <2> HIDE DEF r
    <2>4. Requests' /\ request' \in [Request -> RequestRecord] BY <1>0, <2>1, <2>2, OneRequest
    <2>5. Filled' BY <1>0, <1>4, <2>1, <2>2, <2>3, OneRequest DEF CloseUserSessions, Types, Filled
    <2>6. session' \in [Origin -> SessionRecord]
      BY <1>4, RevokeType DEF CloseUserSessions
    <2> QED BY <1>4, <2>4, <2>5, <2>6 DEF CloseUserSessions, Types, TypeOK, history
  <1>5. CASE DisableUserDevices(q)
    <2>1. request' = [request EXCEPT ![q] = Idle] BY <1>5, Updates DEF DisableUserDevices
    <2>2. Requests' /\ request' \in [Request -> RequestRecord]
      BY <1>0, <2>1, IdleWell, OneRequest
    <2>3. Filled' BY <1>0, <1>5, <2>1, IdleWell, OneRequest DEF DisableUserDevices, Types, Filled
    <2>4. /\ device' \in [Device -> DeviceRecord]
          /\ \A x \in Device : device'[x].state = "none" <=> device'[x].user = None
      BY <1>0, <1>5 DEF DisableUserDevices, Types, TypeOK, DeviceRecord
    <2>5. reenabled' \subseteq Device BY <1>5 DEF DisableUserDevices, Types, TypeOK
    <2> QED BY <1>5, <2>2, <2>3, <2>4, <2>5 DEF DisableUserDevices, Types, TypeOK
  <1>6. ASSUME NEW D \in SUBSET Device, NEW E \in SUBSET Enrollment, Prune(q, D, E) PROVE Types'
    <2> DEFINE r == [Idle EXCEPT !.pc = "prune_sessions"]
    <2>1. request' = [request EXCEPT ![q] = r] BY <1>6, Updates DEF Prune
    <2>2. Well(r) BY DEF Well, Idle, RequestRecord, Label
    <2>3. r.pc = "prune_sessions" BY DEF Idle
    <2> HIDE DEF r
    <2>4. Requests' /\ request' \in [Request -> RequestRecord] BY <1>0, <2>1, <2>2, OneRequest
    <2>5. enrollment' \in [Enrollment -> EnrollmentRecord]
      <3>1. enrollment' = [e \in Enrollment |-> IF e \in E THEN [enrollment[e] EXCEPT !.kept = FALSE]
                                                            ELSE enrollment[e]]
        BY <1>6 DEF Prune
      <3>2. \A z \in EnrollmentRecord : [z EXCEPT !.kept = FALSE] \in EnrollmentRecord
        BY DEF EnrollmentRecord
      <3> QED BY <3>1, <3>2 DEF Types, TypeOK
    <2>6. \A e \in Enrollment : enrollment'[e].user = enrollment[e].user
                                /\ enrollment'[e].status = enrollment[e].status
      BY <1>6 DEF Prune, Types, TypeOK, EnrollmentRecord
    <2>7. Filled'
      <3>1. \A p \in Request : request'[p].pc \in {"consume", "owner", "retire"}
                => request'[p] = request[p] /\ request[p].origin \in Enrollment
        BY <1>0, <2>1, <2>2, <2>3, OneRequest DEF Requests, Well
      <3> QED BY <1>6, <2>6, <3>1 DEF Prune, Types, Filled
    <2>8. /\ device' \in [Device -> DeviceRecord]
          /\ \A x \in Device : device'[x].state = "none" <=> device'[x].user = None
      BY <1>0, <1>6 DEF Prune, Types, TypeOK, DeviceRecord
    <2> QED BY <1>6, <2>4, <2>5, <2>7, <2>8 DEF Prune, Operation, Types, TypeOK, history
  <1>7. ASSUME NEW O \in SUBSET Origin, PruneSessions(q, O) PROVE Types'
    <2>1. request' = [request EXCEPT ![q] = Idle] BY <1>7, Updates DEF PruneSessions
    <2>2. Requests' /\ request' \in [Request -> RequestRecord]
      BY <1>0, <2>1, IdleWell, OneRequest
    <2>3. Filled' BY <1>0, <1>7, <2>1, IdleWell, OneRequest DEF PruneSessions, Types, Filled
    <2>4. session' \in [Origin -> SessionRecord]
      <3>1. \A z \in SessionRecord : [z EXCEPT !.state = "pruned"] \in SessionRecord
        BY DEF SessionRecord
      <3> QED BY <1>7, <3>1 DEF PruneSessions, Types, TypeOK
    <2> QED BY <1>7, <2>2, <2>3, <2>4 DEF PruneSessions, Types, TypeOK, history
  <1> QED BY <1>1, <1>2, <1>3, <1>4, <1>5, <1>6, <1>7, <1>8, <1>9

\* Every step keeps the types.
LEMMA TypesNext == Types /\ [Next]_vars => Types'
  <1> SUFFICES ASSUME Types, [Next]_vars PROVE Types' OBVIOUS
  <1> USE Constants
  <1>1. ASSUME NEW c \in Challenge, LapseChallenge(c) PROVE Types'
    <2>1. challenge' \in [Challenge -> ChallengeRecord]
      <3>1. challenge' = [challenge EXCEPT ![c] = [challenge[c] EXCEPT !.live = FALSE]]
        BY <1>1 DEF LapseChallenge, Types, TypeOK
      <3>2. challenge[c] \in ChallengeRecord BY DEF Types, TypeOK
      <3>3. [challenge[c] EXCEPT !.live = FALSE] \in ChallengeRecord BY <3>2 DEF ChallengeRecord
      <3> QED BY <3>1, <3>3 DEF Types, TypeOK
    <2>2. Filled' BY <1>1 DEF LapseChallenge, Types, TypeOK, Filled
    <2> QED BY <1>1, <2>1, <2>2 DEF LapseChallenge, Operation, Types, TypeOK, Requests, history
  <1>2. ASSUME NEW o \in Origin, EndSession(o) PROVE Types'
    <2>1. session' \in [Origin -> SessionRecord]
      <3>1. session' = [session EXCEPT ![o] = [session[o] EXCEPT !.state = "revoked"]]
        BY <1>2 DEF EndSession, Types, TypeOK
      <3>2. session[o] \in SessionRecord BY DEF Types, TypeOK
      <3>3. [session[o] EXCEPT !.state = "revoked"] \in SessionRecord BY <3>2 DEF SessionRecord
      <3> QED BY <3>1, <3>3 DEF Types, TypeOK
    <2> QED BY <1>2, <2>1 DEF EndSession, Operation, Types, TypeOK, Requests, Filled, history
  <1>3. ASSUME NEW d \in Device, EnableDevice(d) PROVE Types'
    <2>1. /\ device' \in [Device -> DeviceRecord]
          /\ \A x \in Device : device'[x].state = "none" <=> device'[x].user = None
      BY <1>3 DEF EnableDevice, Types, TypeOK, DeviceRecord
    <2> QED BY <1>3, <2>1 DEF EnableDevice, Operation, Types, TypeOK, Requests, Filled
  <1>4. ASSUME NEW u \in User, EnableUser(u) PROVE Types'
    <2>1. user' \in [User -> {"enabled", "disabled", "deleted"}]
      BY <1>4 DEF EnableUser, Types, TypeOK
    <2> QED BY <1>4, <2>1 DEF EnableUser, Operation, Types, TypeOK, Requests, Filled, history
  <1>5. CASE Crash
    <2>1. request' \in [Request -> RequestRecord] /\ Requests'
      BY <1>5, IdleWell DEF Crash, Requests, Well
    <2>2. Filled' BY <1>5, IdleWell DEF Crash, Types, Filled
    <2>3. late' \subseteq Device \cup User BY <1>5 DEF Crash, Types, TypeOK
    <2> QED BY <1>5, <2>1, <2>2, <2>3 DEF Crash, Operation, Types, TypeOK
  <1>6. CASE UNCHANGED vars BY <1>6 DEF vars, Types, TypeOK, Requests, Filled
  <1> QED BY <1>1, <1>2, <1>3, <1>4, <1>5, <1>6, TypesEnrollment, TypesComplete, TypesLogin,
             TypesAdmin DEF Next

-----------------------------------------------------------------------------
(* Single use: the codes refine OneTimeCode *)

Spending == {"owner", "retire", "session", "device", "passkey", "login_user", "store_passkey"}

\* The request has spent the code and not opened its session yet; it is about to store
\* the challenge.
Spender(q, c) == request[q].pc \in Spending /\ request[q].origin = c
Issuer(q, c) == request[q].pc = "issue" /\ request[q].origin = c

\* A code that is not spent has opened nothing and nobody spends it; a code is being
\* spent by one request at a time, and issued by one, before there is anything to spend.
Codes ==
    /\ \A c \in Code : CodeState(c) # "spent"
                       => issued[c] = 0 /\ \A q \in Request : ~Spender(q, c)
    /\ \A c \in Code, q \in Request :
          Spender(q, c) => issued[c] = 0 /\ \A p \in Request : Spender(p, c) => p = q
    /\ \A c \in Challenge, q \in Request :
          Issuer(q, c) => /\ challenge[c].status = "none"
                          /\ \A p \in Request : Issuer(p, c) => p = q

\* Steps of one code are steps of the abstract specification.
LEMMA AbstractStep ==
  ASSUME NEW c \in Code, issued \in [Origin -> Nat], issued' \in [Origin -> Nat],
         \A x \in Code \ {c} : CodeState(x)' = CodeState(x) /\ issued'[x] = issued[x],
         \/ CodeState(c)' = CodeState(c) /\ issued'[c] = issued[c]
         \/ CodeState(c) = "unissued" /\ CodeState(c)' = "open" /\ issued'[c] = issued[c]
         \/ CodeState(c) = "open" /\ CodeState(c)' \in {"spent", "void"} /\ issued'[c] = issued[c]
         \/ CodeState(c) = "spent" /\ CodeState(c)' = "spent" /\ issued[c] = 0 /\ issued'[c] = 1
  PROVE  [OneTime!Next]_(OneTime!vars)
  <1> DEFINE code == [x \in Code |-> CodeState(x)]
             granted == [x \in Code |-> issued[x]]
  <1>1. CASE CodeState(c)' = CodeState(c) /\ issued'[c] = issued[c]
    <2>1. \A x \in Code : CodeState(x)' = CodeState(x) /\ issued'[x] = issued[x] BY <1>1
    <2>2. code' = code BY <2>1
    <2>3. granted' = granted BY <2>1
    <2> QED BY <2>2, <2>3 DEF OneTime!vars
  <1>2. CASE CodeState(c) = "unissued" /\ CodeState(c)' = "open" /\ issued'[c] = issued[c]
    <2>1. code' = [code EXCEPT ![c] = "open"] BY <1>2
    <2>2. granted' = granted BY <1>2
    <2> QED BY <1>2, <2>1, <2>2 DEF OneTime!Next, OneTime!Issue
  <1>3. CASE CodeState(c) = "open" /\ CodeState(c)' = "spent" /\ issued'[c] = issued[c]
    <2>1. code' = [code EXCEPT ![c] = "spent"] BY <1>3
    <2>2. granted' = granted BY <1>3
    <2> QED BY <1>3, <2>1, <2>2 DEF OneTime!Next, OneTime!Spend
  <1>4. CASE CodeState(c) = "open" /\ CodeState(c)' = "void" /\ issued'[c] = issued[c]
    <2>1. code' = [code EXCEPT ![c] = "void"] BY <1>4
    <2>2. granted' = granted BY <1>4
    <2> QED BY <1>4, <2>1, <2>2 DEF OneTime!Next, OneTime!Void
  <1>5. CASE CodeState(c) = "spent" /\ CodeState(c)' = "spent" /\ issued[c] = 0 /\ issued'[c] = 1
    <2>1. code' = code BY <1>5
    <2>2. granted' = [granted EXCEPT ![c] = 1] BY <1>5
    <2> QED BY <1>5, <2>1, <2>2 DEF OneTime!Next, OneTime!Grant
  <1> QED BY <1>1, <1>2, <1>3, <1>4, <1>5

Refines == [OneTime!Next]_(OneTime!vars)

\* A step that leaves every code as it was, and gives none to a request.
LEMMA QuietStep ==
  ASSUME Types, Codes,
         \A c \in Code : CodeState(c)' = CodeState(c) /\ issued'[c] = issued[c],
         \A c \in Code, p \in Request : Spender(p, c)' => Spender(p, c),
         \A c \in Challenge, p \in Request : Issuer(p, c)' => Issuer(p, c)
  PROVE  Codes' /\ Refines
  <1>1. [x \in Code |-> CodeState(x)]' = [x \in Code |-> CodeState(x)] OBVIOUS
  <1>2. [x \in Code |-> issued[x]]' = [x \in Code |-> issued[x]] OBVIOUS
  <1>3. Refines BY <1>1, <1>2 DEF Refines, OneTime!vars
  <1>4. \A c \in Challenge : challenge[c].status = "none" => challenge'[c].status = "none"
    <2> SUFFICES ASSUME NEW c \in Challenge, challenge[c].status = "none"
                 PROVE  challenge'[c].status = "none"
      OBVIOUS
    <2>1. c \in Code /\ c \notin Enrollment BY DeviceAssumption DEF Code
    <2>2. CodeState(c) = "unissued" BY <2>1 DEF CodeState
    <2>3. CodeState(c)' = "unissued" BY <2>1, <2>2
    <2> QED BY <2>1, <2>3 DEF CodeState
  <1>5. Codes' BY <1>4 DEF Codes
  <1> QED BY <1>3, <1>5

\* A step that leaves the tables of the codes alone, and moves one request on.
LEMMA QuietMove ==
  ASSUME Types, Codes, NEW q \in Request, NEW r,
         UNCHANGED <<enrollment, challenge, issued>>,
         request' = [request EXCEPT ![q] = r],
         r.pc # "issue",
         r.pc \in Spending /\ r.origin \in Code
           => request[q].pc \in Spending /\ request[q].origin = r.origin
  PROVE  Codes' /\ Refines
  <1>1. \A c \in Code : CodeState(c)' = CodeState(c) /\ issued'[c] = issued[c] BY DEF CodeState
  <1>2. request'[q] = r /\ \A p \in Request : p # q => request'[p] = request[p]
    BY DEF Types, TypeOK
  <1>3. \A c \in Code, p \in Request : Spender(p, c)' => Spender(p, c) BY <1>2 DEF Spender
  <1>4. \A c \in Challenge, p \in Request : Issuer(p, c)' => Issuer(p, c) BY <1>2 DEF Issuer
  <1> QED BY <1>1, <1>3, <1>4, QuietStep

\* Opening, approving, cancelling and expiring an enrollment moves one code as OneTimeCode does.
LEMMA CodesEnrollment ==
  ASSUME Types, Codes, NEW e \in Enrollment,
         \/ \E u \in User, r \in Device \cup {None} : CreateEnrollment(e, u, r)
         \/ Approve(e) \/ Cancel(e) \/ Lapse(e) \/ Expire(e)
  PROVE  Codes' /\ Refines
  <1>0. e \in Code /\ Enrollment \subseteq Code /\ Challenge \subseteq Code /\ Code \subseteq Origin
    BY DEF Code, Origin
  <1>1. UNCHANGED <<challenge, request, issued>>
    BY DEF CreateEnrollment, Approve, Cancel, Lapse, Expire, history
  <1>2. \A x \in Enrollment \ {e} : enrollment'[x] = enrollment[x]
    BY DEF CreateEnrollment, Approve, Cancel, Lapse, Expire, Types, TypeOK
  <1>3. \/ CodeState(e)' = CodeState(e)
        \/ CodeState(e) = "unissued" /\ CodeState(e)' = "open"
        \/ CodeState(e) = "open" /\ CodeState(e)' = "void"
    <2>1. \/ enrollment[e].status = "none" /\ enrollment'[e].status = "pending"
          \/ enrollment[e].status = "pending" /\ enrollment'[e].status = "approved"
          \/ enrollment[e].status \in {"pending", "approved", "expired"}
             /\ enrollment'[e].status = "cancelled"
          \/ enrollment'[e].status = enrollment[e].status
          \/ enrollment[e].status \in {"pending", "approved"} /\ enrollment'[e].status = "expired"
      BY DEF CreateEnrollment, Approve, Cancel, Lapse, Expire, Types, TypeOK, EnrollmentRecord
    <2> QED BY <2>1 DEF CodeState
  <1>4. \A x \in Code \ {e} : CodeState(x)' = CodeState(x) BY <1>1, <1>2 DEF CodeState
  <1>5. Refines
    BY <1>0, <1>1, <1>3, <1>4, AbstractStep DEF Refines, Types, TypeOK
  <1>6. \A x \in Code : CodeState(x)' = "spent" <=> CodeState(x) = "spent" BY <1>3, <1>4
  <1>7. Codes' BY <1>1, <1>6 DEF Codes, Spender, Issuer
  <1> QED BY <1>5, <1>7

\* A completion spends its enrollment in Consume, and nowhere else.
LEMMA CodesComplete ==
  ASSUME Types, Codes, NEW q \in Request,
         \/ \E e \in Enrollment, d \in Device : Complete(q, e, d)
         \/ Consume(q) \/ Refuse(q) \/ ReadOwner(q) \/ RetireReplaced(q)
  PROVE  Codes' /\ Refines
  <1>0. request[q] \in RequestRecord /\ Well(request[q]) BY DEF Types, Requests, Well
  <1>1. ASSUME NEW e \in Enrollment, NEW d \in Device, Complete(q, e, d) PROVE Codes' /\ Refines
    <2> DEFINE r == [Idle EXCEPT !.pc = "consume", !.origin = e, !.device = d]
    <2>1. request' = [request EXCEPT ![q] = r] BY <1>1, Updates DEF Complete
    <2>2. r.pc = "consume" BY DEF Idle
    <2> HIDE DEF r
    <2> QED BY <1>1, <2>1, <2>2, QuietMove DEF Complete, Spending, history
  <1>2. CASE Consume(q)
    <2> DEFINE r == [request[q] EXCEPT !.pc = "owner"]
    <2>e. PICK e \in Enrollment : e = request[q].origin BY <1>0, <1>2 DEF Consume, Well
    <2>0. e \in Enrollment /\ e \in Code /\ Code \subseteq Origin BY DEF Code, Origin
    <2>1. request' = [request EXCEPT ![q] = r] BY <1>2, Updates DEF Consume
    <2>2. r.pc = "owner" /\ r.origin = e BY <1>0, <2>e DEF RequestRecord
    <2> HIDE DEF r
    <2>3. request'[q] = r /\ \A p \in Request : p # q => request'[p] = request[p]
      BY <2>1 DEF Types, TypeOK
    <2>4. enrollment[e].status = "approved" /\ enrollment' = [enrollment EXCEPT ![e].status = "consumed"]
          /\ UNCHANGED <<challenge, issued>>
      BY <1>2, <2>e DEF Consume, Consumable
    <2>5. CodeState(e) = "open" /\ CodeState(e)' = "spent"
      BY <2>0, <2>4 DEF CodeState, Types, TypeOK, EnrollmentRecord
    <2>6. \A x \in Code \ {e} : CodeState(x)' = CodeState(x) BY <2>4 DEF CodeState, Types, TypeOK
    <2>7. Refines BY <2>0, <2>4, <2>5, <2>6, AbstractStep DEF Refines, Types, TypeOK
    <2>8. \A c \in Code, p \in Request : Spender(p, c)' => (p = q /\ c = e) \/ (c # e /\ Spender(p, c))
      BY <2>2, <2>3, <2>5, <2>0 DEF Spender, Codes
    <2>9. \A c \in Challenge, p \in Request : Issuer(p, c)' => Issuer(p, c)
      BY <2>2, <2>3 DEF Issuer
    <2>10. issued[e] = 0 BY <2>0, <2>5 DEF Codes
    <2>11. Codes' BY <2>0, <2>4, <2>5, <2>6, <2>8, <2>9, <2>10 DEF Codes
    <2> QED BY <2>7, <2>11
  <1>3. CASE Refuse(q)
    <2>1. request' = [request EXCEPT ![q] = Idle] BY <1>3, Updates DEF Refuse
    <2> QED BY <1>3, <2>1, IdleWell, QuietMove DEF Refuse, Spending, history
  <1>4. CASE ReadOwner(q)
    <2> DEFINE e == request[q].origin
               r == [request[q] EXCEPT !.user = enrollment[e].user,
                       !.pc = IF enrollment[e].replace = None THEN "session" ELSE "retire"]
    <2>1. request' = [request EXCEPT ![q] = Idle] \/ request' = [request EXCEPT ![q] = r]
      BY <1>4, Updates DEF ReadOwner, Types, TypeOK
    <2>2. r.pc \in {"session", "retire"} /\ r.origin = request[q].origin BY <1>0 DEF RequestRecord
    <2>3. request[q].pc = "owner" /\ UNCHANGED <<enrollment, challenge, issued>>
      BY <1>4 DEF ReadOwner, history
    <2> HIDE DEF r
    <2> QED BY <2>1, <2>2, <2>3, IdleWell, QuietMove DEF Spending
  <1>5. CASE RetireReplaced(q)
    <2> DEFINE r == [request[q] EXCEPT !.pc = "session"]
    <2>1. request' = [request EXCEPT ![q] = r] BY <1>5, Updates DEF RetireReplaced
    <2>2. r.pc = "session" /\ r.origin = request[q].origin BY <1>0 DEF RequestRecord
    <2>3. request[q].pc = "retire" /\ UNCHANGED <<enrollment, challenge, issued>>
      BY <1>5 DEF RetireReplaced, history
    <2> HIDE DEF r
    <2> QED BY <2>1, <2>2, <2>3, QuietMove DEF Spending
  <1> QED BY <1>1, <1>2, <1>3, <1>4, <1>5

\* Opening the session is the grant.
LEMMA CodesSession ==
  ASSUME Types, Codes, NEW q \in Request, OpenSession(q)
  PROVE  Codes' /\ Refines
  <1>o. PICK o \in Origin : o = request[q].origin BY DEF Types, Requests, Well, OpenSession
  <1>0. o \in Origin /\ request[q].pc = "session" /\ UNCHANGED <<enrollment, challenge>>
    BY DEF OpenSession
  <1>1. request' = [request EXCEPT ![q] = Idle] BY Updates DEF OpenSession
  <1>2. request'[q] = Idle /\ \A p \in Request : p # q => request'[p] = request[p]
    BY <1>1 DEF Types, TypeOK
  <1>3. CASE o \notin Code \/ issued' = issued
    <2>1. \A c \in Code : CodeState(c)' = CodeState(c) /\ issued'[c] = issued[c]
      <3>1. issued' = issued \/ issued' = [issued EXCEPT ![o] = @ + 1] BY <1>o DEF OpenSession
      <3>2. \A c \in Code : issued'[c] = issued[c]
        BY <1>3, <3>1 DEF Types, TypeOK, Code, Origin
      <3> QED BY <1>0, <3>2 DEF CodeState
    <2>2. \A c \in Code, p \in Request : Spender(p, c)' => Spender(p, c)
      BY <1>2, IdleWell DEF Spender, Spending
    <2>3. \A c \in Challenge, p \in Request : Issuer(p, c)' => Issuer(p, c)
      BY <1>2, IdleWell DEF Issuer
    <2> QED BY <2>1, <2>2, <2>3, QuietStep
  <1>4. CASE o \in Code /\ issued' # issued
    <2>1. issued' = [issued EXCEPT ![o] = issued[o] + 1]
      BY <1>o, <1>4 DEF OpenSession, Types, TypeOK
    <2>2. Spender(q, o) BY <1>o, <1>0 DEF Spender, Spending
    <2>3. CodeState(o) = "spent" /\ issued[o] = 0 /\ \A p \in Request : Spender(p, o) => p = q
      BY <1>4, <2>2 DEF Codes
    <2>4. \A x \in Code : CodeState(x)' = CodeState(x) BY <1>0 DEF CodeState
    <2>5. issued'[o] = 1 /\ \A x \in Code \ {o} : issued'[x] = issued[x]
      BY <1>0, <1>4, <2>1, <2>3 DEF Types, TypeOK, Code, Origin
    <2>6. issued' \in [Origin -> Nat] BY <1>0, <2>1 DEF Types, TypeOK
    <2>7. Refines BY <1>4, <2>3, <2>4, <2>5, <2>6, AbstractStep DEF Refines, Types, TypeOK
    <2>8. \A c \in Code, p \in Request : Spender(p, c)' => c # o /\ Spender(p, c)
      BY <1>2, <2>2, <2>3, IdleWell DEF Spender, Spending
    <2>9. \A c \in Challenge, p \in Request : Issuer(p, c)' => Issuer(p, c)
      BY <1>2, IdleWell DEF Issuer
    <2>10. Codes' BY <1>0, <2>3, <2>4, <2>5, <2>8, <2>9 DEF Codes
    <2> QED BY <2>7, <2>10
  <1> QED BY <1>3, <1>4

\* A login issues a challenge once, and spends it when the answer is read.
LEMMA CodesLogin ==
  ASSUME Types, Codes, NEW q \in Request,
         \/ \E c \in Challenge, d \in Device : AskChallenge(q, c, d)
         \/ IssueChallenge(q)
         \/ \E c \in Challenge : AnswerChallenge(q, c)
         \/ ReadDevice(q) \/ ReadPasskey(q) \/ ReadUser(q) \/ StorePasskey(q)
         \/ \E l \in Login, u \in User, d \in Device : PasswordLogin(q, l, u, d)
  PROVE  Codes' /\ Refines
  <1>0. /\ request[q] \in RequestRecord /\ Well(request[q])
        /\ Challenge \subseteq Code /\ Code \subseteq Origin
        /\ \A c \in Challenge : c \notin Enrollment
    BY DeviceAssumption DEF Types, Requests, Well, Code, Origin
  <1>1. ASSUME NEW c \in Challenge, NEW d \in Device, AskChallenge(q, c, d) PROVE Codes' /\ Refines
    <2> DEFINE r == [Idle EXCEPT !.pc = "issue", !.origin = c, !.device = d, !.user = device[d].user]
    <2>1. request' = [request EXCEPT ![q] = r] BY <1>1, Updates DEF AskChallenge
    <2>2. r.pc = "issue" /\ r.origin = c BY DEF Idle
    <2> HIDE DEF r
    <2>3. request'[q] = r /\ \A p \in Request : p # q => request'[p] = request[p]
      BY <2>1 DEF Types, TypeOK
    <2>4. challenge[c].status = "none" /\ UNCHANGED <<enrollment, challenge, issued>>
          /\ \A p \in Request : ~Issuer(p, c)
      BY <1>1 DEF AskChallenge, Issuer, history
    <2>5. \A x \in Code : CodeState(x)' = CodeState(x) BY <2>4 DEF CodeState
    <2>6. [x \in Code |-> CodeState(x)]' = [x \in Code |-> CodeState(x)] BY <2>5
    <2>7. Refines BY <2>4, <2>6 DEF Refines, OneTime!vars
    <2>8. \A x \in Code, p \in Request : Spender(p, x)' => Spender(p, x)
      BY <2>2, <2>3 DEF Spender, Spending
    <2>9. \A x \in Challenge, p \in Request : Issuer(p, x)' => (p = q /\ x = c) \/ (x # c /\ Issuer(p, x))
      BY <2>2, <2>3, <2>4 DEF Issuer
    <2>10. Codes' BY <2>4, <2>5, <2>8, <2>9 DEF Codes
    <2> QED BY <2>7, <2>10
  <1>2. CASE IssueChallenge(q)
    <2>c. PICK c \in Challenge : c = request[q].origin BY <1>0, <1>2 DEF IssueChallenge, Well
    <2>0. c \in Challenge /\ c \in Code /\ c \notin Enrollment /\ Issuer(q, c)
          /\ UNCHANGED <<enrollment, issued>>
      BY <1>0, <1>2, <2>c DEF IssueChallenge, Issuer, history
    <2>1. request' = [request EXCEPT ![q] = Idle] BY <1>2, Updates DEF IssueChallenge
    <2>2. request'[q] = Idle /\ \A p \in Request : p # q => request'[p] = request[p]
      BY <2>1 DEF Types, TypeOK
    <2>3. challenge[c].status = "none" /\ \A p \in Request : Issuer(p, c) => p = q
      BY <2>0 DEF Codes
    <2>4. challenge'[c].status = "open" /\ \A x \in Challenge \ {c} : challenge'[x] = challenge[x]
      BY <1>2, <2>c DEF IssueChallenge, Types, TypeOK
    <2>5. CodeState(c) = "unissued" /\ CodeState(c)' = "open"
      BY <2>0, <2>3, <2>4 DEF CodeState
    <2>6. \A x \in Code \ {c} : CodeState(x)' = CodeState(x) BY <2>0, <2>4 DEF CodeState, Code
    <2>7. Refines BY <2>0, <2>5, <2>6, AbstractStep DEF Refines, Types, TypeOK
    <2>8. \A x \in Code, p \in Request : Spender(p, x)' => Spender(p, x)
      BY <2>2, IdleWell DEF Spender, Spending
    <2>9. \A x \in Challenge, p \in Request : Issuer(p, x)' => x # c /\ Issuer(p, x)
      BY <2>2, <2>3, IdleWell DEF Issuer
    <2>10. Codes' BY <2>0, <2>4, <2>5, <2>6, <2>8, <2>9 DEF Codes
    <2> QED BY <2>7, <2>10
  <1>3. ASSUME NEW c \in Challenge, AnswerChallenge(q, c) PROVE Codes' /\ Refines
    <2> DEFINE r == [Idle EXCEPT !.pc = "device", !.origin = c, !.device = challenge[c].device,
                                 !.user = challenge[c].user]
    <2>1. request' = [request EXCEPT ![q] = r] BY <1>3, Updates DEF AnswerChallenge
    <2>2. r.pc = "device" /\ r.origin = c BY DEF Idle
    <2> HIDE DEF r
    <2>3. request'[q] = r /\ \A p \in Request : p # q => request'[p] = request[p]
      BY <2>1 DEF Types, TypeOK
    <2>4. challenge[c].status = "open" /\ challenge' = [challenge EXCEPT ![c].status = "used"]
          /\ UNCHANGED <<enrollment, issued>>
      BY <1>3 DEF AnswerChallenge, history
    <2>5. challenge'[c].status = "used" /\ \A x \in Challenge \ {c} : challenge'[x] = challenge[x]
      BY <2>4 DEF Types, TypeOK, ChallengeRecord
    <2>6. CodeState(c) = "open" /\ CodeState(c)' = "spent"
      BY <1>0, <2>4, <2>5 DEF CodeState
    <2>7. \A x \in Code \ {c} : CodeState(x)' = CodeState(x) BY <2>4, <2>5 DEF CodeState, Code
    <2>8. Refines BY <1>0, <2>4, <2>6, <2>7, AbstractStep DEF Refines, Types, TypeOK
    <2>9. \A x \in Code, p \in Request : Spender(p, x)' => (p = q /\ x = c) \/ (x # c /\ Spender(p, x))
      BY <1>0, <2>2, <2>3, <2>6 DEF Spender, Codes
    <2>10. \A x \in Challenge, p \in Request : Issuer(p, x)' => x # c /\ Issuer(p, x)
      BY <2>2, <2>3, <2>4 DEF Issuer, Codes
    <2>11. issued[c] = 0 BY <1>0, <2>6 DEF Codes
    <2>12. Codes' BY <1>0, <2>4, <2>5, <2>6, <2>7, <2>9, <2>10, <2>11 DEF Codes
    <2> QED BY <2>8, <2>12
  <1>4. CASE ReadDevice(q) \/ ReadUser(q)
    <2> DEFINE r == [request[q] EXCEPT !.pc = IF request[q].pc = "device" THEN "passkey" ELSE "store_passkey"]
    <2>1. request' = [request EXCEPT ![q] = Idle] \/ request' = [request EXCEPT ![q] = r]
      BY <1>4, Updates DEF ReadDevice, ReadUser
    <2>2. r.pc # "issue" /\ r.origin = request[q].origin BY <1>0 DEF RequestRecord
    <2>3. request[q].pc \in Spending /\ UNCHANGED <<enrollment, challenge, issued>>
      BY <1>4 DEF ReadDevice, ReadUser, Spending, history
    <2> HIDE DEF r
    <2> QED BY <2>1, <2>2, <2>3, IdleWell, QuietMove DEF Spending
  <1>5. CASE ReadPasskey(q)
    <2> DEFINE r == [request[q] EXCEPT !.pc = "login_user", !.seen = request[q].device \in passkey]
    <2>1. request' = [request EXCEPT ![q] = r] BY <1>5 DEF ReadPasskey, Types, TypeOK
    <2>2. r.pc # "issue" /\ r.origin = request[q].origin BY <1>0 DEF RequestRecord
    <2>3. request[q].pc \in Spending /\ UNCHANGED <<enrollment, challenge, issued>>
      BY <1>5 DEF ReadPasskey, Spending, history
    <2> HIDE DEF r
    <2> QED BY <2>1, <2>2, <2>3, QuietMove
  <1>6. CASE StorePasskey(q)
    <2> DEFINE r == [request[q] EXCEPT !.pc = "session"]
    <2>1. request' = [request EXCEPT ![q] = Idle] \/ request' = [request EXCEPT ![q] = r]
      BY <1>6, Updates DEF StorePasskey
    <2>2. r.pc # "issue" /\ r.origin = request[q].origin BY <1>0 DEF RequestRecord
    <2>3. request[q].pc \in Spending /\ UNCHANGED <<enrollment, challenge, issued>>
      BY <1>6 DEF StorePasskey, Spending, history
    <2> HIDE DEF r
    <2> QED BY <2>1, <2>2, <2>3, IdleWell, QuietMove DEF Spending
  <1>7. ASSUME NEW l \in Login, NEW u \in User, NEW d \in Device, PasswordLogin(q, l, u, d)
        PROVE  Codes' /\ Refines
    <2> DEFINE r == [Idle EXCEPT !.pc = "session", !.origin = l, !.device = d, !.user = u]
    <2>1. request' = [request EXCEPT ![q] = r] BY <1>7, Updates DEF PasswordLogin
    <2>2. r.pc = "session" /\ r.origin \notin Code BY DeviceAssumption DEF Idle, Code
    <2>3. UNCHANGED <<enrollment, challenge, issued>> BY <1>7 DEF PasswordLogin, history
    <2> HIDE DEF r
    <2> QED BY <2>1, <2>2, <2>3, QuietMove
  <1> QED BY <1>1, <1>2, <1>3, <1>4, <1>5, <1>6, <1>7

\* The administrative endpoints move no code.
LEMMA CodesAdmin ==
  ASSUME Types, Codes, NEW q \in Request,
         \/ \E d \in Device : RevokeDevice(q, d) \/ DisableDevice(q, d)
         \/ CloseSessions(q)
         \/ \E u \in User, l \in {"disable", "delete"} : ReadExisting(q, u, l)
         \/ SuspendUser(q) \/ DisableAgain(q) \/ SuspendNobody(q)
         \/ CloseUserSessions(q) \/ DisableUserDevices(q)
         \/ \E O \in SUBSET Origin : PruneSessions(q, O)
  PROVE  Codes' /\ Refines
  <1>0. request[q] \in RequestRecord BY DEF Types, TypeOK
  <1>1. UNCHANGED <<enrollment, challenge, issued>>
    BY DEF RevokeDevice, DisableDevice, CloseSessions, ReadExisting, SuspendUser, DisableAgain,
           SuspendNobody, CloseUserSessions, DisableUserDevices, PruneSessions, history
  <1>2. \E r : request' = [request EXCEPT ![q] = r]
               /\ r.pc \in {"idle", "close", "disable", "delete", "user_sessions", "user_devices"}
    <2>1. ASSUME NEW d \in Device, RevokeDevice(q, d) \/ DisableDevice(q, d)
          PROVE  \E r : request' = [request EXCEPT ![q] = r] /\ r.pc = "close"
      <3>1. request' = [request EXCEPT ![q] = [Idle EXCEPT !.pc = "close", !.device = d]]
        BY <2>1, Updates DEF RevokeDevice, DisableDevice
      <3>2. [Idle EXCEPT !.pc = "close", !.device = d].pc = "close" BY DEF Idle
      <3> QED BY <3>1, <3>2
    <2>2. ASSUME NEW u \in User, NEW l \in {"disable", "delete"}, ReadExisting(q, u, l)
          PROVE  \E r : request' = [request EXCEPT ![q] = r] /\ r.pc = l
      <3> DEFINE r == [Idle EXCEPT !.pc = l, !.user = u, !.seen = user[u] = "enabled"]
      <3>1. request' = [request EXCEPT ![q] = r] BY <2>2 DEF ReadExisting, Start
      <3>2. r.pc = l BY DEF Idle
      <3> QED BY <3>1, <3>2
    <2>5. CASE SuspendUser(q)
      <3>1. request' = [request EXCEPT ![q] = [request[q] EXCEPT !.pc = "user_sessions"]]
        BY <2>5, Updates DEF SuspendUser
      <3>2. [request[q] EXCEPT !.pc = "user_sessions"].pc = "user_sessions"
        BY <1>0 DEF RequestRecord
      <3> QED BY <3>1, <3>2
    <2>3. CASE CloseUserSessions(q)
      <3>1. request' = [request EXCEPT ![q] = [request[q] EXCEPT !.pc = "user_devices"]]
        BY <2>3, Updates DEF CloseUserSessions
      <3>2. [request[q] EXCEPT !.pc = "user_devices"].pc = "user_devices"
        BY <1>0 DEF RequestRecord
      <3> QED BY <3>1, <3>2
    <2>4. CASE \/ DisableAgain(q) \/ SuspendNobody(q) \/ CloseSessions(q) \/ DisableUserDevices(q)
               \/ \E O \in SUBSET Origin : PruneSessions(q, O)
      <3>1. request' = [request EXCEPT ![q] = Idle]
        BY <2>4, Updates DEF DisableAgain, SuspendNobody, CloseSessions, DisableUserDevices, PruneSessions
      <3> QED BY <3>1, IdleWell
    <2> QED BY <2>1, <2>2, <2>3, <2>4, <2>5
  <1> QED BY <1>1, <1>2, QuietMove DEF Spending

\* Every step keeps the owners of the codes, and is one of OneTimeCode or a stutter.
LEMMA CodesNext == Types /\ Codes /\ [Next]_vars => Codes' /\ Refines
  <1> SUFFICES ASSUME Types, Codes, [Next]_vars PROVE Codes' /\ Refines OBVIOUS
  <1>1. ASSUME NEW c \in Challenge, LapseChallenge(c) PROVE Codes' /\ Refines
    <2>1. UNCHANGED <<enrollment, request, issued>> BY <1>1 DEF LapseChallenge, history
    <2>2. \A x \in Challenge : challenge'[x].status = challenge[x].status
      BY <1>1 DEF LapseChallenge, Types, TypeOK, ChallengeRecord
    <2>3. \A x \in Code : CodeState(x)' = CodeState(x) BY <2>1, <2>2 DEF CodeState, Code
    <2> QED BY <2>1, <2>3, QuietStep DEF Spender, Issuer
  <1>2. CASE \/ \E o \in Origin : EndSession(o)
             \/ \E d \in Device : EnableDevice(d)
             \/ \E u \in User : EnableUser(u)
             \/ UNCHANGED vars
    <2>1. UNCHANGED <<enrollment, challenge, request, issued>>
      BY <1>2 DEF EndSession, EnableDevice, EnableUser, vars, history
    <2>2. \A x \in Code : CodeState(x)' = CodeState(x) BY <2>1 DEF CodeState
    <2> QED BY <2>1, <2>2, QuietStep DEF Spender, Issuer
  <1>3. ASSUME NEW q \in Request, NEW D \in SUBSET Device, NEW E \in SUBSET Enrollment, Prune(q, D, E)
        PROVE  Codes' /\ Refines
    <2> DEFINE r == [Idle EXCEPT !.pc = "prune_sessions"]
    <2>1. request' = [request EXCEPT ![q] = r] BY <1>3, Updates DEF Prune
    <2>2. r.pc = "prune_sessions" BY DEF Idle
    <2> HIDE DEF r
    <2>3. request'[q] = r /\ \A p \in Request : p # q => request'[p] = request[p]
      BY <2>1 DEF Types, TypeOK
    <2>4. UNCHANGED <<challenge, issued>> BY <1>3 DEF Prune, history
    <2>5. \A e \in Enrollment : enrollment'[e].status = enrollment[e].status
      BY <1>3 DEF Prune, Types, TypeOK, EnrollmentRecord
    <2>6. \A x \in Code : CodeState(x)' = CodeState(x) BY <2>4, <2>5 DEF CodeState
    <2> QED BY <2>2, <2>3, <2>4, <2>6, QuietStep DEF Spender, Issuer, Spending
  <1>4. CASE Crash
    <2>1. UNCHANGED <<enrollment, challenge, issued>> BY <1>4 DEF Crash
    <2>2. \A p \in Request : request'[p] = Idle BY <1>4 DEF Crash
    <2>3. \A x \in Code : CodeState(x)' = CodeState(x) BY <2>1 DEF CodeState
    <2> QED BY <2>1, <2>2, <2>3, IdleWell, QuietStep DEF Spender, Issuer, Spending
  <1> QED BY <1>1, <1>2, <1>3, <1>4, CodesEnrollment, CodesComplete, CodesSession, CodesLogin,
             CodesAdmin DEF Next

\* The initial states map to initial states of OneTimeCode.
LEMMA CodesInit == Init => Codes /\ OneTime!Init
  <1> SUFFICES ASSUME Init PROVE Codes /\ OneTime!Init OBVIOUS
  <1>1. \A c \in Code : CodeState(c) = "unissued" /\ issued[c] = 0
    BY DEF Init, CodeState, Code, Origin
  <1>2. OneTime!Init BY <1>1 DEF OneTime!Init
  <1>3. \A q \in Request, c \in Code : ~Spender(q, c) /\ ~Issuer(q, c)
    BY IdleWell DEF Init, Spender, Issuer, Spending
  <1> QED BY <1>1, <1>2, <1>3 DEF Codes, Code

-----------------------------------------------------------------------------
(* Devices *)

\* The steps that write the device table.
LEMMA DeviceSteps ==
  ASSUME [Next]_vars
  PROVE  \/ \E q \in Request : Consume(q)
         \/ \E q \in Request, x \in Device : RevokeDevice(q, x) \/ DisableDevice(q, x)
         \/ \E x \in Device : EnableDevice(x)
         \/ \E q \in Request : DisableUserDevices(q)
         \/ \E q \in Request, D \in SUBSET Device, E \in SUBSET Enrollment : Prune(q, D, E)
         \/ UNCHANGED <<device, reenabled>>
  <1> DEFINE Still == UNCHANGED <<device, reenabled>>
  <1>1. ASSUME NEW e \in Enrollment,
               \/ \E u \in User, r \in Device \cup {None} : CreateEnrollment(e, u, r)
               \/ Approve(e) \/ Cancel(e) \/ Lapse(e) \/ Expire(e)
        PROVE  Still
    BY <1>1 DEF CreateEnrollment, Approve, Cancel, Lapse, Expire, history
  <1>2. ASSUME NEW q \in Request,
               \/ \E e \in Enrollment, d \in Device : Complete(q, e, d)
               \/ Refuse(q) \/ ReadOwner(q) \/ RetireReplaced(q) \/ OpenSession(q)
        PROVE  Still
    BY <1>2 DEF Complete, Refuse, ReadOwner, RetireReplaced, OpenSession, history
  <1>3. ASSUME NEW q \in Request,
               \/ \E c \in Challenge, d \in Device : AskChallenge(q, c, d)
               \/ IssueChallenge(q)
               \/ \E c \in Challenge : AnswerChallenge(q, c)
               \/ ReadDevice(q) \/ ReadPasskey(q) \/ ReadUser(q) \/ StorePasskey(q)
               \/ \E l \in Login, u \in User, d \in Device : PasswordLogin(q, l, u, d)
        PROVE  Still
    BY <1>3 DEF AskChallenge, IssueChallenge, AnswerChallenge, ReadDevice, ReadPasskey, ReadUser,
                StorePasskey, PasswordLogin, history
  <1>4. ASSUME NEW q \in Request,
               \/ CloseSessions(q) \/ CloseUserSessions(q)
               \/ \E u \in User, l \in {"disable", "delete"} : ReadExisting(q, u, l)
               \/ SuspendUser(q) \/ DisableAgain(q) \/ SuspendNobody(q)
               \/ \E O \in SUBSET Origin : PruneSessions(q, O)
        PROVE  Still
    BY <1>4 DEF CloseSessions, CloseUserSessions, ReadExisting, SuspendUser, DisableAgain,
                SuspendNobody, PruneSessions, history
  <1>5. CASE \/ \E c \in Challenge : LapseChallenge(c)
             \/ \E o \in Origin : EndSession(o)
             \/ \E u \in User : EnableUser(u)
             \/ Crash
             \/ UNCHANGED vars
    BY <1>5 DEF LapseChallenge, EndSession, EnableUser, Crash, vars, history
  <1> HIDE DEF Still
  <1>6. Still => UNCHANGED <<device, reenabled>> BY DEF Still
  <1> QED BY <1>1, <1>2, <1>3, <1>4, <1>5, <1>6 DEF Next

\* A revoked device stays revoked until it is pruned.
LEMMA RevokedStays ==
  ASSUME Types, [Next]_vars, NEW d \in Device, device[d].state = "revoked"
  PROVE  device'[d].state \in {"revoked", "none"}
  <1>1. ASSUME NEW q \in Request, Consume(q) PROVE device'[d].state = "revoked"
    <2> DEFINE e == request[q].origin
               x == enrollment[e].replace
    <2>0. x # None => device[x].state \in {"active", "disabled"} BY <1>1 DEF Consume, Consumable
    <2>1. device[request[q].device].state = "none" \/ request[q].device = x
      BY <1>1 DEF Consume, Consumable
    <2>2. d # request[q].device BY <2>0, <2>1, Constants
    <2>3. d # x BY <2>0, Constants
    <2> QED BY <1>1, <2>2, <2>3 DEF Consume
  <1>2. ASSUME NEW q \in Request, NEW x \in Device, RevokeDevice(q, x) \/ DisableDevice(q, x)
        PROVE  device'[d].state = "revoked"
    BY <1>2 DEF RevokeDevice, DisableDevice, Types, TypeOK, DeviceRecord
  <1>3. ASSUME NEW x \in Device, EnableDevice(x) PROVE device'[d].state = "revoked"
    BY <1>3 DEF EnableDevice, Types, TypeOK, DeviceRecord
  <1>4. ASSUME NEW q \in Request, DisableUserDevices(q) PROVE device'[d].state = "revoked"
    BY <1>4 DEF DisableUserDevices
  <1>5. ASSUME NEW q \in Request, NEW D \in SUBSET Device, NEW E \in SUBSET Enrollment, Prune(q, D, E)
        PROVE  device'[d].state \in {"revoked", "none"}
    BY <1>5 DEF Prune
  <1>6. CASE UNCHANGED <<device, reenabled>> BY <1>6
  <1> QED BY <1>1, <1>2, <1>3, <1>4, <1>5, <1>6, DeviceSteps

\* The devices that count against the limits: of a user, and of the Core.
Counted == Active(Device) \ reenabled

\* There are finitely many devices.
LEMMA FiniteDevices == \A S \in SUBSET Device : IsFiniteSet(S) /\ Cardinality(S) \in Nat
  BY Constants, FS_Subset, FS_CardinalityType

\* A set of devices has no more members than one that contains it.
LEMMA SmallerSet ==
  ASSUME NEW T \in SUBSET Device, NEW S \in SUBSET T
  PROVE  Cardinality(S) <= Cardinality(T)
  BY FiniteDevices, FS_Subset

\* One device more than fewer than n is no more than n.
LEMMA OneMore ==
  ASSUME NEW T \in SUBSET Device, NEW d \in Device, NEW S \in SUBSET (T \cup {d}),
         NEW n \in Nat, Cardinality(T) < n
  PROVE  Cardinality(S) <= n
  <1> DEFINE U == T \cup {d}
  <1>1. IsFiniteSet(T) /\ Cardinality(T) \in Nat BY FiniteDevices
  <1>0. Cardinality(U) = IF d \in T THEN Cardinality(T) ELSE Cardinality(T) + 1
    BY <1>1, FS_AddElement
  <1>2. Cardinality(U) <= Cardinality(T) + 1 BY <1>0, <1>1
  <1>3. U \in SUBSET Device /\ S \in SUBSET U OBVIOUS
  <1> HIDE DEF U
  <1>4. Cardinality(S) \in Nat /\ Cardinality(U) \in Nat BY <1>3, FiniteDevices
  <1>5. Cardinality(S) <= Cardinality(U) BY <1>3, SmallerSet
  <1> QED BY <1>1, <1>2, <1>4, <1>5

\* A step that makes no further device count.
LEMMA NoFurther ==
  ASSUME WithinLimits, \A d \in Device : d \in Counted' => d \in Counted /\ device'[d].user = device[d].user
  PROVE  WithinLimits'
  <1> USE Constants, FiniteDevices
  <1>1. Counted' \subseteq Counted /\ Counted \subseteq Device BY DEF Counted, Active
  <1>2. Cardinality(Counted') <= Cardinality(Counted) BY <1>1, SmallerSet
  <1>3. Cardinality(Counted') \in Nat /\ Cardinality(Counted) \in Nat BY <1>1
  <1>4. Cardinality(Counted) <= MaxPerCore BY DEF WithinLimits, Counted
  <1>5. ASSUME NEW u \in User PROVE Cardinality(Counted' \cap OfUser(u)') <= MaxPerUser
    <2>1. Counted' \cap OfUser(u)' \subseteq Counted \cap OfUser(u) BY <1>1 DEF OfUser
    <2>2. Cardinality(Counted' \cap OfUser(u)') <= Cardinality(Counted \cap OfUser(u))
      BY <1>1, <2>1, SmallerSet
    <2>3. Cardinality(Counted' \cap OfUser(u)') \in Nat /\ Cardinality(Counted \cap OfUser(u)) \in Nat
      BY <1>1
    <2>4. Cardinality(Counted \cap OfUser(u)) <= MaxPerUser BY DEF WithinLimits, Counted
    <2> QED BY <2>2, <2>3, <2>4
  <1> QED BY <1>2, <1>3, <1>4, <1>5 DEF WithinLimits, Counted

\* Consume counts before it enrolls a device.
LEMMA LimitsConsume ==
  ASSUME Types, WithinLimits, NEW q \in Request, Consume(q)
  PROVE  WithinLimits'
  <1> USE Constants
  <1>0. PICK e \in Enrollment, d \in Device : e = request[q].origin /\ d = request[q].device
    BY DEF Consume, Types, Requests, Well
  <1>1. PICK x : x = IF enrollment[e].replace = None THEN d ELSE enrollment[e].replace OBVIOUS
  <1>2. PICK u \in User : u = enrollment[e].user
    BY <1>0 DEF Consume, Types, Filled
  <1>3. /\ Cardinality(Active(OfUser(u)) \ {x}) < MaxPerUser
        /\ Cardinality(Active(Device) \ {x}) < MaxPerCore
    BY <1>0, <1>1, <1>2 DEF Consume, Consumable, HasRoom
  <1>4. /\ device'[d] = [state |-> "active", user |-> u]
        /\ enrollment[e].replace # None /\ x # d /\ x \in Device => device'[x].state = "revoked"
        /\ \A y \in Device : y # d /\ y # enrollment[e].replace => device'[y] = device[y]
        /\ \A y \in Device : y # d => device'[y].user = device[y].user
    BY <1>0, <1>1, <1>2 DEF Consume, Types, TypeOK, DeviceRecord
  <1>5. reenabled' = reenabled \ {d} BY <1>0 DEF Consume
  <1>6. \A y \in Device : y \in Counted' /\ y # d => y \in Counted /\ y # x
    BY <1>1, <1>4, <1>5 DEF Counted, Active
  <1>7. Counted' \subseteq (Active(Device) \ {x}) \cup {d} /\ Active(Device) \ {x} \subseteq Device
    BY <1>6 DEF Counted, Active
  <1>8. Cardinality(Counted') <= MaxPerCore BY <1>3, <1>7, OneMore
  <1>9. ASSUME NEW w \in User PROVE Cardinality(Counted' \cap OfUser(w)') <= MaxPerUser
    <2>1. CASE w = u
      <3>1. Counted' \cap OfUser(w)' \subseteq (Active(OfUser(u)) \ {x}) \cup {d}
            /\ Active(OfUser(u)) \ {x} \subseteq Device
        BY <1>4, <1>6, <2>1 DEF Counted, Active, OfUser
      <3> QED BY <1>3, <3>1, OneMore
    <2>2. CASE w # u
      <3>1. Counted' \cap OfUser(w)' \subseteq Counted \cap OfUser(w)
            /\ Counted \cap OfUser(w) \subseteq Device
        BY <1>4, <1>6, <2>2 DEF Counted, Active, OfUser
      <3>2. Cardinality(Counted \cap OfUser(w)) <= MaxPerUser BY DEF WithinLimits, Counted
      <3>3. Cardinality(Counted' \cap OfUser(w)') <= Cardinality(Counted \cap OfUser(w))
        BY <3>1, SmallerSet
      <3>4. Cardinality(Counted' \cap OfUser(w)') \in Nat /\ Cardinality(Counted \cap OfUser(w)) \in Nat
        BY <3>1, FiniteDevices
      <3> QED BY <3>2, <3>3, <3>4
    <2> QED BY <2>1, <2>2
  <1> QED BY <1>8, <1>9 DEF WithinLimits, Counted

\* Every step keeps the limits: those that enable a device again are not counted.
LEMMA LimitsNext == Types /\ WithinLimits /\ [Next]_vars => WithinLimits'
  <1> SUFFICES ASSUME Types, WithinLimits, [Next]_vars PROVE WithinLimits' OBVIOUS
  <1>1. ASSUME NEW q \in Request, Consume(q) PROVE WithinLimits' BY <1>1, LimitsConsume
  <1>2. ASSUME NEW q \in Request, NEW x \in Device, RevokeDevice(q, x) \/ DisableDevice(q, x)
        PROVE  WithinLimits'
    <2>1. \A d \in Device : d # x => device'[d] = device[d]
      BY <1>2 DEF RevokeDevice, DisableDevice, Types, TypeOK
    <2>2. device'[x].state # "active"
      BY <1>2 DEF RevokeDevice, DisableDevice, Types, TypeOK, DeviceRecord
    <2>3. \A d \in Device : d # x /\ d \in reenabled => d \in reenabled'
      BY <1>2 DEF RevokeDevice, DisableDevice, history
    <2> QED BY <2>1, <2>2, <2>3, NoFurther DEF Counted, Active
  <1>3. ASSUME NEW x \in Device, EnableDevice(x) PROVE WithinLimits'
    <2>1. \A d \in Device : d # x => device'[d] = device[d] BY <1>3 DEF EnableDevice, Types, TypeOK
    <2>2. reenabled' = reenabled \cup {x} BY <1>3 DEF EnableDevice
    <2> QED BY <2>1, <2>2, NoFurther DEF Counted, Active
  <1>4. ASSUME NEW q \in Request, DisableUserDevices(q) PROVE WithinLimits'
    <2>1. \A d \in Device : device'[d].state = "active" => device'[d] = device[d] /\ (d \in reenabled => d \in reenabled')
      BY <1>4 DEF DisableUserDevices, Types, TypeOK, DeviceRecord
    <2> QED BY <2>1, NoFurther DEF Counted, Active
  <1>5. ASSUME NEW q \in Request, NEW D \in SUBSET Device, NEW E \in SUBSET Enrollment, Prune(q, D, E)
        PROVE  WithinLimits'
    <2>1. \A d \in Device : device'[d].state = "active" => device'[d] = device[d]
      BY <1>5 DEF Prune
    <2>2. reenabled' = reenabled BY <1>5 DEF Prune, history
    <2> QED BY <2>1, <2>2, NoFurther DEF Counted, Active
  <1>6. CASE UNCHANGED <<device, reenabled>> BY <1>6, NoFurther DEF Counted, Active
  <1> QED BY <1>1, <1>2, <1>3, <1>4, <1>5, <1>6, DeviceSteps

\* The devices that are there at the start are within the limits.
LEMMA LimitsInit == Init => WithinLimits
  <1> SUFFICES ASSUME Init PROVE WithinLimits OBVIOUS
  <1>1. Counted \subseteq Legacy /\ Legacy \subseteq Device
    BY DeviceAssumption DEF Init, Counted, Active
  <1>2. \A S \in SUBSET Counted : Cardinality(S) <= Cardinality(Legacy) /\ Cardinality(S) \in Nat
    BY <1>1, SmallerSet, FiniteDevices
  <1>3. Cardinality(Legacy) \in Nat BY <1>1, FiniteDevices
  <1> QED BY <1>2, <1>3, DeviceAssumption DEF WithinLimits, Counted

-----------------------------------------------------------------------------
(* Sessions *)

\* A request that is about to close the sessions of u; of d's user on d.
CloserOf(q, u) == request[q].pc = "user_sessions" /\ request[q].user = u

Closer(q, d) ==
    \/ CloserOf(q, device[d].user)
    \/ request[q].pc = "close" /\ request[q].device = d
    \/ /\ request[q].pc \in {"owner", "retire"}
       /\ enrollment[request[q].origin].replace = d
       /\ enrollment[request[q].origin].user = device[d].user

\* RevocationClosesSessions with fewer requests that count as closing: the completion that
\* replaced a device closes the sessions of its own user only, and the device may have
\* been pruned and enrolled again, for somebody else, while that completion went on.
Closed(d) ==
    device[d].state = "revoked" /\ d \notin late /\ ~OrphanedBy(device[d].user)
        /\ (\A q \in Request : ~Closer(q, d))
    => \A o \in Origin : session[o].device = d /\ session[o].user = device[d].user
                         => session[o].state # "live"

Out(u) ==
    user[u] # "enabled" /\ u \notin late /\ (\A q \in Request : ~CloserOf(q, u))
    => \A o \in Origin : session[o].user = u => session[o].state # "live"

Outs == (\A d \in Device : Closed(d)) /\ (\A u \in User : Out(u))

\* The strengthening implies the two checked invariants.
LEMMA OutsSuffice == Outs => RevocationClosesSessions /\ SuspendedUserIsOut
  <1> SUFFICES ASSUME Outs PROVE RevocationClosesSessions /\ SuspendedUserIsOut OBVIOUS
  <1>1. SuspendedUserIsOut BY DEF Outs, Out, CloserOf, SuspendedUserIsOut, ClosingUser, ByUser
  <1>2. \A d \in Device : ~Closing(d) => \A q \in Request : ~Closer(q, d)
    BY DEF Closing, ClosingUser, Closer, CloserOf
  <1>3. RevocationClosesSessions
    BY <1>2 DEF Outs, Closed, RevocationClosesSessions, OnDevice, ByUser, OrphanedBy
  <1> QED BY <1>1, <1>3

ClosingLabels == {"owner", "retire", "close", "user_sessions"}

\* What closes the sessions of d or u stays what it is, unless it is request q's turn.
LEMMA CloserKept ==
  ASSUME Types, NEW q \in Request, request'[q] = request[q],
         \A e \in Enrollment : enrollment[e].status # "none"
            => enrollment'[e].replace = enrollment[e].replace /\ enrollment'[e].user = enrollment[e].user
  PROVE  /\ \A u \in User : CloserOf(q, u) => CloserOf(q, u)'
         /\ \A d \in Device : device'[d].user = device[d].user /\ Closer(q, d) => Closer(q, d)'
  <1>1. request[q].pc \in {"owner", "retire"}
        => request[q].origin \in Enrollment /\ enrollment[request[q].origin].status # "none"
    BY DEF Types, Requests, Well, Filled
  <1> QED BY <1>1 DEF Closer, CloserOf

\* A step that opens and closes nothing, revokes and suspends nobody.
LEMMA Harmless ==
  ASSUME Types, Outs, late \subseteq late',
         \A q \in Request : request[q].pc \in ClosingLabels => request'[q] = request[q],
         \A e \in Enrollment : enrollment[e].status # "none"
            => enrollment'[e].replace = enrollment[e].replace /\ enrollment'[e].user = enrollment[e].user,
         \A o \in Origin : session'[o].state = "live" => session'[o] = session[o],
         \A d \in Device : device'[d].state = "revoked" => device'[d] = device[d],
         \A u \in User : user'[u] # "enabled" => user[u] # "enabled",
         \A u \in User : user[u] = "deleted" => user'[u] = "deleted"
  PROVE  Outs'
  <1>1. \A u : \A q \in Request : CloserOf(q, u) => request'[q] = request[q]
    BY DEF CloserOf, ClosingLabels
  <1>2. \A d : \A q \in Request : Closer(q, d) => request'[q] = request[q]
    BY DEF Closer, CloserOf, ClosingLabels
  <1>3. \A u \in User : Out(u)' BY <1>1, CloserKept DEF Outs, Out
  <1>4. ASSUME NEW d \in Device PROVE Closed(d)'
    <2>1. device'[d].state = "revoked" => \A q \in Request : Closer(q, d) => Closer(q, d)'
      BY <1>2, CloserKept
    <2>2. device'[d].state = "revoked" /\ OrphanedBy(device[d].user) => OrphanedBy(device[d].user)'
      BY DEF Types, TypeOK, DeviceRecord, OrphanedBy
    <2>3. device'[d].state = "revoked" => device'[d] = device[d] OBVIOUS
    <2> QED BY <2>1, <2>2, <2>3 DEF Outs, Closed
  <1> QED BY <1>3, <1>4 DEF Outs

\* The steps of a request that neither open nor close a session.
LEMMA OutsHarmless ==
  ASSUME Types, Outs, NEW q \in Request,
         \/ \E e \in Enrollment, d \in Device : Complete(q, e, d)
         \/ Refuse(q)
         \/ \E c \in Challenge, d \in Device : AskChallenge(q, c, d)
         \/ IssueChallenge(q)
         \/ \E c \in Challenge : AnswerChallenge(q, c)
         \/ ReadDevice(q) \/ ReadPasskey(q) \/ ReadUser(q) \/ StorePasskey(q)
         \/ \E l \in Login, u \in User, d \in Device : PasswordLogin(q, l, u, d)
  PROVE  Outs'
  <1>1. UNCHANGED <<user, device, enrollment, session, late>>
    BY DEF Complete, Refuse, AskChallenge, IssueChallenge, AnswerChallenge, ReadDevice,
           ReadPasskey, ReadUser, StorePasskey, PasswordLogin, history
  <1>2. request[q].pc \notin ClosingLabels
    BY DEF Complete, Refuse, AskChallenge, IssueChallenge, AnswerChallenge, ReadDevice,
           ReadPasskey, ReadUser, StorePasskey, PasswordLogin, Start, ClosingLabels
  <1>3. \E r : request' = [request EXCEPT ![q] = r]
    BY Updates DEF Complete, Refuse, AskChallenge, IssueChallenge, AnswerChallenge, ReadDevice,
           ReadPasskey, ReadUser, StorePasskey, PasswordLogin
  <1>4. \A p \in Request : p # q => request'[p] = request[p] BY <1>3 DEF Types, TypeOK
  <1> QED BY <1>1, <1>2, <1>4, Harmless

\* A suspension reads the user, and it may find that the user was deleted meanwhile.
LEMMA OutsRead ==
  ASSUME Types, Outs, NEW q \in Request,
         (\E u \in User, l \in {"disable", "delete"} : ReadExisting(q, u, l)) \/ SuspendNobody(q)
  PROVE  Outs'
  <1>1. UNCHANGED <<user, device, enrollment, session, late>>
    BY DEF ReadExisting, SuspendNobody, history
  <1>2. request[q].pc \notin ClosingLabels
    BY DEF ReadExisting, SuspendNobody, Start, ClosingLabels
  <1>3. \E r : request' = [request EXCEPT ![q] = r]
    BY DEF ReadExisting, SuspendNobody, Start, Finish
  <1>4. \A p \in Request : p # q => request'[p] = request[p] BY <1>3 DEF Types, TypeOK
  <1> QED BY <1>1, <1>2, <1>4, Harmless

\* The steps of an enrollment touch no session.
LEMMA OutsEnrollment ==
  ASSUME Types, Outs, NEW e \in Enrollment,
         \/ \E u \in User, r \in Device \cup {None} : CreateEnrollment(e, u, r)
         \/ Approve(e) \/ Cancel(e) \/ Lapse(e) \/ Expire(e)
  PROVE  Outs'
  <1>1. UNCHANGED <<user, device, session, request, late>>
    BY DEF CreateEnrollment, Approve, Cancel, Lapse, Expire, history
  <1>2. \A x \in Enrollment : enrollment[x].status # "none"
            => enrollment'[x].replace = enrollment[x].replace /\ enrollment'[x].user = enrollment[x].user
    BY DEF CreateEnrollment, Approve, Cancel, Lapse, Expire, Types, TypeOK, EnrollmentRecord
  <1> QED BY <1>1, <1>2, Harmless

\* The replaced device is revoked, and this request is to close its sessions.
LEMMA OutsConsume ==
  ASSUME Types, Outs, NEW q \in Request, Consume(q)
  PROVE  Outs'
  <1>0. PICK e \in Enrollment, d \in Device : e = request[q].origin /\ d = request[q].device
    BY DEF Consume, Types, Requests, Well
  <1>1. PICK x : x = enrollment[e].replace OBVIOUS
  <1>2. x # None => device[x].state \in {"active", "disabled"} /\ device[x].user = enrollment[e].user
    BY <1>0, <1>1 DEF Consume, Consumable
  <1>3. /\ request'[q].pc = "owner" /\ request'[q].origin = e
        /\ \A p \in Request : p # q => request'[p] = request[p]
    BY <1>0 DEF Consume, Goto, Types, TypeOK, RequestRecord
  <1>4. \A f \in Enrollment : enrollment'[f].replace = enrollment[f].replace
                              /\ enrollment'[f].user = enrollment[f].user
    BY <1>0 DEF Consume, Types, TypeOK, EnrollmentRecord
  <1>5. UNCHANGED <<user, session, late>> BY DEF Consume
  <1>6. request[q].pc = "consume" BY DEF Consume
  <1>7. device' = [y \in Device |->
                    IF y = d THEN [state |-> "active", user |-> enrollment[e].user]
                    ELSE IF y = x THEN [device[y] EXCEPT !.state = "revoked"]
                    ELSE device[y]]
    BY <1>0, <1>1 DEF Consume
  <1>8. \A u : \A p \in Request : CloserOf(p, u) => p # q BY <1>6 DEF CloserOf
  <1>9. \A y : \A p \in Request : Closer(p, y) => p # q BY <1>6 DEF Closer, CloserOf
  <1>10. \A u \in User : Out(u)' BY <1>3, <1>4, <1>5, <1>8, CloserKept DEF Outs, Out
  <1>11. ASSUME NEW y \in Device, device'[y].state = "revoked" PROVE Closed(y)'
    <2>1. y # d BY <1>7, <1>11
    <2>2. CASE y = x
      <3>1. device'[y].user = enrollment[e].user
        BY <1>2, <1>7, <2>1, <2>2, Constants DEF Types, TypeOK, DeviceRecord
      <3>2. Closer(q, y)' BY <1>1, <1>3, <1>4, <2>2, <3>1 DEF Closer
      <3> QED BY <3>2 DEF Closed
    <2>3. CASE y # x
      <3>1. device'[y] = device[y] BY <1>7, <2>1, <2>3
      <3>2. \A p \in Request : Closer(p, y) => Closer(p, y)'
        BY <1>3, <1>4, <1>9, <3>1, CloserKept
      <3> QED BY <1>5, <3>1, <3>2 DEF Outs, Closed, OrphanedBy
    <2> QED BY <2>2, <2>3
  <1>12. \A y \in Device : Closed(y)' BY <1>11 DEF Closed
  <1> QED BY <1>10, <1>12 DEF Outs

\* A completion whose user was deleted gives up: the deletion has closed the sessions.
LEMMA OutsOwner ==
  ASSUME Types, Outs, NEW q \in Request, ReadOwner(q)
  PROVE  Outs'
  <1>0. PICK e \in Enrollment : e = request[q].origin
    BY DEF ReadOwner, Types, Requests, Well
  <1>1. UNCHANGED <<user, device, enrollment, session, late>> /\ request[q].pc = "owner"
    BY DEF ReadOwner, history
  <1>2. \A p \in Request : p # q => request'[p] = request[p]
    BY DEF ReadOwner, Finish, Types, TypeOK
  <1>3. \A u : \A p \in Request : CloserOf(p, u) => p # q BY <1>1 DEF CloserOf
  <1>4. \A u \in User : Out(u)' BY <1>1, <1>2, <1>3, CloserKept DEF Outs, Out
  <1>5. enrollment[e].user \in User BY <1>0, <1>1 DEF Types, Filled
  <1>6. ASSUME NEW d \in Device PROVE Closed(d)'
    <2>1. CASE ~Closer(q, d)
      <3>1. \A p \in Request : Closer(p, d) => Closer(p, d)' BY <1>1, <1>2, <2>1, CloserKept
      <3> QED BY <1>1, <3>1 DEF Outs, Closed, OrphanedBy
    <2>2. CASE Closer(q, d)
      <3>1. enrollment[e].replace = d /\ enrollment[e].user = device[d].user
        BY <1>0, <1>1, <2>2 DEF Closer, CloserOf
      <3>2. CASE user[enrollment[e].user] = "deleted"
        <4>1. \A p \in Request : CloserOf(p, device[d].user) => Closer(p, d)'
          BY <1>1, <1>2, <1>3 DEF Closer, CloserOf
        <4>2. Out(device[d].user) BY <1>5, <3>1 DEF Outs
        <4> QED BY <1>1, <3>1, <3>2, <4>1, <4>2 DEF Closed, OrphanedBy, Out
      <3>3. CASE user[enrollment[e].user] # "deleted"
        <4>1. enrollment[e].replace # None BY <3>1, Constants
        <4>2. request'[q].pc = "retire" /\ request'[q].origin = e
          BY <1>0, <3>3, <4>1 DEF ReadOwner, Types, TypeOK, RequestRecord
        <4>3. Closer(q, d)' BY <1>1, <3>1, <4>2 DEF Closer
        <4> QED BY <4>3 DEF Closed
      <3> QED BY <3>2, <3>3
    <2> QED BY <2>1, <2>2
  <1> QED BY <1>4, <1>6 DEF Outs

\* The sessions of a device are closed, by a completion or a revocation.
LEMMA OutsClose ==
  ASSUME Types, Outs, NEW q \in Request, RetireReplaced(q) \/ CloseSessions(q)
  PROVE  Outs'
  <1>1. UNCHANGED <<user, device, enrollment, late>>
        /\ request[q].pc \in {"retire", "close"}
    BY DEF RetireReplaced, CloseSessions, history
  <1>2. \A p \in Request : p # q => request'[p] = request[p]
    BY DEF RetireReplaced, CloseSessions, Goto, Finish, Types, TypeOK
  <1>3. \A u : \A p \in Request : CloserOf(p, u) => p # q BY <1>1 DEF CloserOf
  <1>4. \A o \in Origin : session'[o].state = "live" => session'[o] = session[o]
    BY DEF RetireReplaced, CloseSessions, RevokeSessions, Types, TypeOK, SessionRecord
  <1>5. \A u \in User : Out(u)' BY <1>1, <1>2, <1>3, <1>4, CloserKept DEF Outs, Out
  <1>6. ASSUME NEW d \in Device PROVE Closed(d)'
    <2>1. CASE ~Closer(q, d)
      <3>1. \A p \in Request : Closer(p, d) => Closer(p, d)' BY <1>1, <1>2, <2>1, CloserKept
      <3> QED BY <1>1, <1>4, <3>1 DEF Outs, Closed, OrphanedBy
    <2>2. CASE Closer(q, d)
      <3>1. RevokeSessions(OnDevice(d))
        BY <1>1, <2>2 DEF Closer, CloserOf, RetireReplaced, CloseSessions
      <3>2. \A o \in Origin : session'[o].device = d => session'[o].state # "live"
        BY <3>1 DEF RevokeSessions, OnDevice, Types, TypeOK, SessionRecord
      <3> QED BY <3>2 DEF Closed
    <2> QED BY <2>1, <2>2
  <1> QED BY <1>5, <1>6 DEF Outs

\* A session is opened for an enabled user; one on a revoked device is late.
LEMMA OutsSession ==
  ASSUME Types, Outs, NEW q \in Request, OpenSession(q)
  PROVE  Outs'
  <1>0. PICK o \in Origin, d \in Device, u \in User :
          o = request[q].origin /\ d = request[q].device /\ u = request[q].user
    BY DEF OpenSession, Types, Requests, Well
  <1>1. UNCHANGED <<user, device, enrollment>> /\ request[q].pc = "session" /\ late \subseteq late'
    BY DEF OpenSession
  <1>2. \A p \in Request : p # q => request'[p] = request[p]
    BY DEF OpenSession, Finish, Types, TypeOK
  <1>3. CASE user[u] # "enabled"
    <2>1. session' = session BY <1>0, <1>3 DEF OpenSession
    <2> QED BY <1>1, <1>2, <2>1, Harmless DEF ClosingLabels
  <1>4. CASE user[u] = "enabled"
    <2>1. /\ session'[o] = [state |-> "live", device |-> d, user |-> u]
          /\ \A x \in Origin \ {o} : session'[x] = session[x]
          /\ device[d].state = "revoked" => d \in late'
      BY <1>0, <1>4 DEF OpenSession, Types, TypeOK
    <2>2. \A w : \A p \in Request : CloserOf(p, w) => p # q BY <1>1 DEF CloserOf
    <2>3. \A y : \A p \in Request : Closer(p, y) => p # q BY <1>1 DEF Closer, CloserOf
    <2>4. ASSUME NEW w \in User PROVE Out(w)'
      <3>1. CASE w = u BY <1>1, <1>4, <3>1 DEF Out
      <3>2. CASE w # u
        <4>1. \A p \in Request : CloserOf(p, w) => CloserOf(p, w)' BY <1>1, <1>2, <2>2, CloserKept
        <4>2. \A x \in Origin : session'[x].user = w => session'[x] = session[x] BY <2>1, <3>2
        <4> QED BY <1>1, <4>1, <4>2 DEF Outs, Out
      <3> QED BY <3>1, <3>2
    <2>5. ASSUME NEW y \in Device PROVE Closed(y)'
      <3>1. CASE y = d BY <1>1, <2>1, <3>1 DEF Closed
      <3>2. CASE y # d
        <4>1. \A p \in Request : Closer(p, y) => Closer(p, y)' BY <1>1, <1>2, <2>3, CloserKept
        <4>2. \A x \in Origin : session'[x].device = y => session'[x] = session[x] BY <2>1, <3>2
        <4> QED BY <1>1, <4>1, <4>2 DEF Outs, Closed, OrphanedBy
      <3> QED BY <3>1, <3>2
    <2> QED BY <2>4, <2>5 DEF Outs
  <1> QED BY <1>3, <1>4

\* A revocation goes on to close the sessions of the device.
LEMMA OutsRevoke ==
  ASSUME Types, Outs, NEW q \in Request, NEW x \in Device, RevokeDevice(q, x)
  PROVE  Outs'
  <1>1. UNCHANGED <<user, enrollment, session, late>> /\ request[q].pc = "idle"
    BY Updates DEF RevokeDevice, history
  <1>2. /\ request'[q].pc = "close" /\ request'[q].device = x
        /\ \A p \in Request : p # q => request'[p] = request[p]
    BY DEF RevokeDevice, Start, Idle, Types, TypeOK
  <1>3. \A d \in Device : device'[d].user = device[d].user /\ (d # x => device'[d] = device[d])
    BY DEF RevokeDevice, Types, TypeOK, DeviceRecord
  <1>4. \A w : \A p \in Request : CloserOf(p, w) => p # q BY <1>1 DEF CloserOf
  <1>5. \A y : \A p \in Request : Closer(p, y) => p # q BY <1>1 DEF Closer, CloserOf
  <1>6. \A u \in User : Out(u)' BY <1>1, <1>2, <1>4, CloserKept DEF Outs, Out
  <1>7. ASSUME NEW d \in Device PROVE Closed(d)'
    <2>1. CASE d = x BY <1>2, <2>1 DEF Closed, Closer
    <2>2. CASE d # x
      <3>1. \A p \in Request : Closer(p, d) => Closer(p, d)' BY <1>1, <1>2, <1>3, <1>5, CloserKept
      <3> QED BY <1>1, <1>3, <2>2, <3>1 DEF Outs, Closed, OrphanedBy
    <2> QED BY <2>1, <2>2
  <1> QED BY <1>6, <1>7 DEF Outs

\* A suspension goes on to close the sessions of the user.
LEMMA OutsSuspend ==
  ASSUME Types, Outs, NEW q \in Request, SuspendUser(q)
  PROVE  Outs'
  <1>0. PICK u \in User : u = request[q].user BY DEF SuspendUser, Types, Requests, Well
  <1>1. UNCHANGED <<device, enrollment, session, late>> /\ request[q].pc \in {"disable", "delete"}
    BY DEF SuspendUser, history
  <1>2. /\ request'[q].pc = "user_sessions" /\ request'[q].user = u
        /\ \A p \in Request : p # q => request'[p] = request[p]
    BY <1>0 DEF SuspendUser, Goto, Types, TypeOK, RequestRecord
  <1>3. \A w \in User : w # u => user'[w] = user[w] BY <1>0 DEF SuspendUser, Types, TypeOK
  <1>4. \A w : \A p \in Request : CloserOf(p, w) => p # q BY <1>1 DEF CloserOf
  <1>5. \A y : \A p \in Request : Closer(p, y) => p # q BY <1>1 DEF Closer, CloserOf
  <1>6. ASSUME NEW w \in User PROVE Out(w)'
    <2>1. CASE w = u BY <1>2, <2>1 DEF Out, CloserOf
    <2>2. CASE w # u
      <3>1. \A p \in Request : CloserOf(p, w) => CloserOf(p, w)' BY <1>1, <1>2, <1>4, CloserKept
      <3> QED BY <1>1, <1>3, <2>2, <3>1 DEF Outs, Out
    <2> QED BY <2>1, <2>2
  <1>7. ASSUME NEW d \in Device, device[d].state = "revoked" PROVE Closed(d)'
    <2>1. CASE device[d].user = u
      <3>1. Closer(q, d)' BY <1>1, <1>2, <2>1 DEF Closer, CloserOf
      <3> QED BY <3>1 DEF Closed
    <2>2. CASE device[d].user # u
      <3>1. \A p \in Request : Closer(p, d) => Closer(p, d)' BY <1>1, <1>2, <1>5, CloserKept
      <3>2. device[d].user \in User BY <1>7 DEF Types, TypeOK, DeviceRecord
      <3> QED BY <1>1, <1>3, <2>2, <3>1, <3>2 DEF Outs, Closed, OrphanedBy
    <2> QED BY <2>1, <2>2
  <1>8. \A d \in Device : Closed(d)' BY <1>1, <1>7 DEF Closed
  <1> QED BY <1>6, <1>8 DEF Outs

\* Disabling a user that was read as disabled: one that has been enabled is late.
LEMMA OutsAgain ==
  ASSUME Types, Outs, NEW q \in Request, DisableAgain(q)
  PROVE  Outs'
  <1>0. PICK u \in User : u = request[q].user BY DEF DisableAgain, Types, Requests, Well
  <1>1. UNCHANGED <<device, enrollment, session>> /\ request[q].pc = "disable" /\ late \subseteq late'
    BY DEF DisableAgain
  <1>2. \A p \in Request : p # q => request'[p] = request[p]
    BY DEF DisableAgain, Finish, Types, TypeOK
  <1>3. /\ \A w \in User : w # u => user'[w] = user[w]
        /\ user'[u] = "disabled" /\ user[u] # "deleted"
        /\ user[u] = "enabled" => u \in late'
    BY <1>0 DEF DisableAgain, Types, TypeOK
  <1>4. \A w : \A p \in Request : CloserOf(p, w) => p # q BY <1>1 DEF CloserOf
  <1>5. \A y : \A p \in Request : Closer(p, y) => p # q BY <1>1 DEF Closer, CloserOf
  <1>6. ASSUME NEW w \in User PROVE Out(w)'
    <2>1. \A p \in Request : CloserOf(p, w) => CloserOf(p, w)' BY <1>1, <1>2, <1>4, CloserKept
    <2>2. user'[w] # "enabled" /\ w \notin late' => user[w] # "enabled" BY <1>3
    <2> QED BY <1>1, <2>1, <2>2 DEF Outs, Out
  <1>7. ASSUME NEW d \in Device, device[d].state = "revoked" PROVE Closed(d)'
    <2>1. \A p \in Request : Closer(p, d) => Closer(p, d)' BY <1>1, <1>2, <1>5, CloserKept
    <2>2. device[d].user \in User BY <1>7 DEF Types, TypeOK, DeviceRecord
    <2>3. user[device[d].user] = "deleted" => user'[device[d].user] = "deleted" BY <1>3, <2>2
    <2> QED BY <1>1, <2>1, <2>3 DEF Outs, Closed, OrphanedBy
  <1>8. \A d \in Device : Closed(d)' BY <1>1, <1>7 DEF Closed
  <1> QED BY <1>6, <1>8 DEF Outs

\* Closing the sessions of a user leaves none of them live.
LEMMA OutsUserClose ==
  ASSUME Types, Outs, NEW q \in Request, CloseUserSessions(q)
  PROVE  Outs'
  <1>0. PICK u \in User : u = request[q].user BY DEF CloseUserSessions, Types, Requests, Well
  <1>1. UNCHANGED <<user, device, enrollment>> /\ request[q].pc = "user_sessions"
        /\ late' = late \ {u}
    BY <1>0 DEF CloseUserSessions
  <1>2. \A p \in Request : p # q => request'[p] = request[p]
    BY DEF CloseUserSessions, Goto, Types, TypeOK
  <1>3. \A o \in Origin : session'[o].state = "live" => session'[o] = session[o] /\ session[o].user # u
    BY <1>0 DEF CloseUserSessions, RevokeSessions, ByUser, Types, TypeOK, SessionRecord
  <1>4. ASSUME NEW w \in User PROVE Out(w)'
    <2>1. CASE w = u BY <1>3, <2>1 DEF Out
    <2>2. CASE w # u
      <3>1. \A p \in Request : CloserOf(p, w) => p # q BY <1>0, <1>1, <2>2 DEF CloserOf
      <3>2. \A p \in Request : CloserOf(p, w) => CloserOf(p, w)' BY <1>1, <1>2, <3>1, CloserKept
      <3> QED BY <1>1, <1>3, <2>2, <3>2 DEF Outs, Out
    <2> QED BY <2>1, <2>2
  <1>5. ASSUME NEW d \in Device PROVE Closed(d)'
    <2>1. CASE device[d].user = u BY <1>1, <1>3, <2>1 DEF Closed
    <2>2. CASE device[d].user # u
      <3>1. \A p \in Request : Closer(p, d) => p # q BY <1>0, <1>1, <2>2 DEF Closer, CloserOf
      <3>2. \A p \in Request : Closer(p, d) => Closer(p, d)' BY <1>1, <1>2, <3>1, CloserKept
      <3>3. d # u BY DeviceAssumption
      <3> QED BY <1>1, <1>3, <2>2, <3>2, <3>3 DEF Outs, Closed, OrphanedBy
    <2> QED BY <2>1, <2>2
  <1> QED BY <1>4, <1>5 DEF Outs

\* The other steps of administrators and of the retention run.
LEMMA OutsAdmin ==
  ASSUME Types, Outs, NEW q \in Request,
         \/ \E d \in Device : DisableDevice(q, d)
         \/ DisableUserDevices(q)
         \/ \E D \in SUBSET Device, E \in SUBSET Enrollment : Prune(q, D, E)
         \/ \E O \in SUBSET Origin : PruneSessions(q, O)
  PROVE  Outs'
  <1>1. UNCHANGED <<user, late>> /\ request[q].pc \notin ClosingLabels
    BY DEF DisableDevice, DisableUserDevices, Prune, PruneSessions, Start, ClosingLabels, history
  <1>2. \A p \in Request : p # q => request'[p] = request[p]
    BY DEF DisableDevice, DisableUserDevices, Prune, PruneSessions, Start, Finish, Types, TypeOK
  <1>3. \A e \in Enrollment : enrollment'[e].replace = enrollment[e].replace
                              /\ enrollment'[e].user = enrollment[e].user
    <2>1. CASE (\E d \in Device : DisableDevice(q, d)) \/ DisableUserDevices(q)
      BY <2>1 DEF DisableDevice, DisableUserDevices
    <2>2. CASE \E D \in SUBSET Device, E \in SUBSET Enrollment : Prune(q, D, E)
      BY <2>2 DEF Prune, Types, TypeOK, EnrollmentRecord
    <2>3. CASE \E O \in SUBSET Origin : PruneSessions(q, O) BY <2>3 DEF PruneSessions
    <2> QED BY <2>1, <2>2, <2>3
  <1>4. \A o \in Origin : session'[o].state = "live" => session'[o] = session[o]
    <2>1. CASE (\E d \in Device : DisableDevice(q, d)) \/ DisableUserDevices(q)
      BY <2>1 DEF DisableDevice, DisableUserDevices
    <2>2. CASE \E D \in SUBSET Device, E \in SUBSET Enrollment : Prune(q, D, E)
      BY <2>2 DEF Prune
    <2>3. CASE \E O \in SUBSET Origin : PruneSessions(q, O)
      <3>1. PICK O \in SUBSET Origin : PruneSessions(q, O) BY <2>3
      <3>2. session' = [o \in Origin |-> IF o \in O THEN [session[o] EXCEPT !.state = "pruned"]
                                                    ELSE session[o]]
        BY <3>1 DEF PruneSessions
      <3>3. \A z \in SessionRecord : [z EXCEPT !.state = "pruned"].state = "pruned"
        BY DEF SessionRecord
      <3>4. \A o \in Origin : session[o] \in SessionRecord BY DEF Types, TypeOK
      <3>5. \A o \in O : session'[o].state = "pruned" BY <3>2, <3>3, <3>4
      <3>6. \A o \in Origin \ O : session'[o] = session[o] BY <3>2
      <3> QED BY <3>5, <3>6
    <2> QED BY <2>1, <2>2, <2>3
  <1>5. \A d \in Device : device'[d].state = "revoked" => device'[d] = device[d]
    <2>1. CASE \E d \in Device : DisableDevice(q, d)
      <3>1. PICK d \in Device : DisableDevice(q, d) BY <2>1
      <3>2. device \in [Device -> DeviceRecord] BY DEF Types, TypeOK
      <3>3. device' = [device EXCEPT ![d].state = "disabled"] BY <3>1 DEF DisableDevice
      <3>4. device'[d].state = "disabled" BY <3>2, <3>3 DEF DeviceRecord
      <3> QED BY <3>2, <3>3, <3>4
    <2>2. CASE DisableUserDevices(q)
      <3>1. \A z \in DeviceRecord : [z EXCEPT !.state = "disabled"].state = "disabled"
        BY DEF DeviceRecord
      <3>2. device \in [Device -> DeviceRecord] BY DEF Types, TypeOK
      <3> QED BY <2>2, <3>1, <3>2 DEF DisableUserDevices
    <2>3. CASE \E D \in SUBSET Device, E \in SUBSET Enrollment : Prune(q, D, E) BY <2>3 DEF Prune
    <2>4. CASE \E O \in SUBSET Origin : PruneSessions(q, O) BY <2>4 DEF PruneSessions
    <2> QED BY <2>1, <2>2, <2>3, <2>4
  <1> QED BY <1>1, <1>2, <1>3, <1>4, <1>5, Harmless

\* Every step keeps closed what must be closed.
LEMMA OutsNext == Types /\ Outs /\ [Next]_vars => Outs'
  <1> SUFFICES ASSUME Types, Outs, [Next]_vars PROVE Outs' OBVIOUS
  <1>1. ASSUME NEW c \in Challenge, LapseChallenge(c) PROVE Outs'
    BY <1>1, Harmless DEF LapseChallenge, history
  <1>2. ASSUME NEW o \in Origin, EndSession(o) PROVE Outs'
    <2>1. \A x \in Origin : session'[x].state = "live" => session'[x] = session[x]
      BY <1>2 DEF EndSession, Types, TypeOK, SessionRecord
    <2> QED BY <1>2, <2>1, Harmless DEF EndSession, history
  <1>3. ASSUME NEW d \in Device, EnableDevice(d) PROVE Outs'
    <2>1. \A x \in Device : device'[x].state = "revoked" => device'[x] = device[x]
      BY <1>3 DEF EnableDevice, Types, TypeOK, DeviceRecord
    <2> QED BY <1>3, <2>1, Harmless DEF EnableDevice
  <1>4. ASSUME NEW u \in User, EnableUser(u) PROVE Outs'
    <2>1. \A w \in User : /\ user'[w] # "enabled" => user[w] # "enabled"
                          /\ user[w] = "deleted" => user'[w] = "deleted"
      BY <1>4 DEF EnableUser, Types, TypeOK
    <2> QED BY <1>4, <2>1, Harmless DEF EnableUser, history
  <1>5. CASE Crash
    <2>1. \A d \in Device : (\E q \in Request : Closer(q, d)) => d \in late'
      BY <1>5 DEF Crash, Closing, ClosingUser, Closer, CloserOf
    <2>2. \A u \in User : (\E q \in Request : CloserOf(q, u)) => u \in late'
      BY <1>5 DEF Crash, ClosingUser, CloserOf
    <2>3. late \subseteq late' /\ UNCHANGED <<user, device, session>> BY <1>5 DEF Crash
    <2>4. \A d \in Device : Closed(d)' BY <2>1, <2>3 DEF Outs, Closed, OrphanedBy
    <2>5. \A u \in User : Out(u)' BY <2>2, <2>3 DEF Outs, Out
    <2> QED BY <2>4, <2>5 DEF Outs
  <1>6. CASE UNCHANGED vars BY <1>6, Harmless DEF vars
  <1> QED BY <1>1, <1>2, <1>3, <1>4, <1>5, <1>6, OutsHarmless, OutsRead, OutsEnrollment, OutsConsume,
             OutsOwner, OutsClose, OutsSession, OutsRevoke, OutsSuspend, OutsAgain, OutsUserClose,
             OutsAdmin
         DEF Next

\* At the start no session is open.
LEMMA OutsInit == Init => Outs
  BY DEF Init, Outs, Out, Closed

-----------------------------------------------------------------------------

\* Every variable of the two stores and of the requests has its type, and exactly the
\* devices with a row have an owner, for any number of users, devices and requests.
THEOREM EnrollmentTypes == Spec => []TypeOK
  <1>1. Types => TypeOK BY DEF Types
  <1> QED BY <1>1, TypesInit, TypesNext, PTL DEF Spec

\* Enrollments and login challenges implement single-use codes: _consume_enrollment and
\* _consume_device_login_challenge spend each at most once, and one session comes of it.
THEOREM SingleUseTheorem == Spec => SingleUse
  <1>1. Types /\ Codes /\ [Next]_vars => Types' /\ Codes' /\ Refines
    BY TypesNext, CodesNext
  <1>2. Init => Types /\ Codes /\ OneTime!Init BY TypesInit, CodesInit
  <1> QED BY <1>1, <1>2, PTL DEF Spec, SingleUse, OneTime!Spec, Refines

\* No sequence of enrollments, logins and administrative calls brings a revoked device back.
THEOREM RevokedTheorem == Spec => RevokedForGood
  <1>1. Types /\ [Next]_vars
          => [\A d \in Device : device[d].state = "revoked" => device'[d].state \in {"revoked", "none"}]_vars
    BY RevokedStays
  <1> QED BY <1>1, TypesInit, TypesNext, PTL DEF Spec, RevokedForGood

\* Completions never exceed the device limits of _consume_enrollment.
THEOREM LimitsTheorem == Spec => []WithinLimits
  BY TypesInit, TypesNext, LimitsInit, LimitsNext, PTL DEF Spec

\* Once a revocation or a replacement is through, the user has no live session on the device.
THEOREM RevocationTheorem == Spec => []RevocationClosesSessions
  BY TypesInit, TypesNext, OutsInit, OutsNext, OutsSuffice, PTL DEF Spec

\* Once the request that disabled or deleted a user is through, the user has no live session,
\* unless Core stopped first or the request had read the user as disabled already.
THEOREM SuspensionTheorem == Spec => []SuspendedUserIsOut
  BY TypesInit, TypesNext, OutsInit, OutsNext, OutsSuffice, PTL DEF Spec

===============================================================================
