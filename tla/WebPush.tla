------------------------------- MODULE WebPush -------------------------------
(***************************************************************************)
(* Notifications of the web app: the subscription each device keeps in     *)
(* Core, the policy that turns events into intents for the subscribed      *)
(* devices, and the loop that delivers intents to the push gateway and     *)
(* deletes there the subscriptions that Core gave up.                      *)
(*                                                                         *)
(* Each store method is one step.  Several events are routed side by side, *)
(* and requests, the loop and the gateway interleave with them.            *)
(***************************************************************************)
EXTENDS Naturals, FiniteSets

CONSTANTS
    Device,
    Event,
    Critical,     \* the events of critical severity
    MaxRefs,      \* bound: subscription references the gateway hands out
    Router,       \* coroutines that route events
    None,
    RateLimit,    \* ordinary intents of a device per window
    MaxRows,      \* rows the intent store keeps
    MaxAttempts,  \* deliveries tried per intent
    MaxOps        \* bound: devices disabled and enabled, changes of the gateway
                  \* credential, passing windows, subscriptions the gateway
                  \* loses, failing calls and restarts

ASSUME PushAssumption ==
    /\ Critical \subseteq Event
    /\ IsFiniteSet(Device) /\ IsFiniteSet(Event) /\ IsFiniteSet(Router)
    /\ MaxRefs \in Nat
    /\ RateLimit \in Nat \ {0} /\ MaxRows \in Nat \ {0} /\ MaxAttempts \in Nat \ {0}
    /\ MaxOps \in Nat

VARIABLES
    device,      \* the state of each device
    sub,         \* web_app_notification_subscriptions
    held,        \* the references the gateway delivers to
    given,       \* how many references it has handed out
    putting,     \* the reference a device is about to store in Core
    configured,  \* Core has a gateway credential
    intent,      \* web_app_notification_intents
    router,      \* the events being routed
    pub,         \* web_push_gateway_loop
    ops          \* operations so far

vars == <<device, sub, held, given, putting, configured, intent, router, pub, ops>>

-----------------------------------------------------------------------------

Ref == 1..MaxRefs

\* deleted_at is set exactly when the cleanup is pending or complete.
SubRecord == [state : {"none", "active", "pending", "complete"}, ref : Ref \cup {None}]
NoSub == [state |-> "none", ref |-> None]

\* recent: created within the rate window.
Row == Event \X Device
Open == {"pending", "retry"}
Settled == {"delivered", "dead", "expired"}
IntentRecord == [status   : {"none"} \cup Open \cup Settled,
                 ref      : Ref \cup {None},
                 attempts : 0..MaxAttempts,
                 recent   : BOOLEAN]
NoIntent == [status |-> "none", ref |-> None, attempts |-> 0, recent |-> FALSE]

\* todo: the targets that are left.  device: the target between two calls.
RouterRecord == [pc : {"idle", "target", "count", "create"}, event : Event \cup {None},
                 todo : SUBSET (Device \X Ref), target : (Device \X Ref) \cup {None}]
IdleRouter == [pc |-> "idle", event |-> None, todo |-> {}, target |-> None]

\* rows: the pending cleanups, or the due intents, that are left of this pass.
PublisherRecord == [pc : {"sleep", "read", "delete", "clean", "due", "send", "drop", "mark"},
                    cleanups : SUBSET (Device \X Ref), cleanup : (Device \X Ref) \cup {None},
                    rows : SUBSET Row, row : Row \cup {None},
                    verdict : {"retry", "delivered", "dead"}]
Asleep == [pc |-> "sleep", cleanups |-> {}, cleanup |-> None, rows |-> {}, row |-> None,
           verdict |-> "retry"]

Init ==
    /\ device = [d \in Device |-> "active"]
    /\ sub = [d \in Device |-> NoSub]
    /\ held = {} /\ given = 0
    /\ putting = [d \in Device |-> None]
    /\ configured = TRUE
    /\ intent = [i \in Row |-> NoIntent]
    /\ router = [t \in Router |-> IdleRouter]
    /\ pub = Asleep
    /\ ops = 0

Operation == ops < MaxOps /\ ops' = ops + 1

-----------------------------------------------------------------------------
(* Devices and their subscriptions *)

\* Revocation and replacement: a subscription that is in use goes to cleanup.
RevokeDevice(d) ==
    /\ device[d] \in {"active", "disabled"}
    /\ device' = [device EXCEPT ![d] = "revoked"]
    /\ sub' = [sub EXCEPT ![d].state = IF @ = "active" THEN "pending" ELSE @]
    /\ UNCHANGED <<held, given, putting, configured, intent, router, pub, ops>>

\* A bug: a device without a subscription gets a row as well.
DisableDeviceAlways(d) ==
    /\ Operation
    /\ device[d] \in {"active", "disabled"}
    /\ device' = [device EXCEPT ![d] = "disabled"]
    /\ sub' = [sub EXCEPT ![d].state = "pending"]
    /\ UNCHANGED <<held, given, putting, configured, intent, router, pub>>

\* Disabling, of the device or of its user, sends every row to cleanup, again if need be.
DisableDevice(d) ==
    /\ Operation
    /\ device[d] \in {"active", "disabled"}
    /\ device' = [device EXCEPT ![d] = "disabled"]
    /\ sub' = [sub EXCEPT ![d].state = IF @ = "none" THEN @ ELSE "pending"]
    /\ UNCHANGED <<held, given, putting, configured, intent, router, pub>>

EnableDevice(d) ==
    /\ Operation
    /\ device[d] = "disabled"
    /\ device' = [device EXCEPT ![d] = "active"]
    /\ UNCHANGED <<sub, held, given, putting, configured, intent, router, pub>>

\* A bug: the devices are chosen by their age alone.
PruneByAge(D, S) ==
    /\ \A d \in D : device[d] = "revoked"
    /\ \A d \in S : sub[d].state = "complete"
    /\ device' = [d \in Device |-> IF d \in D THEN "none" ELSE device[d]]
    /\ sub' = [d \in Device |-> IF d \in S THEN NoSub ELSE sub[d]]
    /\ UNCHANGED <<held, given, putting, configured, intent, router, pub, ops>>

\* D and S: the devices and the subscriptions past the retention window.
Prune(D, S) ==
    /\ \A d \in D : device[d] = "revoked" /\ sub[d].state # "pending"
    /\ \A d \in S : sub[d].state = "complete"
    /\ device' = [d \in Device |-> IF d \in D THEN "none" ELSE device[d]]
    /\ sub' = [d \in Device |-> IF d \in S THEN NoSub ELSE sub[d]]
    /\ UNCHANGED <<held, given, putting, configured, intent, router, pub, ops>>

\* With a grant of Core the browser subscribes at the gateway, and the device's
\* request to store the reference is let in.
Subscribe(d, r) ==
    /\ device[d] = "active" /\ configured
    /\ putting[d] = None
    /\ r = given + 1
    /\ given' = r
    /\ held' = held \cup {r}
    /\ putting' = [putting EXCEPT ![d] = r]
    /\ UNCHANGED <<device, sub, configured, intent, router, pub, ops>>

\* Only a revoked device is refused by now.
PutSubscription(d) ==
    /\ putting[d] # None
    /\ sub' = IF device[d] \in {"active", "disabled"}
              THEN [sub EXCEPT ![d] = [state |-> "active", ref |-> putting[d]]]
              ELSE sub
    /\ putting' = [putting EXCEPT ![d] = None]
    /\ UNCHANGED <<device, held, given, configured, intent, router, pub, ops>>

\* delete_notification_subscription, which names the device and no reference.
GiveUp(d) == sub' = [sub EXCEPT ![d].state = IF @ = "active" THEN "pending" ELSE @]

DeleteSubscription(d) ==
    /\ device[d] = "active"
    /\ sub[d].state = "active"
    /\ GiveUp(d)
    /\ UNCHANGED <<device, held, given, putting, configured, intent, router, pub, ops>>

\* External: the push service invalidates a subscription.
GatewayLoses(r) ==
    /\ Operation
    /\ r \in held
    /\ held' = held \ {r}
    /\ UNCHANGED <<device, sub, given, putting, configured, intent, router, pub>>

\* The owner revokes the gateway credential, or provisions one again.
Provision ==
    /\ Operation
    /\ configured' = ~configured
    /\ UNCHANGED <<device, sub, held, given, putting, intent, router, pub>>

-----------------------------------------------------------------------------
(* WebNotificationPolicyService.route *)

\* list_notification_targets, for an event in a supported category.
Receive(t, x) ==
    LET targets == {d \in Device : device[d] = "active" /\ sub[d].state = "active"} IN
    /\ router[t].pc = "idle"
    /\ targets # {}
    /\ router' = [router EXCEPT ![t] = [pc |-> "target", event |-> x, target |-> None,
                                        todo |-> {<<d, sub[d].ref>> : d \in targets}]]
    /\ UNCHANGED <<device, sub, held, given, putting, configured, intent, pub, ops>>

Skip(t, g) == router' = [router EXCEPT ![t].pc = "target", ![t].target = None,
                                       ![t].todo = @ \ {g}]

\* A target the preferences suppress, or that has the event already, is skipped.
Suppress(t, g) ==
    /\ router[t].pc = "target"
    /\ g \in router[t].todo
    /\ Skip(t, g)
    /\ UNCHANGED <<device, sub, held, given, putting, configured, intent, pub, ops>>

HasEvent(t, g) ==
    /\ router[t].pc = "target"
    /\ g \in router[t].todo
    /\ intent[<<router[t].event, g[1]>>].status = "none"
    /\ router' = [router EXCEPT ![t].pc = "count", ![t].target = g]
    /\ UNCHANGED <<device, sub, held, given, putting, configured, intent, pub, ops>>

Recent(d) == {i \in Row : i[2] = d /\ intent[i].status # "none" /\ intent[i].recent}

\* A bug: the intent that is about to be created is not counted.
WithinRateLoose(t) == Cardinality(Recent(router[t].target[1])) <= RateLimit

WithinRate(t) == Cardinality(Recent(router[t].target[1])) < RateLimit

\* What is over the limit is coalesced into a pending intent's badge, or lost.
RecentCount(t) ==
    /\ router[t].pc = "count"
    /\ IF WithinRate(t) \/ router[t].event \in Critical
       THEN router' = [router EXCEPT ![t].pc = "create"]
       ELSE Skip(t, router[t].target)
    /\ UNCHANGED <<device, sub, held, given, putting, configured, intent, pub, ops>>

Rows == {i \in Row : intent[i].status # "none"}

\* A bug: the oldest intent makes room, settled or not.
RoomAny(gone) ==
    IF Cardinality(Rows) < MaxRows THEN gone = {} ELSE \E i \in Rows : gone = {i}

\* gone: the settled intent that makes room when the store is full, the oldest one.
Room(gone) ==
    IF Cardinality(Rows) < MaxRows THEN gone = {}
    ELSE IF \E i \in Rows : intent[i].status \in Settled
         THEN \E i \in Rows : intent[i].status \in Settled /\ gone = {i}
         ELSE gone = {}

\* INSERT OR IGNORE: an intent that another router has created meanwhile stays.
CreateIntent(t, gone) ==
    LET g   == router[t].target
        row == <<router[t].event, g[1]>>
        left == [i \in Row |-> IF i \in gone THEN NoIntent ELSE intent[i]]
    IN
    /\ router[t].pc = "create"
    /\ Room(gone)
    /\ intent' = IF Cardinality(Rows \ gone) < MaxRows /\ left[row].status = "none"
                 THEN [left EXCEPT ![row] = [status |-> "pending", ref |-> g[2], attempts |-> 0,
                                             recent |-> TRUE]]
                 ELSE left
    /\ Skip(t, g)
    /\ UNCHANGED <<device, sub, held, given, putting, configured, pub, ops>>

Routed(t) ==
    /\ router[t].pc = "target" /\ router[t].todo = {}
    /\ router' = [router EXCEPT ![t] = IdleRouter]
    /\ UNCHANGED <<device, sub, held, given, putting, configured, intent, pub, ops>>

WindowPasses ==
    /\ Operation
    /\ \E i \in Rows : intent[i].recent
    /\ intent' = [i \in Row |-> [intent[i] EXCEPT !.recent = FALSE]]
    /\ UNCHANGED <<device, sub, held, given, putting, configured, router, pub>>

-----------------------------------------------------------------------------
(* web_push_gateway_loop: cleanup_due, then publish_due *)

Publisher(p) == pub' = p

Wake ==
    /\ pub.pc = "sleep"
    /\ Publisher([Asleep EXCEPT !.pc = IF configured THEN "read" ELSE "due"])
    /\ UNCHANGED <<device, sub, held, given, putting, configured, intent, router, ops>>

\* A bug: the rows whose device is gone for good are left out.
ReadPendingEnabled ==
    /\ pub.pc = "read"
    /\ Publisher([Asleep EXCEPT !.pc = "delete",
                    !.cleanups = {<<d, sub[d].ref>> :
                                    d \in {x \in Device : sub[x].state = "pending" /\ device[x] # "revoked"}}])
    /\ UNCHANGED <<device, sub, held, given, putting, configured, intent, router, ops>>

ReadPending ==
    /\ pub.pc = "read"
    /\ Publisher([Asleep EXCEPT !.pc = "delete",
                    !.cleanups = {<<d, sub[d].ref>> : d \in {x \in Device : sub[x].state = "pending"}}])
    /\ UNCHANGED <<device, sub, held, given, putting, configured, intent, router, ops>>

\* The gateway deletes the reference, or does not know it any more.
GatewayDeletes(c) ==
    /\ pub.pc = "delete"
    /\ c \in pub.cleanups
    /\ held' = held \ {c[2]}
    /\ Publisher([pub EXCEPT !.pc = "clean", !.cleanup = c])
    /\ UNCHANGED <<device, sub, given, putting, configured, intent, router, ops>>

\* It refuses, is unavailable, or its answer is lost after it deleted the reference.
DeleteFails(c) ==
    /\ Operation
    /\ pub.pc = "delete"
    /\ c \in pub.cleanups
    /\ held' \in {held, held \ {c[2]}}
    /\ Publisher([pub EXCEPT !.cleanups = @ \ {c}])
    /\ UNCHANGED <<device, sub, given, putting, configured, intent, router>>

\* A bug: the reference is not compared.
MarkCleanedAny ==
    LET c == pub.cleanup IN
    /\ pub.pc = "clean"
    /\ sub' = [sub EXCEPT ![c[1]].state = IF @ = "pending" THEN "complete" ELSE @]
    /\ Publisher([pub EXCEPT !.pc = "delete", !.cleanups = @ \ {c}, !.cleanup = None])
    /\ UNCHANGED <<device, held, given, putting, configured, intent, router, ops>>

\* A row that was replaced meanwhile is left alone.
MarkCleaned ==
    LET c == pub.cleanup IN
    /\ pub.pc = "clean"
    /\ sub' = IF sub[c[1]].state = "pending" /\ sub[c[1]].ref = c[2]
              THEN [sub EXCEPT ![c[1]].state = "complete"] ELSE sub
    /\ Publisher([pub EXCEPT !.pc = "delete", !.cleanups = @ \ {c}, !.cleanup = None])
    /\ UNCHANGED <<device, held, given, putting, configured, intent, router, ops>>

CleanupDone ==
    /\ pub.pc = "delete" /\ pub.cleanups = {}
    /\ Publisher([Asleep EXCEPT !.pc = "due"])
    /\ UNCHANGED <<device, sub, held, given, putting, configured, intent, router, ops>>

OpenRows == {i \in Row : intent[i].status \in Open}

\* A bug: without a credential the pass ends before it looks at the intents.
DueConfigured(late, early) ==
    /\ pub.pc = "due"
    /\ configured
    /\ late \subseteq OpenRows /\ early = {}
    /\ intent' = [i \in Row |-> IF i \in late THEN [intent[i] EXCEPT !.status = "expired"]
                                              ELSE intent[i]]
    /\ Publisher([Asleep EXCEPT !.pc = "send", !.rows = OpenRows \ late])
    /\ UNCHANGED <<device, sub, held, given, putting, configured, router, ops>>

\* late: the intents whose day is over, which expire first.  early: those whose next
\* attempt is still to come.  Without a credential nothing is sent.
Due(late, early) ==
    /\ pub.pc = "due"
    /\ late \subseteq OpenRows
    /\ \A i \in early : i \in OpenRows \ late /\ intent[i].status = "retry"
    /\ intent' = [i \in Row |-> IF i \in late THEN [intent[i] EXCEPT !.status = "expired"]
                                              ELSE intent[i]]
    /\ Publisher(IF configured
                 THEN [Asleep EXCEPT !.pc = "send", !.rows = OpenRows \ (late \cup early)]
                 ELSE Asleep)
    /\ UNCHANGED <<device, sub, held, given, putting, configured, router, ops>>

Answered(i, l, v) == Publisher([pub EXCEPT !.pc = l, !.row = i, !.verdict = v])

\* The gateway accepts, or knows the idempotency key from an attempt whose answer was lost.
Accepted(i) ==
    /\ pub.pc = "send"
    /\ i \in pub.rows
    /\ intent[i].ref \in held
    /\ Answered(i, "mark", "delivered")
    /\ UNCHANGED <<device, sub, held, given, putting, configured, intent, router, ops>>

UnknownRef(i) ==
    /\ pub.pc = "send"
    /\ i \in pub.rows
    /\ intent[i].ref \notin held
    /\ Answered(i, "drop", "dead")
    /\ UNCHANGED <<device, sub, held, given, putting, configured, intent, router, ops>>

\* A timeout, throttling or a server error; a permanent refusal.
SendFails(i, v) ==
    /\ Operation
    /\ pub.pc = "send"
    /\ i \in pub.rows
    /\ Answered(i, "mark", v)
    /\ UNCHANGED <<device, sub, held, given, putting, configured, intent, router>>

DropSubscription ==
    /\ pub.pc = "drop"
    /\ GiveUp(pub.row[2])
    /\ Publisher([pub EXCEPT !.pc = "mark"])
    /\ UNCHANGED <<device, held, given, putting, configured, intent, router, ops>>

\* mark_delivery, after _retry has given up on an intent with its last attempt.
MarkDelivery ==
    LET i == pub.row
        attempts == intent[i].attempts + 1
    IN
    /\ pub.pc = "mark"
    /\ intent' = [intent EXCEPT ![i].attempts = attempts,
                    ![i].status = IF pub.verdict = "retry" /\ attempts >= MaxAttempts
                                  THEN "dead" ELSE pub.verdict]
    /\ Publisher([pub EXCEPT !.pc = "send", !.rows = @ \ {i}, !.row = None, !.verdict = "retry"])
    /\ UNCHANGED <<device, sub, held, given, putting, configured, router, ops>>

PublishDone ==
    /\ pub.pc = "send" /\ pub.rows = {}
    /\ Publisher(Asleep)
    /\ UNCHANGED <<device, sub, held, given, putting, configured, intent, router, ops>>

\* Any other error of a call ends the pass, cleanups and deliveries that are left included.
Abandon ==
    /\ Operation
    /\ pub.pc \in {"delete", "send"}
    /\ pub.cleanups # {} \/ pub.rows # {}
    /\ Publisher(Asleep)
    /\ UNCHANGED <<device, sub, held, given, putting, configured, intent, router>>

\* Core stops: events being routed and requests are lost, the database stays.
Crash ==
    /\ Operation
    /\ Publisher(Asleep)
    /\ router' = [t \in Router |-> IdleRouter]
    /\ putting' = [d \in Device |-> None]
    /\ UNCHANGED <<device, sub, held, given, configured, intent>>

Loop ==
    \/ Wake \/ ReadPending \/ MarkCleaned \/ CleanupDone
    \/ \E late, early \in SUBSET Row : Due(late, early)
    \/ DropSubscription \/ MarkDelivery \/ PublishDone
    \/ \E c \in Device \X Ref : GatewayDeletes(c) \/ DeleteFails(c)
    \/ \E i \in Row : \/ Accepted(i) \/ UnknownRef(i)
                      \/ \E v \in {"retry", "dead"} : SendFails(i, v)
    \/ Abandon

Route ==
    \E t \in Router :
        \/ \E x \in Event : Receive(t, x)
        \/ \E g \in Device \X Ref : Suppress(t, g) \/ HasEvent(t, g)
        \/ RecentCount(t)
        \/ \E gone \in {{}} \cup {{i} : i \in Row} : CreateIntent(t, gone)
        \/ Routed(t)

Next ==
    \/ \E d \in Device : \/ RevokeDevice(d) \/ DisableDevice(d) \/ EnableDevice(d)
                         \/ \E r \in Ref : Subscribe(d, r)
                         \/ PutSubscription(d) \/ DeleteSubscription(d)
    \/ \E D, S \in SUBSET Device : Prune(D, S)
    \/ \E r \in Ref : GatewayLoses(r)
    \/ Provision
    \/ Route
    \/ WindowPasses
    \/ Loop
    \/ Crash

Spec == Init /\ [][Next]_vars

\* The pass that finds an intent past its day.
Expire(i) == \E late, early \in SUBSET Row : i \in late /\ Due(late, early)

\* The loop runs for as long as Core does, and the day of every intent passes.  That the
\* gateway answers at last follows from the bound on failing calls.
Fairness ==
    /\ WF_vars(Loop)
    /\ \A i \in Row : SF_vars(Expire(i))

FairSpec == Spec /\ Fairness

-----------------------------------------------------------------------------
(* Properties *)

\* Every variable has its type.  In particular a row has a reference, and an attempt beyond
\* the last is never counted.  Only counted attempts are bounded: a crash, or the end of a
\* pass, between the answer of the gateway and mark_delivery leaves the attempt uncounted,
\* and the intent is sent again.
TypeOK ==
    /\ device \in [Device -> {"active", "disabled", "revoked", "none"}]
    /\ sub \in [Device -> SubRecord]
    /\ \A d \in Device : sub[d].state = "none" <=> sub[d].ref = None
    /\ held \subseteq Ref /\ given \in 0..MaxRefs
    /\ putting \in [Device -> Ref \cup {None}]
    /\ configured \in BOOLEAN
    /\ intent \in [Row -> IntentRecord]
    /\ router \in [Router -> RouterRecord]
    /\ pub \in PublisherRecord
    /\ ops \in 0..MaxOps

\* A cleanup that is marked complete has been carried out: the gateway no longer holds
\* the reference of the row, though the device may have subscribed again, or been
\* disabled again, while the deletion of an earlier reference was under way.
CleanedIsGone ==
    \A d \in Device : sub[d].state = "complete" => sub[d].ref \notin held

\* Retention never removes a device whose subscription is still to be cleaned up.
PendingKeepsDevice ==
    \A d \in Device : sub[d].state = "pending" => device[d] # "none"

\* The intents a pass has read stay open until the pass gets to them, though routers
\* delete rows to make room meanwhile: mark_delivery, which looks at nothing, never
\* writes to an intent that is settled or gone.
PassStaysOpen ==
    \A i \in pub.rows : intent[i].status \in Open

\* Events that are routed side by side read the count before any of them has created its
\* intent: the rate limit is exceeded by at most one intent per further router.
RateHeld ==
    \A d \in Device :
        Cardinality({i \in Recent(d) : i[1] \notin Critical}) <= RateLimit + Cardinality(Router) - 1

\* A reference that Core gives up is deleted at the gateway and its row marked, if Core keeps
\* its credential: whatever fails on the way, the next pass tries again.  A device that
\* subscribes again before that is excepted: its row takes the new reference, nothing names
\* the old one any more, and the gateway keeps it.
CleanupCompletes ==
    \A d \in Device, r \in Ref :
        (sub[d].state = "pending" /\ sub[d].ref = r)
            ~> \/ sub[d].state = "complete" /\ sub[d].ref = r /\ r \notin held
               \/ sub[d].ref # r
               \/ ~configured

\* Every intent is settled at last, with a credential or without: delivered, given up
\* after its attempts, or expired.
IntentsSettle ==
    \A i \in Row : (intent[i].status \in Open) ~> (intent[i].status \notin Open)

==============================================================================
