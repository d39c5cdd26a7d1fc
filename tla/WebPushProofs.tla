----------------------------- MODULE WebPushProofs -----------------------------
(***************************************************************************)
(* Proofs about WebPush, for every number of devices, events and routers,  *)
(* and for every limit.                                                    *)
(*                                                                         *)
(* Types are the types of the parts, with what each part relies on.        *)
(* References: no reference that was cleaned up is ever known again,       *)
(* because a fresh one is above all that were given out.  Owned: a         *)
(* subscription that is active belongs to a device that still exists, so   *)
(* one that waits for its cleanup does too.  Rate: the intents that count, *)
(* together with the routers that have checked the limit and not created   *)
(* their intent yet, exceed the limit by fewer than there are routers.     *)
(***************************************************************************)
EXTENDS WebPush, FiniteSetTheorems, TLAPS

\* The parts of the types, each with what its own steps rely on.
DevicesOK ==
    /\ device \in [Device -> {"active", "disabled", "revoked", "none"}]
    /\ held \subseteq Ref /\ given \in 0..MaxRefs
    /\ putting \in [Device -> Ref \cup {None}]
    /\ configured \in BOOLEAN
    /\ ops \in 0..MaxOps

SubsOK ==
    /\ sub \in [Device -> SubRecord]
    /\ \A d \in Device : sub[d].state = "none" <=> sub[d].ref = None

\* An intent that is still tried has an attempt left.
IntentsOK ==
    /\ intent \in [Row -> IntentRecord]
    /\ \A i \in Row : intent[i].status \in Open => intent[i].attempts < MaxAttempts

\* A router that has an event knows it, and one that has a target knows that.
Routing(r) ==
    /\ r \in RouterRecord
    /\ r.pc # "idle" => r.event \in Event
    /\ r.pc \in {"count", "create"} => r.target \in Device \X Ref

RoutersOK == router \in [Router -> RouterRecord] /\ \A t \in Router : Routing(router[t])

\* The publisher knows the reference it cleans up, and the intent it is about to mark is
\* one of the pass.
PublisherOK ==
    /\ pub \in PublisherRecord
    /\ pub.pc = "clean" => pub.cleanup \in Device \X Ref
    /\ pub.pc \in {"drop", "mark"} => pub.row \in pub.rows

Types == DevicesOK /\ SubsOK /\ IntentsOK /\ RoutersOK /\ PublisherOK /\ PassStaysOpen

-----------------------------------------------------------------------------
(* Type correctness *)

\* What the assumption says of the constants.
LEMMA Constants ==
  /\ MaxRefs \in Nat /\ RateLimit \in Nat /\ RateLimit > 0 /\ MaxRows \in Nat
  /\ MaxAttempts \in Nat /\ MaxAttempts > 0 /\ MaxOps \in Nat
  /\ IsFiniteSet(Device) /\ IsFiniteSet(Event) /\ IsFiniteSet(Router)
  BY PushAssumption

\* The parts together are the type invariant.
LEMMA TypesSuffice == Types => TypeOK /\ PassStaysOpen
  BY DEF Types, TypeOK, DevicesOK, SubsOK, IntentsOK, RoutersOK, PublisherOK

\* A free router knows nothing.
LEMMA IdleRouting == Routing(IdleRouter) /\ IdleRouter.pc = "idle"
  BY DEF Routing, IdleRouter, RouterRecord

\* A publisher that sleeps has no rows.
LEMMA AsleepOK == Asleep \in PublisherRecord /\ Asleep.rows = {}
  BY DEF Asleep, PublisherRecord

\* The types hold at the start.
LEMMA TypesInit == Init => Types
  <1> SUFFICES ASSUME Init PROVE Types OBVIOUS
  <1> USE Constants
  <1>1. DevicesOK BY DEF Init, DevicesOK
  <1>2. SubsOK BY DEF Init, SubsOK, SubRecord, NoSub
  <1>3. IntentsOK BY DEF Init, IntentsOK, IntentRecord, NoIntent, Open
  <1>4. RoutersOK BY IdleRouting DEF Init, RoutersOK, Routing
  <1>5. PublisherOK BY AsleepOK DEF Init, PublisherOK, Asleep
  <1>6. PassStaysOpen BY AsleepOK DEF Init, PassStaysOpen
  <1> QED BY <1>1, <1>2, <1>3, <1>4, <1>5, <1>6 DEF Types

\* Which steps change each variable.
LEMMA Writers ==
  ASSUME [Next]_vars
  PROVE  /\ UNCHANGED device \/ (\E D, S \in SUBSET Device : Prune(D, S))
           \/ \E d \in Device : RevokeDevice(d) \/ DisableDevice(d) \/ EnableDevice(d)
         /\ UNCHANGED sub \/ (\E D, S \in SUBSET Device : Prune(D, S))
           \/ MarkCleaned \/ DropSubscription
           \/ \E d \in Device : \/ RevokeDevice(d) \/ DisableDevice(d) \/ PutSubscription(d)
                               \/ DeleteSubscription(d)
         /\ UNCHANGED <<held, given>> \/ (\E d \in Device, r \in Ref : Subscribe(d, r))
           \/ (\E r \in Ref : GatewayLoses(r))
           \/ \E c \in Device \X Ref : GatewayDeletes(c) \/ DeleteFails(c)
         /\ UNCHANGED putting \/ Crash \/ (\E d \in Device, r \in Ref : Subscribe(d, r))
           \/ \E d \in Device : PutSubscription(d)
         /\ UNCHANGED configured \/ Provision
         /\ UNCHANGED intent \/ WindowPasses \/ MarkDelivery
           \/ (\E t \in Router : \E gone \in {{}} \cup {{i} : i \in Row} : CreateIntent(t, gone))
           \/ \E late, early \in SUBSET Row : Due(late, early)
         /\ UNCHANGED router \/ Crash \/ Route
         /\ UNCHANGED pub \/ Crash \/ Loop
         /\ UNCHANGED ops \/ Operation
  <1> USE DEF Next, Route, Loop, vars, RevokeDevice, DisableDevice, EnableDevice, Subscribe,
             PutSubscription, DeleteSubscription, Prune, GatewayLoses, Provision, Receive, Suppress,
             HasEvent, RecentCount, CreateIntent, Routed, WindowPasses, Wake, ReadPending,
             MarkCleaned, CleanupDone, Due, DropSubscription, MarkDelivery, PublishDone,
             GatewayDeletes, DeleteFails, Accepted, UnknownRef, SendFails, Abandon, Crash
  <1> QED OBVIOUS

\* The counters and the gateway keep their types.
LEMMA DevicesStep ==
  ASSUME DevicesOK, [Next]_vars
  PROVE  DevicesOK'
  <1> USE Constants
  <1>1. device' \in [Device -> {"active", "disabled", "revoked", "none"}]
    BY Writers DEF DevicesOK, RevokeDevice, DisableDevice, EnableDevice, Prune
  <1>2. held' \subseteq Ref /\ given' \in 0..MaxRefs
    <2>1. ASSUME NEW d \in Device, NEW r \in Ref, Subscribe(d, r)
          PROVE  held' \subseteq Ref /\ given' \in 0..MaxRefs
      <3>1. given' = r /\ held' = held \cup {r} BY <2>1 DEF Subscribe
      <3>2. r \in 0..MaxRefs BY DEF Ref
      <3> QED BY <3>1, <3>2 DEF DevicesOK
    <2>2. (\A d \in Device, r \in Ref : ~Subscribe(d, r)) => held' \subseteq held /\ given' = given
      BY Writers DEF GatewayLoses, GatewayDeletes, DeleteFails
    <2> QED BY <2>1, <2>2 DEF DevicesOK
  <1>3. putting' \in [Device -> Ref \cup {None}]
    BY Writers DEF DevicesOK, Subscribe, PutSubscription, Crash
  <1>4. configured' \in BOOLEAN BY Writers DEF DevicesOK, Provision
  <1>5. ops' \in 0..MaxOps BY Writers DEF DevicesOK, Operation
  <1> QED BY <1>1, <1>2, <1>3, <1>4, <1>5 DEF DevicesOK

\* A subscription keeps a reference for as long as it has a row.
LEMMA SubsStep ==
  ASSUME Types, [Next]_vars
  PROVE  SubsOK'
  <1>0. SubsOK /\ sub \in [Device -> SubRecord] /\ DevicesOK /\ PublisherOK
    BY DEF Types, SubsOK
  <1>1. ASSUME NEW d \in Device, NEW x \in {"active", "pending", "complete"}, sub[d].state # "none",
               sub' = [sub EXCEPT ![d].state = x]
        PROVE  SubsOK'
    BY <1>0, <1>1 DEF SubsOK, SubRecord
  <1>2. ASSUME NEW d \in Device, \/ RevokeDevice(d) \/ DisableDevice(d) \/ DeleteSubscription(d)
        PROVE  SubsOK'
    <2>1. sub[d] \in SubRecord BY <1>0
    <2>2. CASE sub[d].state = "none" \/ sub' = sub
      <3>1. sub' = sub
        BY <1>0, <1>2, <2>1, <2>2
           DEF RevokeDevice, DisableDevice, DeleteSubscription, GiveUp, SubRecord
      <3> QED BY <1>0, <3>1 DEF SubsOK
    <2>3. CASE sub[d].state # "none"
      <3>1. \E x \in {"active", "pending", "complete"} : sub' = [sub EXCEPT ![d].state = x]
        BY <1>2, <2>1, <2>3 DEF RevokeDevice, DisableDevice, DeleteSubscription, GiveUp, SubRecord
      <3> QED BY <1>1, <2>3, <3>1
    <2> QED BY <2>2, <2>3
  <1>3. ASSUME NEW d \in Device, PutSubscription(d) PROVE SubsOK'
    <2>1. putting[d] \in Ref \cup {None} /\ putting[d] # None
      BY <1>0, <1>3 DEF DevicesOK, PutSubscription
    <2>2. [state |-> "active", ref |-> putting[d]] \in SubRecord BY <2>1 DEF SubRecord
    <2> QED BY <1>0, <1>3, <2>1, <2>2 DEF SubsOK, PutSubscription
  <1>4. ASSUME NEW D \in SUBSET Device, NEW S \in SUBSET Device, Prune(D, S) PROVE SubsOK'
    <2>1. NoSub \in SubRecord /\ NoSub.state = "none" /\ NoSub.ref = None BY DEF NoSub, SubRecord
    <2>2. sub' = [d \in Device |-> IF d \in S THEN NoSub ELSE sub[d]] BY <1>4 DEF Prune
    <2> QED BY <1>0, <2>1, <2>2 DEF SubsOK
  <1>5. CASE MarkCleaned
    <2>1. pub.cleanup[1] \in Device BY <1>0, <1>5 DEF MarkCleaned, PublisherOK
    <2> QED BY <1>0, <1>1, <1>5, <2>1 DEF MarkCleaned, SubsOK
  <1>6. CASE DropSubscription
    <2>1. PICK d \in Device : d = pub.row[2]
      BY <1>0, <1>6 DEF DropSubscription, PublisherOK, PublisherRecord, Row
    <2>2. sub' = [sub EXCEPT ![d].state = IF @ = "active" THEN "pending" ELSE @]
      BY <1>6, <2>1 DEF DropSubscription, GiveUp
    <2>3. CASE sub[d].state = "active"
      <3>1. sub' = [sub EXCEPT ![d].state = "pending"] BY <2>2, <2>3
      <3> QED BY <1>1, <2>3, <3>1
    <2>4. CASE sub[d].state # "active"
      <3>1. sub' = sub BY <1>0, <2>2, <2>4 DEF SubRecord
      <3> QED BY <1>0, <3>1 DEF SubsOK
    <2> QED BY <2>3, <2>4
  <1>7. CASE UNCHANGED sub BY <1>0, <1>7 DEF SubsOK
  <1> QED BY <1>2, <1>3, <1>4, <1>5, <1>6, <1>7, Writers

\* A router goes from its targets to the count and on to the creation.
LEMMA RoutersStep ==
  ASSUME Types, [Next]_vars
  PROVE  RoutersOK'
  <1>0. SubsOK /\ RoutersOK /\ router \in [Router -> RouterRecord] BY DEF Types, RoutersOK
  <1>1. ASSUME NEW t \in Router, NEW r, Routing(r), router' = [router EXCEPT ![t] = r]
        PROVE  RoutersOK'
    BY <1>0, <1>1 DEF RoutersOK, Routing
  <1>2. ASSUME NEW t \in Router, NEW g, router[t].pc # "idle", Skip(t, g) PROVE RoutersOK'
    <2> DEFINE r == [router[t] EXCEPT !.pc = "target", !.target = None, !.todo = @ \ {g}]
    <2>1. Routing(router[t]) BY <1>0 DEF RoutersOK
    <2>2. Routing(r) BY <1>2, <2>1 DEF Routing, RouterRecord
    <2>3. router' = [router EXCEPT ![t] = r] BY <1>0, <1>2 DEF Skip
    <2> HIDE DEF r
    <2> QED BY <1>1, <2>2, <2>3
  <1>3. ASSUME NEW t \in Router, NEW x \in Event, Receive(t, x) PROVE RoutersOK'
    <2> DEFINE T == {d \in Device : device[d] = "active" /\ sub[d].state = "active"}
               G == {<<d, sub[d].ref>> : d \in T}
               r == [pc |-> "target", event |-> x, target |-> None, todo |-> G]
    <2>1. router' = [router EXCEPT ![t] = r] BY <1>3 DEF Receive
    <2>2. \A d \in T : sub[d].ref \in Ref BY <1>0 DEF SubsOK, SubRecord
    <2>3. G \subseteq Device \X Ref BY <2>2
    <2> HIDE DEF G
    <2>4. Routing(r) BY <2>3 DEF Routing, RouterRecord
    <2> HIDE DEF r
    <2> QED BY <1>1, <2>1, <2>4
  <1>4. ASSUME NEW t \in Router, NEW g \in Device \X Ref, HasEvent(t, g) PROVE RoutersOK'
    <2> DEFINE r == [router[t] EXCEPT !.pc = "count", !.target = g]
    <2>1. Routing(router[t]) BY <1>0 DEF RoutersOK
    <2>2. Routing(r) BY <1>4, <2>1 DEF Routing, RouterRecord, HasEvent
    <2>3. router' = [router EXCEPT ![t] = r] BY <1>0, <1>4 DEF HasEvent
    <2> HIDE DEF r
    <2> QED BY <1>1, <2>2, <2>3
  <1>5. ASSUME NEW t \in Router, RecentCount(t) PROVE RoutersOK'
    <2> DEFINE r == [router[t] EXCEPT !.pc = "create"]
    <2>1. Routing(router[t]) BY <1>0 DEF RoutersOK
    <2>2. Routing(r) BY <1>5, <2>1 DEF Routing, RouterRecord, RecentCount
    <2>3. router' = [router EXCEPT ![t] = r] \/ Skip(t, router[t].target)
      BY <1>0, <1>5 DEF RecentCount
    <2> HIDE DEF r
    <2> QED BY <1>1, <1>2, <1>5, <2>2, <2>3 DEF RecentCount
  <1>6. ASSUME NEW t \in Router, Routed(t) PROVE RoutersOK' BY <1>1, <1>6, IdleRouting DEF Routed
  <1>7. ASSUME NEW t \in Router, NEW g, Suppress(t, g) \/ CreateIntent(t, g) PROVE RoutersOK'
    BY <1>2, <1>7 DEF Suppress, CreateIntent
  <1>8. CASE Crash BY <1>8, IdleRouting DEF Crash, RoutersOK, Routing
  <1>9. CASE UNCHANGED router BY <1>0, <1>9 DEF RoutersOK
  <1>10. CASE Route BY <1>3, <1>4, <1>5, <1>6, <1>7, <1>10 DEF Route
  <1> QED BY <1>8, <1>9, <1>10, Writers

\* An intent that a router creates is new, and mark_delivery gives up on the last attempt.
LEMMA IntentsStep ==
  ASSUME Types, [Next]_vars
  PROVE  IntentsOK'
  <1> USE Constants
  <1>0. /\ IntentsOK /\ intent \in [Row -> IntentRecord] /\ RoutersOK /\ PublisherOK /\ PassStaysOpen
    BY DEF Types, IntentsOK
  <1>1. NoIntent \in IntentRecord /\ NoIntent.status \notin Open
    BY DEF NoIntent, IntentRecord, Open
  <1>2. CASE WindowPasses
    <2>1. intent' = [i \in Row |-> [intent[i] EXCEPT !.recent = FALSE]] BY <1>2 DEF WindowPasses
    <2>2. ASSUME NEW i \in Row
          PROVE  intent'[i] \in IntentRecord
                 /\ (intent'[i].status \in Open => intent'[i].attempts < MaxAttempts)
      <3>1. intent'[i] = [intent[i] EXCEPT !.recent = FALSE] BY <2>1
      <3> QED BY <1>0, <3>1 DEF IntentsOK, IntentRecord
    <2> QED BY <2>1, <2>2 DEF IntentsOK
  <1>3. ASSUME NEW late \in SUBSET Row, NEW early \in SUBSET Row, Due(late, early) PROVE IntentsOK'
    <2>1. intent' = [i \in Row |-> IF i \in late THEN [intent[i] EXCEPT !.status = "expired"]
                                                  ELSE intent[i]]
      BY <1>3 DEF Due
    <2>2. ASSUME NEW i \in Row
          PROVE  intent'[i] \in IntentRecord
                 /\ (intent'[i].status \in Open => intent'[i].attempts < MaxAttempts)
      <3>1. CASE i \in late
        <4>1. intent'[i] = [intent[i] EXCEPT !.status = "expired"] BY <2>1, <3>1
        <4> QED BY <1>0, <4>1 DEF IntentsOK, IntentRecord, Open, Settled
      <3>2. CASE i \notin late BY <1>0, <2>1, <3>2 DEF IntentsOK
      <3> QED BY <3>1, <3>2
    <2> QED BY <2>1, <2>2 DEF IntentsOK
  <1>4. ASSUME NEW t \in Router, NEW gone, CreateIntent(t, gone) PROVE IntentsOK'
    <2> DEFINE g == router[t].target
               row == <<router[t].event, g[1]>>
               left == [i \in Row |-> IF i \in gone THEN NoIntent ELSE intent[i]]
               new == [status |-> "pending", ref |-> g[2], attempts |-> 0, recent |-> TRUE]
    <2>1. Routing(router[t]) /\ router[t].pc = "create" BY <1>0, <1>4 DEF RoutersOK, CreateIntent
    <2>2. g \in Device \X Ref /\ router[t].event \in Event BY <2>1 DEF Routing
    <2>3. row \in Row /\ new \in IntentRecord /\ new.attempts = 0
      BY <2>2 DEF Row, IntentRecord, Open
    <2>4. intent' = left \/ intent' = [left EXCEPT ![row] = new] BY <1>4 DEF CreateIntent
    <2>5. left \in [Row -> IntentRecord]
          /\ \A i \in Row : left[i].status \in Open => left[i].attempts < MaxAttempts
      BY <1>0, <1>1 DEF IntentsOK
    <2> HIDE DEF row, new, left
    <2> QED BY <2>3, <2>4, <2>5 DEF IntentsOK
  <1>5. CASE MarkDelivery
    <2>1. PICK i \in Row : i = pub.row /\ intent[i].status \in Open
      BY <1>0, <1>5 DEF MarkDelivery, PublisherOK, PublisherRecord, PassStaysOpen
    <2> DEFINE n == intent[i].attempts + 1
               v == IF pub.verdict = "retry" /\ n >= MaxAttempts THEN "dead" ELSE pub.verdict
    <2>2. intent' = [intent EXCEPT ![i].attempts = n, ![i].status = v]
      BY <1>5, <2>1 DEF MarkDelivery
    <2>3. intent[i] \in IntentRecord /\ intent[i].attempts < MaxAttempts BY <1>0, <2>1 DEF IntentsOK
    <2>4. n \in 0..MaxAttempts BY <2>3 DEF IntentRecord
    <2>5. pub.verdict \in {"retry", "delivered", "dead"} BY <1>0 DEF PublisherOK, PublisherRecord
    <2>6. v \in Open \cup Settled /\ (v \in Open => n < MaxAttempts)
      BY <2>4, <2>5 DEF Open, Settled
    <2> HIDE DEF n, v
    <2> QED BY <1>0, <2>2, <2>3, <2>4, <2>6 DEF IntentsOK, IntentRecord
  <1>6. CASE UNCHANGED intent BY <1>0, <1>6 DEF IntentsOK
  <1> QED BY <1>2, <1>3, <1>4, <1>5, <1>6, Writers

\* The publisher goes through the pass one label after the other.
LEMMA PublisherStep ==
  ASSUME Types, [Next]_vars
  PROVE  PublisherOK'
  <1>0. SubsOK /\ PublisherOK /\ pub \in PublisherRecord BY DEF Types, PublisherOK
  <1>1. ASSUME NEW l \in {"sleep", "read", "due"}, pub' = [Asleep EXCEPT !.pc = l] PROVE PublisherOK'
    BY <1>1, AsleepOK DEF Asleep, PublisherOK, PublisherRecord
  <1>2. CASE UNCHANGED pub BY <1>0, <1>2 DEF PublisherOK
  <1>3. CASE Crash \/ Abandon \/ PublishDone
    BY <1>3, AsleepOK DEF Crash, Abandon, PublishDone, Publisher, PublisherOK, Asleep
  <1>4. CASE Wake \/ CleanupDone BY <1>1, <1>4 DEF Wake, CleanupDone, Publisher
  <1>5. CASE ReadPending
    <2> DEFINE P == {x \in Device : sub[x].state = "pending"}
               C == {<<d, sub[d].ref>> : d \in P}
    <2>1. \A d \in P : sub[d].ref \in Ref BY <1>0 DEF SubsOK, SubRecord
    <2>2. C \subseteq Device \X Ref BY <2>1
    <2>3. pub' = [Asleep EXCEPT !.pc = "delete", !.cleanups = C] BY <1>5 DEF ReadPending, Publisher
    <2> HIDE DEF C
    <2> QED BY <2>2, <2>3 DEF Asleep, PublisherOK, PublisherRecord
  <1>6. ASSUME NEW c \in Device \X Ref, GatewayDeletes(c) \/ DeleteFails(c) PROVE PublisherOK'
    BY <1>0, <1>6 DEF GatewayDeletes, DeleteFails, Publisher, PublisherOK, PublisherRecord
  <1>7. CASE MarkCleaned
    BY <1>0, <1>7 DEF MarkCleaned, Publisher, PublisherOK, PublisherRecord
  <1>8. ASSUME NEW late \in SUBSET Row, NEW early \in SUBSET Row, Due(late, early) PROVE PublisherOK'
    <2>1. OpenRows \ (late \cup early) \subseteq Row BY DEF OpenRows
    <2>2. pub' = Asleep \/ pub' = [Asleep EXCEPT !.pc = "send", !.rows = OpenRows \ (late \cup early)]
      BY <1>8 DEF Due, Publisher
    <2>3. ASSUME NEW R \in SUBSET Row, pub' = [Asleep EXCEPT !.pc = "send", !.rows = R]
          PROVE  PublisherOK'
      BY <2>3 DEF Asleep, PublisherOK, PublisherRecord
    <2>4. CASE pub' = Asleep BY <2>4, AsleepOK DEF Asleep, PublisherOK
    <2> QED BY <2>1, <2>2, <2>3, <2>4
  <1>9. ASSUME NEW i \in Row, NEW l \in {"mark", "drop"}, NEW v \in {"retry", "delivered", "dead"},
               i \in pub.rows, Answered(i, l, v)
        PROVE  PublisherOK'
    BY <1>0, <1>9 DEF Answered, Publisher, PublisherOK, PublisherRecord
  <1>10. ASSUME NEW i \in Row, \/ Accepted(i) \/ UnknownRef(i)
                               \/ \E v \in {"retry", "dead"} : SendFails(i, v)
         PROVE  PublisherOK'
    BY <1>9, <1>10 DEF Accepted, UnknownRef, SendFails
  <1>11. CASE DropSubscription
    BY <1>0, <1>11 DEF DropSubscription, Publisher, PublisherOK, PublisherRecord
  <1>12. CASE MarkDelivery
    BY <1>0, <1>12 DEF MarkDelivery, Publisher, PublisherOK, PublisherRecord
  <1>13. CASE Loop
    BY <1>3, <1>4, <1>5, <1>6, <1>7, <1>8, <1>10, <1>11, <1>12, <1>13 DEF Loop
  <1> QED BY <1>2, <1>3, <1>13, Writers

\* An open intent stays open unless its pass has read it and gets to it, or expires it.
LEMMA StaysOpen ==
  ASSUME Types, [Next]_vars
  PROVE  PassStaysOpen'
  <1>0. /\ IntentsOK /\ intent \in [Row -> IntentRecord] /\ RoutersOK /\ PublisherOK /\ PassStaysOpen
        /\ pub.rows \subseteq Row
    BY DEF Types, IntentsOK, PublisherOK, PublisherRecord
  <1>1. ASSUME NEW late \in SUBSET Row, NEW early \in SUBSET Row, Due(late, early) PROVE PassStaysOpen'
    <2>1. pub' = Asleep \/ pub' = [Asleep EXCEPT !.pc = "send", !.rows = OpenRows \ (late \cup early)]
      BY <1>1 DEF Due, Publisher
    <2>a. \A R : [Asleep EXCEPT !.pc = "send", !.rows = R].rows = R BY DEF Asleep
    <2>2. pub'.rows \subseteq OpenRows \ late BY <2>1, <2>a, AsleepOK
    <2>3. \A i \in OpenRows \ late : intent'[i] = intent[i] /\ intent[i].status \in Open
      BY <1>1 DEF Due, OpenRows
    <2> QED BY <2>2, <2>3 DEF PassStaysOpen
  <1>2. CASE MarkDelivery
    <2>1. PICK i \in Row : i = pub.row
      BY <1>0, <1>2 DEF MarkDelivery, PublisherOK
    <2>2. pub'.rows = pub.rows \ {i}
      BY <1>0, <1>2, <2>1 DEF MarkDelivery, Publisher, PublisherRecord
    <2>3. \A x \in Row \ {i} : intent'[x] = intent[x] BY <1>0, <1>2, <2>1 DEF MarkDelivery
    <2> QED BY <1>0, <2>2, <2>3 DEF PassStaysOpen
  <1>3. ASSUME \A i \in Row : intent[i].status \in Open => intent'[i].status \in Open,
               pub'.rows \subseteq pub.rows
        PROVE  PassStaysOpen'
    BY <1>0, <1>3 DEF PassStaysOpen
  <1>4. ASSUME NEW t \in Router, NEW gone, CreateIntent(t, gone)
        PROVE  \A i \in Row : intent[i].status \in Open => intent'[i].status \in Open
    <2> DEFINE g == router[t].target
               row == <<router[t].event, g[1]>>
               left == [i \in Row |-> IF i \in gone THEN NoIntent ELSE intent[i]]
               new == [status |-> "pending", ref |-> g[2], attempts |-> 0, recent |-> TRUE]
    <2>1. intent' = left \/ intent' = [left EXCEPT ![row] = new] BY <1>4 DEF CreateIntent
    <2>2. \A i \in gone : intent[i].status \in Settled BY <1>4 DEF CreateIntent, Room
    <2>3. \A i \in Row : intent[i].status \in Open => left[i] = intent[i]
      BY <2>2 DEF Open, Settled
    <2>4. new.status \in Open BY DEF Open
    <2> HIDE DEF left, new, row
    <2>5. \A i \in Row : intent'[i] = left[i] \/ intent'[i] = new BY <2>1 DEF left
    <2> QED BY <2>3, <2>4, <2>5
  <1>5. CASE WindowPasses
    <2>1. \A i \in Row : intent'[i] = [intent[i] EXCEPT !.recent = FALSE] BY <1>5 DEF WindowPasses
    <2>2. \A i \in Row : intent'[i].status = intent[i].status BY <1>0, <2>1 DEF IntentRecord
    <2>3. pub' = pub BY <1>5 DEF WindowPasses
    <2> QED BY <1>3, <2>2, <2>3
  <1>6. CASE UNCHANGED intent /\ pub'.rows \subseteq pub.rows BY <1>3, <1>6
  <1>7. CASE Loop /\ ~MarkDelivery /\ \A late, early \in SUBSET Row : ~Due(late, early)
    <2>1. UNCHANGED intent BY <1>7, Writers
      DEF Loop, Wake, ReadPending, MarkCleaned, CleanupDone, DropSubscription, PublishDone,
          GatewayDeletes, DeleteFails, Accepted, UnknownRef, SendFails, Abandon
    <2>2. CASE Wake \/ ReadPending \/ CleanupDone \/ PublishDone \/ Abandon
      <3>1. \A l, C : /\ [Asleep EXCEPT !.pc = l].rows = {}
                     /\ [Asleep EXCEPT !.pc = l, !.cleanups = C].rows = {}
        BY DEF Asleep
      <3>2. pub'.rows = {}
        BY <2>2, <3>1, AsleepOK DEF Wake, ReadPending, CleanupDone, PublishDone, Abandon, Publisher
      <3> QED BY <1>6, <2>1, <3>2
    <2>3. CASE \E c \in Device \X Ref : GatewayDeletes(c) \/ DeleteFails(c)
      <3>1. pub'.rows = pub.rows
        BY <1>0, <2>3 DEF GatewayDeletes, DeleteFails, Publisher, PublisherOK, PublisherRecord
      <3> QED BY <1>6, <2>1, <3>1
    <2>4. CASE MarkCleaned \/ DropSubscription
      <3>1. pub'.rows = pub.rows
        BY <1>0, <2>4 DEF MarkCleaned, DropSubscription, Publisher, PublisherOK, PublisherRecord
      <3> QED BY <1>6, <2>1, <3>1
    <2>5. CASE \E i \in Row : \/ Accepted(i) \/ UnknownRef(i)
                             \/ \E v \in {"retry", "dead"} : SendFails(i, v)
      <3>1. pub'.rows = pub.rows
        BY <1>0, <2>5 DEF Accepted, UnknownRef, SendFails, Answered, Publisher, PublisherOK,
                          PublisherRecord
      <3> QED BY <1>6, <2>1, <3>1
    <2> QED BY <1>7, <2>2, <2>3, <2>4, <2>5 DEF Loop
  <1>8. CASE Crash BY <1>6, <1>8, AsleepOK DEF Crash, Publisher
  <1>9. CASE UNCHANGED pub
    BY <1>1, <1>2, <1>3, <1>4, <1>5, <1>6, <1>9, Writers
  <1> QED BY <1>1, <1>2, <1>7, <1>8, <1>9, Writers

\* Every step keeps the types.
LEMMA TypesNext == Types /\ [Next]_vars => Types'
  BY DevicesStep, SubsStep, IntentsStep, RoutersStep, PublisherStep, StaysOpen DEF Types

-----------------------------------------------------------------------------
(* A cleanup that is complete has been carried out *)

\* Every reference that Core, a device or the publisher knows was handed out, so the next
\* one is new to all of them; and what the publisher is about to mark is deleted.
References ==
    /\ \A d \in Device : /\ sub[d].state # "none" => sub[d].ref <= given
                         /\ putting[d] # None => putting[d] <= given
    /\ \A c \in pub.cleanups : c[2] <= given
    /\ pub.pc = "clean" => pub.cleanup[2] <= given /\ pub.cleanup[2] \notin held

\* At the start there is no reference.
LEMMA ReferencesInit == Init => References /\ CleanedIsGone /\ PendingKeepsDevice
  BY DEF Init, References, CleanedIsGone, PendingKeepsDevice, NoSub, Asleep

\* References are never taken back, and the gateway only learns new ones.
LEMMA GatewayStep ==
  ASSUME Types, [Next]_vars
  PROVE  /\ given <= given'
         /\ \A r \in held' : r \in held \/ r > given
  <1>0. given \in Nat BY Constants DEF Types, DevicesOK
  <1>1. ASSUME NEW d \in Device, NEW r \in Ref, Subscribe(d, r)
        PROVE  given <= given' /\ \A x \in held' : x \in held \/ x > given
    BY <1>0, <1>1 DEF Subscribe
  <1>2. (\A d \in Device, r \in Ref : ~Subscribe(d, r)) => held' \subseteq held /\ given' = given
    BY Writers DEF GatewayLoses, GatewayDeletes, DeleteFails
  <1> QED BY <1>0, <1>1, <1>2

\* How a step may change a subscription.
Kept(d) ==
    \/ sub'[d].state = "none"
    \/ sub[d].state # "none" /\ sub'[d].ref = sub[d].ref /\ sub'[d].state \in {"active", "pending"}
    \/ sub[d].state = "complete" /\ sub'[d] = sub[d]
    \/ putting[d] # None /\ sub'[d] = [state |-> "active", ref |-> putting[d]]
    \/ /\ pub.pc = "clean" /\ pub.cleanup[2] = sub[d].ref /\ sub[d].state = "pending"
       /\ sub'[d].ref = sub[d].ref

\* Every step moves a subscription in an allowed way.
LEMMA SubscriptionStep ==
  ASSUME Types, [Next]_vars, NEW d \in Device
  PROVE  Kept(d)
  <1>0. /\ sub \in [Device -> SubRecord] /\ sub[d] \in SubRecord /\ PublisherOK
        /\ pub \in PublisherRecord
    BY DEF Types, SubsOK, PublisherOK
  <1>1. ASSUME sub'[d] = sub[d] PROVE Kept(d) BY <1>0, <1>1 DEF Kept, SubRecord
  <1>2. ASSUME NEW x \in Device, sub' = [sub EXCEPT ![x].state = IF @ = "active" THEN "pending" ELSE @]
        PROVE  Kept(d)
    <2>1. CASE d # x \/ sub[d].state # "active"
      <3>1. sub'[d] = sub[d] BY <1>0, <1>2, <2>1 DEF SubRecord
      <3> QED BY <1>1, <3>1
    <2>2. CASE d = x /\ sub[d].state = "active" BY <1>0, <1>2, <2>2 DEF Kept, SubRecord
    <2> QED BY <2>1, <2>2
  <1>3. ASSUME NEW x \in Device, RevokeDevice(x) \/ DeleteSubscription(x) PROVE Kept(d)
    BY <1>2, <1>3 DEF RevokeDevice, DeleteSubscription, GiveUp
  <1>4. CASE DropSubscription
    <2>1. pub.row[2] \in Device
      BY <1>0, <1>4 DEF DropSubscription, PublisherOK, PublisherRecord, Row
    <2> QED BY <1>2, <1>4, <2>1 DEF DropSubscription, GiveUp
  <1>5. ASSUME NEW x \in Device, DisableDevice(x) PROVE Kept(d)
    <2>1. sub' = [sub EXCEPT ![x].state = IF @ = "none" THEN @ ELSE "pending"]
      BY <1>5 DEF DisableDevice
    <2>2. CASE d # x \/ sub[d].state = "none"
      <3>1. sub'[d] = sub[d] BY <1>0, <2>1, <2>2 DEF SubRecord
      <3> QED BY <1>1, <3>1
    <2>3. CASE d = x /\ sub[d].state # "none" BY <1>0, <2>1, <2>3 DEF Kept, SubRecord
    <2> QED BY <2>2, <2>3
  <1>6. ASSUME NEW x \in Device, PutSubscription(x) PROVE Kept(d)
    <2>1. sub'[d] = sub[d] \/ (putting[d] # None /\ sub'[d] = [state |-> "active", ref |-> putting[d]])
      BY <1>0, <1>6 DEF PutSubscription
    <2> QED BY <1>1, <2>1 DEF Kept
  <1>7. ASSUME NEW D \in SUBSET Device, NEW S \in SUBSET Device, Prune(D, S) PROVE Kept(d)
    <2>1. sub'[d] = sub[d] \/ sub'[d] = NoSub BY <1>7 DEF Prune
    <2> QED BY <1>1, <2>1 DEF Kept, NoSub
  <1>8. CASE MarkCleaned
    <2>1. PICK x \in Device : x = pub.cleanup[1] BY <1>0, <1>8 DEF MarkCleaned, PublisherOK
    <2>2. \/ sub' = sub
          \/ /\ sub[x].state = "pending" /\ sub[x].ref = pub.cleanup[2]
             /\ sub' = [sub EXCEPT ![x].state = "complete"]
      BY <1>8, <2>1 DEF MarkCleaned
    <2>3. CASE sub'[d] = sub[d] BY <1>1, <2>3
    <2>4. CASE sub'[d] # sub[d] BY <1>0, <1>8, <2>2, <2>4 DEF MarkCleaned, Kept, SubRecord
    <2> QED BY <2>3, <2>4
  <1> QED BY <1>1, <1>3, <1>4, <1>5, <1>6, <1>7, <1>8, Writers

\* What the publisher reads is pending in Core, and what it is about to mark is deleted.
LEMMA CleanupStep ==
  ASSUME Types, References, [Next]_vars
  PROVE  /\ \A c \in pub'.cleanups : c \in Device \X Ref /\ c[2] <= given
         /\ pub'.pc = "clean" => /\ pub'.cleanup \in Device \X Ref /\ pub'.cleanup[2] <= given
                                 /\ pub'.cleanup[2] \notin held'
  <1> USE Constants
  <1> DEFINE Read == \A c \in pub'.cleanups : c \in Device \X Ref /\ c[2] <= given
  <1>0. /\ SubsOK /\ PublisherOK /\ pub \in PublisherRecord /\ pub.cleanups \subseteq Device \X Ref
        /\ given \in Nat
    BY DEF Types, PublisherOK, PublisherRecord, DevicesOK
  <1>1. CASE pub' = pub
    <2>1. Read BY <1>0, <1>1 DEF References
    <2>2. pub.pc = "clean" => pub.cleanup \in Device \X Ref /\ pub.cleanup[2] <= given /\ pub.cleanup[2] \notin held
      BY <1>0 DEF References, PublisherOK
    <2>3. pub.pc = "clean" => pub.cleanup[2] \in Nat BY <2>2 DEF Ref
    <2>4. pub.pc = "clean" => pub.cleanup[2] \notin held' BY <1>0, <2>2, <2>3, GatewayStep
    <2> QED BY <1>1, <2>1, <2>2, <2>4
  <1>2. CASE pub'.cleanups = {} /\ pub'.pc # "clean" BY <1>2
  <1>3. CASE ReadPending
    <2> DEFINE P == {x \in Device : sub[x].state = "pending"}
               C == {<<d, sub[d].ref>> : d \in P}
    <2>1. \A d \in P : sub[d].ref \in Ref /\ sub[d].ref <= given
      BY <1>0 DEF SubsOK, SubRecord, References
    <2>2. \A c \in C : c \in Device \X Ref /\ c[2] <= given BY <2>1
    <2>3. pub' = [Asleep EXCEPT !.pc = "delete", !.cleanups = C] BY <1>3 DEF ReadPending, Publisher
    <2> HIDE DEF C
    <2>4. pub'.cleanups = C /\ pub'.pc = "delete" BY <2>3 DEF Asleep
    <2> QED BY <2>2, <2>4
  <1>4. ASSUME NEW c \in Device \X Ref, GatewayDeletes(c) \/ DeleteFails(c)
        PROVE  /\ Read
               /\ pub'.pc = "clean" => /\ pub'.cleanup \in Device \X Ref /\ pub'.cleanup[2] <= given
                                       /\ pub'.cleanup[2] \notin held'
    <2>1. /\ pub'.cleanups \subseteq pub.cleanups /\ c \in pub.cleanups
          /\ pub'.pc = "clean" => pub'.cleanup = c /\ held' = held \ {c[2]}
      BY <1>0, <1>4 DEF GatewayDeletes, DeleteFails, Publisher, PublisherRecord
    <2> QED BY <1>0, <2>1 DEF References
  <1>5. CASE MarkCleaned \/ DropSubscription \/ MarkDelivery
    <2>1. pub'.cleanups \subseteq pub.cleanups /\ pub'.pc # "clean"
      BY <1>0, <1>5 DEF MarkCleaned, DropSubscription, MarkDelivery, Publisher, PublisherRecord
    <2> QED BY <1>0, <2>1 DEF References
  <1>6. CASE \E i \in Row : \/ Accepted(i) \/ UnknownRef(i)
                           \/ \E v \in {"retry", "dead"} : SendFails(i, v)
    <2>1. pub'.cleanups = pub.cleanups /\ pub'.pc # "clean"
      BY <1>0, <1>6 DEF Accepted, UnknownRef, SendFails, Answered, Publisher, PublisherRecord
    <2> QED BY <1>0, <2>1 DEF References
  <1>7. ASSUME \/ Wake \/ CleanupDone \/ PublishDone \/ Abandon \/ Crash
               \/ \E late, early \in SUBSET Row : Due(late, early)
        PROVE  pub'.cleanups = {} /\ pub'.pc # "clean"
    <2>1. \A R : \A l \in {"read", "due", "send"} :
            /\ [Asleep EXCEPT !.pc = l].cleanups = {} /\ [Asleep EXCEPT !.pc = l].pc = l
            /\ [Asleep EXCEPT !.pc = l, !.rows = R].cleanups = {}
            /\ [Asleep EXCEPT !.pc = l, !.rows = R].pc = l
            /\ Asleep.cleanups = {} /\ Asleep.pc = "sleep"
      BY DEF Asleep
    <2> QED BY <1>7, <2>1 DEF Wake, CleanupDone, PublishDone, Abandon, Crash, Due, Publisher
  <1>8. CASE Loop BY <1>2, <1>3, <1>4, <1>5, <1>6, <1>7, <1>8 DEF Loop
  <1> QED BY <1>1, <1>2, <1>7, <1>8, Writers

\* Every step keeps the references below the next fresh one, and the cleaned ones gone.
LEMMA ReferencesNext ==
  Types /\ References /\ CleanedIsGone /\ [Next]_vars => References' /\ CleanedIsGone'
  <1> SUFFICES ASSUME Types, References, CleanedIsGone, [Next]_vars
               PROVE  References' /\ CleanedIsGone'
    OBVIOUS
  <1> USE Constants
  <1>0. /\ given \in Nat /\ given' \in Nat /\ given <= given'
        /\ \A r \in held' : r \in held \/ r > given
    BY DevicesStep, GatewayStep DEF Types, DevicesOK
  <1>1. ASSUME NEW d \in Device
        PROVE  /\ sub'[d].state # "none" => sub'[d].ref <= given /\ sub'[d].ref \in Nat
               /\ sub'[d].state = "complete" => sub'[d].ref \notin held'
    <2>1. Kept(d) BY SubscriptionStep
    <2>2. SubsOK' /\ sub'[d] \in SubRecord BY SubsStep DEF SubsOK
    <2>3. sub'[d].state # "none" => sub'[d].ref \in Nat BY <2>2 DEF SubsOK, SubRecord, Ref
    <2>4. sub'[d].state # "none" => sub'[d].ref <= given BY <2>1 DEF Kept, References
    <2>5. sub'[d].state = "complete" => sub'[d].ref \notin held
      BY <2>1 DEF Kept, References, CleanedIsGone
    <2> QED BY <1>0, <2>3, <2>4, <2>5
  <1>2. ASSUME NEW d \in Device, putting'[d] # None PROVE putting'[d] <= given'
    <2>0. putting \in [Device -> Ref \cup {None}] BY DEF Types, DevicesOK
    <2>1. putting'[d] = putting[d] \/ putting'[d] = given' \/ putting'[d] = None
      BY <2>0, Writers DEF Subscribe, PutSubscription, Crash
    <2>2. CASE putting'[d] = putting[d]
      <3>1. putting[d] \in Nat BY <1>2, <2>0, <2>2 DEF Ref
      <3> QED BY <1>0, <1>2, <2>2, <3>1 DEF References
    <2> QED BY <1>0, <1>2, <2>1, <2>2
  <1>3. /\ \A c \in pub'.cleanups : c[2] <= given'
        /\ pub'.pc = "clean" => pub'.cleanup[2] <= given' /\ pub'.cleanup[2] \notin held'
    <2>1. \A c \in Device \X Ref : c[2] \in Nat BY DEF Ref
    <2> QED BY <1>0, <2>1, CleanupStep
  <1>4. \A d \in Device : sub'[d].state # "none" => sub'[d].ref <= given' BY <1>0, <1>1
  <1> QED BY <1>1, <1>2, <1>3, <1>4 DEF References, CleanedIsGone

-----------------------------------------------------------------------------
(* A device with a pending cleanup is kept *)

\* Only a device that can still log in has a subscription in use, so giving one up never
\* leaves a cleanup without its device.
Owned ==
    \A d \in Device : sub[d].state = "active" => device[d] \in {"active", "disabled"}

\* Every step keeps the owner of an active subscription, and of one that is to be cleaned up.
LEMMA OwnedNext ==
  Types /\ Owned /\ PendingKeepsDevice /\ [Next]_vars => Owned' /\ PendingKeepsDevice'
  <1> SUFFICES ASSUME Types, Owned, PendingKeepsDevice, [Next]_vars, NEW d \in Device
               PROVE  /\ sub'[d].state = "active" => device'[d] \in {"active", "disabled"}
                      /\ sub'[d].state = "pending" => device'[d] # "none"
    BY DEF Owned, PendingKeepsDevice
  <1> DEFINE Good == /\ sub'[d].state = "active" => device'[d] \in {"active", "disabled"}
                     /\ sub'[d].state = "pending" => device'[d] # "none"
  <1>0. /\ sub \in [Device -> SubRecord] /\ sub[d] \in SubRecord /\ PublisherOK
        /\ device \in [Device -> {"active", "disabled", "revoked", "none"}]
        /\ sub[d].state = "active" => device[d] \in {"active", "disabled"}
        /\ sub[d].state = "pending" => device[d] # "none"
    BY DEF Types, SubsOK, DevicesOK, Owned, PendingKeepsDevice
  <1>1. CASE device'[d] = device[d] /\ sub'[d] = sub[d] BY <1>0, <1>1
  <1>2. ASSUME NEW x \in Device, sub' = [sub EXCEPT ![x].state = IF @ = "active" THEN "pending" ELSE @]
        PROVE  sub'[d] = sub[d] \/ (d = x /\ sub[d].state = "active" /\ sub'[d].state = "pending")
    BY <1>0, <1>2 DEF SubRecord
  <1>3. ASSUME NEW x \in Device, RevokeDevice(x) PROVE Good
    <2>1. CASE d = x
      <3>1. sub'[d].state # "active" /\ device'[d] = "revoked"
        BY <1>0, <1>3, <2>1 DEF RevokeDevice, SubRecord
      <3> QED BY <3>1
    <2>2. CASE d # x BY <1>0, <1>1, <1>3, <2>2 DEF RevokeDevice
    <2> QED BY <2>1, <2>2
  <1>4. ASSUME NEW x \in Device, DisableDevice(x) PROVE Good
    <2>1. CASE d = x BY <1>0, <1>4, <2>1 DEF DisableDevice
    <2>2. CASE d # x BY <1>0, <1>1, <1>4, <2>2 DEF DisableDevice
    <2> QED BY <2>1, <2>2
  <1>5. ASSUME NEW x \in Device, EnableDevice(x) PROVE Good
    BY <1>0, <1>5 DEF EnableDevice
  <1>6. ASSUME NEW x \in Device, PutSubscription(x) PROVE Good
    BY <1>0, <1>6 DEF PutSubscription
  <1>7. ASSUME NEW x \in Device, DeleteSubscription(x) PROVE Good
    BY <1>0, <1>2, <1>7 DEF DeleteSubscription, GiveUp
  <1>8. ASSUME NEW D \in SUBSET Device, NEW S \in SUBSET Device, Prune(D, S) PROVE Good
    <2>1. /\ sub'[d] = sub[d] \/ sub'[d] = NoSub
          /\ device'[d] = device[d] \/ (device[d] = "revoked" /\ sub[d].state # "pending")
      BY <1>8 DEF Prune
    <2> QED BY <1>0, <2>1 DEF NoSub
  <1>9. CASE MarkCleaned
    <2>1. device' = device /\ pub.cleanup[1] \in Device BY <1>0, <1>9 DEF MarkCleaned, PublisherOK
    <2>2. sub'[d] = sub[d] \/ sub'[d].state = "complete"
      BY <1>0, <1>9, <2>1 DEF MarkCleaned, SubRecord
    <2> QED BY <1>0, <2>1, <2>2
  <1>10. CASE DropSubscription
    <2>1. device' = device /\ pub.row[2] \in Device
      BY <1>0, <1>10 DEF DropSubscription, PublisherOK, PublisherRecord, Row
    <2> QED BY <1>0, <1>2, <1>10, <2>1 DEF DropSubscription, GiveUp
  <1>11. CASE UNCHANGED <<device, sub>> BY <1>1, <1>11
  <1> QED BY <1>3, <1>4, <1>5, <1>6, <1>7, <1>8, <1>9, <1>10, <1>11, Writers
      DEF RevokeDevice, DisableDevice, EnableDevice

-----------------------------------------------------------------------------
(* The rate limit *)

\* The ordinary intents of a device in the window, and the routers that are about to
\* create one more.
Ordinary(d) == {i \in Recent(d) : i[1] \notin Critical}
Creating(d) == {t \in Router : /\ router[t].pc = "create" /\ router[t].target[1] = d
                               /\ router[t].event \notin Critical}

\* What is created and what is about to be: a creation moves one from the second to the
\* first, and a router only joins the second while the first is below the limit.
Rate ==
    \A d \in Device : Cardinality(Ordinary(d)) + Cardinality(Creating(d))
                         <= RateLimit + Cardinality(Router) - 1

\* The sets that are counted are finite, and ordered by inclusion.
LEMMA RateFinite ==
  ASSUME NEW d
  PROVE  /\ IsFiniteSet(Recent(d)) /\ IsFiniteSet(Ordinary(d)) /\ IsFiniteSet(Creating(d))
         /\ Cardinality(Ordinary(d)) \in Nat /\ Cardinality(Creating(d)) \in Nat
         /\ Cardinality(Recent(d)) \in Nat
         /\ Cardinality(Router) \in Nat
         /\ Cardinality(Ordinary(d)) <= Cardinality(Recent(d))
         /\ Cardinality(Creating(d)) <= Cardinality(Router)
  <1>1. Recent(d) \subseteq Row /\ Ordinary(d) \subseteq Recent(d) /\ Creating(d) \subseteq Router
    BY DEF Recent, Ordinary, Creating
  <1>2. IsFiniteSet(Row) BY Constants, FS_Product DEF Row
  <1>3. IsFiniteSet(Router) BY Constants
  <1>4. IsFiniteSet(Recent(d)) BY <1>1, <1>2, FS_Subset
  <1> QED BY <1>1, <1>3, <1>4, FS_Subset, FS_CardinalityType

\* The sets after the step are finite as well.
LEMMA RateFiniteNext ==
  ASSUME NEW d
  PROVE  /\ IsFiniteSet(Ordinary(d)') /\ IsFiniteSet(Creating(d)')
         /\ Cardinality(Ordinary(d)') \in Nat /\ Cardinality(Creating(d)') \in Nat
         /\ Cardinality(Creating(d)') <= Cardinality(Router)
  <1>1. Ordinary(d)' \subseteq Row /\ Creating(d)' \subseteq Router
    BY DEF Recent, Ordinary, Creating
  <1>2. IsFiniteSet(Row) BY Constants, FS_Product DEF Row
  <1>3. IsFiniteSet(Router) BY Constants
  <1> QED BY <1>1, <1>2, <1>3, FS_Subset, FS_CardinalityType

\* Neither set grows.
LEMMA RateShrinks ==
  ASSUME Rate, NEW d \in Device, Ordinary(d)' \subseteq Ordinary(d), Creating(d)' \subseteq Creating(d)
  PROVE  Cardinality(Ordinary(d)') + Cardinality(Creating(d)') <= RateLimit + Cardinality(Router) - 1
  <1>1. Cardinality(Ordinary(d)') <= Cardinality(Ordinary(d)) BY RateFinite, FS_Subset
  <1>2. Cardinality(Creating(d)') <= Cardinality(Creating(d)) BY RateFinite, FS_Subset
  <1>3. Cardinality(Ordinary(d)) + Cardinality(Creating(d)) <= RateLimit + Cardinality(Router) - 1
    BY DEF Rate
  <1> QED BY <1>1, <1>2, <1>3, RateFinite, RateFiniteNext, Constants

\* Nothing is counted at the start.
LEMMA RateInit == Init => Rate
  <1> SUFFICES ASSUME Init, NEW d \in Device
               PROVE  Cardinality(Ordinary(d)) + Cardinality(Creating(d))
                        <= RateLimit + Cardinality(Router) - 1
    BY DEF Rate
  <1>1. Ordinary(d) = {} BY DEF Init, Ordinary, Recent, NoIntent
  <1>2. Creating(d) = {} BY DEF Init, Creating, IdleRouter
  <1> QED BY <1>1, <1>2, RateFinite, FS_EmptySet, Constants

\* A router that passes the count joins those that are about to create.
LEMMA RateCount ==
  ASSUME Types, Rate, NEW t \in Router, RecentCount(t), NEW d \in Device
  PROVE  Cardinality(Ordinary(d)') + Cardinality(Creating(d)') <= RateLimit + Cardinality(Router) - 1
  <1>0. router \in [Router -> RouterRecord] /\ Routing(router[t]) BY DEF Types, RoutersOK
  <1>1. Ordinary(d)' = Ordinary(d) BY DEF RecentCount, Ordinary, Recent
  <1>2. CASE Creating(d)' \subseteq Creating(d) BY <1>1, <1>2, RateShrinks
  <1>3. CASE ~(Creating(d)' \subseteq Creating(d))
    <2>1. PICK x \in Router : x \in Creating(d)' /\ x \notin Creating(d)
      BY <1>3 DEF Creating
    <2>2. x = t BY <1>0, <2>1 DEF RecentCount, Skip, Creating
    <2>3. /\ router'[t].pc = "create" /\ router'[t].target[1] = d /\ router'[t].event \notin Critical
      BY <2>1, <2>2 DEF Creating
    <2>4. router' = [router EXCEPT ![t].pc = "create"] /\ (WithinRate(t) \/ router[t].event \in Critical)
      <3>1. CASE Skip(t, router[t].target) BY <1>0, <2>3, <3>1 DEF Skip, Routing, RouterRecord
      <3> QED BY <3>1 DEF RecentCount
    <2>5. router'[t].target = router[t].target /\ router'[t].event = router[t].event
      BY <1>0, <2>4 DEF Routing, RouterRecord
    <2>6. Cardinality(Recent(d)) < RateLimit BY <2>3, <2>4, <2>5 DEF WithinRate
    <2> QED BY <1>1, <2>6, RateFinite, RateFiniteNext, Constants
  <1> QED BY <1>2, <1>3

\* A creation moves the router's intent from those to come to those there are.
LEMMA RateCreate ==
  ASSUME Types, Rate, NEW t \in Router, NEW gone, CreateIntent(t, gone), NEW d \in Device
  PROVE  Cardinality(Ordinary(d)') + Cardinality(Creating(d)') <= RateLimit + Cardinality(Router) - 1
  <1>0. router \in [Router -> RouterRecord] /\ Routing(router[t]) /\ router[t].pc = "create"
    BY DEF Types, RoutersOK, CreateIntent
  <1> DEFINE g == router[t].target
             row == <<router[t].event, g[1]>>
             left == [i \in Row |-> IF i \in gone THEN NoIntent ELSE intent[i]]
             new == [status |-> "pending", ref |-> g[2], attempts |-> 0, recent |-> TRUE]
  <1>1. intent' = left \/ intent' = [left EXCEPT ![row] = new] BY DEF CreateIntent
  <1>2. \A i \in Row : left[i] = NoIntent \/ left[i] = intent[i] OBVIOUS
  <1>3. NoIntent.status = "none" BY DEF NoIntent
  <1>4. g \in Device \X Ref /\ row \in Row BY <1>0 DEF Routing, Row
  <1>5. router'[t].pc = "target" /\ \A x \in Router : x # t => router'[x] = router[x]
    BY <1>0 DEF CreateIntent, Skip, Routing, RouterRecord
  <1>6. Creating(d)' \subseteq Creating(d) \ {t} BY <1>5 DEF Creating
  <1>7. \A i \in Row : i # row => intent'[i] = left[i] BY <1>1
  <1>11. row[1] = router[t].event /\ row[2] = g[1] OBVIOUS
  <1> HIDE DEF left, new, row
  <1>8. Ordinary(d)' \subseteq Ordinary(d) \cup {row} BY <1>2, <1>3, <1>7 DEF Ordinary, Recent
  <1>9. CASE row \notin Ordinary(d)'
    <2>1. Ordinary(d)' \subseteq Ordinary(d) /\ Creating(d)' \subseteq Creating(d)
      BY <1>6, <1>8, <1>9
    <2> QED BY <2>1, RateShrinks
  <1>10. CASE row \in Ordinary(d)'
    <2>1. router[t].event \notin Critical /\ g[1] = d BY <1>10, <1>11 DEF Ordinary, Recent
    <2>2. t \in Creating(d) BY <1>0, <2>1 DEF Creating
    <2>3. Cardinality(Creating(d) \ {t}) = Cardinality(Creating(d)) - 1
          /\ IsFiniteSet(Creating(d) \ {t})
      BY <2>2, RateFinite, FS_RemoveElement
    <2>4. Cardinality(Creating(d)') <= Cardinality(Creating(d)) - 1
      BY <1>6, <2>3, FS_Subset
    <2>5. Cardinality(Ordinary(d) \cup {row}) <= Cardinality(Ordinary(d)) + 1
          /\ IsFiniteSet(Ordinary(d) \cup {row})
          /\ Cardinality(Ordinary(d) \cup {row}) \in Nat
      <3>1. IsFiniteSet(Ordinary(d)) /\ Cardinality(Ordinary(d)) \in Nat BY RateFinite
      <3>2. IsFiniteSet(Ordinary(d) \cup {row})
            /\ Cardinality(Ordinary(d) \cup {row}) = IF row \in Ordinary(d) THEN Cardinality(Ordinary(d))
                                                    ELSE Cardinality(Ordinary(d)) + 1
        BY <3>1, FS_AddElement
      <3> QED BY <3>1, <3>2
    <2>6. Cardinality(Ordinary(d)') <= Cardinality(Ordinary(d) \cup {row}) BY <1>8, <2>5, FS_Subset
    <2>7. Cardinality(Ordinary(d)) + Cardinality(Creating(d)) <= RateLimit + Cardinality(Router) - 1
      BY DEF Rate
    <2> QED BY <2>4, <2>5, <2>6, <2>7, RateFinite, RateFiniteNext, Constants
  <1> QED BY <1>9, <1>10

\* Every step keeps the count of intents and of routers about to create one within the limit.
LEMMA RateNext == Types /\ Rate /\ [Next]_vars => Rate'
  <1> SUFFICES ASSUME Types, Rate, [Next]_vars, NEW d \in Device
               PROVE  Cardinality(Ordinary(d)') + Cardinality(Creating(d)')
                        <= RateLimit + Cardinality(Router) - 1
    BY DEF Rate
  <1>0. /\ intent \in [Row -> IntentRecord] /\ router \in [Router -> RouterRecord]
        /\ RoutersOK /\ PublisherOK
    BY DEF Types, IntentsOK, RoutersOK
  <1>1. ASSUME NEW t \in Router,
               \/ \E gone \in {{}} \cup {{i} : i \in Row} : CreateIntent(t, gone)
               \/ RecentCount(t)
        PROVE  Cardinality(Ordinary(d)') + Cardinality(Creating(d)')
                 <= RateLimit + Cardinality(Router) - 1
    BY <1>1, RateCreate, RateCount
  <1>2. ASSUME ~\E t \in Router :
                  \/ \E gone \in {{}} \cup {{i} : i \in Row} : CreateIntent(t, gone)
                  \/ RecentCount(t)
        PROVE  Ordinary(d)' \subseteq Ordinary(d) /\ Creating(d)' \subseteq Creating(d)
    <2>1. \A i \in Row : intent'[i].status # "none" /\ intent'[i].recent
                         => intent[i].status # "none" /\ intent[i].recent
      <3>1. CASE UNCHANGED intent BY <3>1
      <3>2. CASE WindowPasses
        <4>1. \A i \in Row : intent'[i] = [intent[i] EXCEPT !.recent = FALSE]
          BY <3>2 DEF WindowPasses
        <4> QED BY <1>0, <4>1 DEF IntentRecord
      <3>3. CASE MarkDelivery
        <4>1. PICK i \in Row : i = pub.row /\ intent[i].status \in Open
          BY <1>0, <3>3 DEF MarkDelivery, PublisherOK, PublisherRecord, Types, PassStaysOpen
        <4>2. intent'[i].recent = intent[i].recent /\ \A x \in Row \ {i} : intent'[x] = intent[x]
          BY <1>0, <3>3, <4>1 DEF MarkDelivery, IntentRecord
        <4> QED BY <4>1, <4>2 DEF Open
      <3>4. ASSUME NEW late \in SUBSET Row, NEW early \in SUBSET Row, Due(late, early)
            PROVE  \A i \in Row : intent'[i].status # "none" /\ intent'[i].recent
                                 => intent[i].status # "none" /\ intent[i].recent
        <4>1. \A i \in Row : intent'[i] = IF i \in late THEN [intent[i] EXCEPT !.status = "expired"]
                                                      ELSE intent[i]
          BY <3>4 DEF Due
        <4>2. \A i \in late : intent[i].status \in Open BY <3>4 DEF Due, OpenRows
        <4> QED BY <1>0, <4>1, <4>2 DEF IntentRecord, Open
      <3> QED BY <1>2, <3>1, <3>2, <3>3, <3>4, Writers
    <2>2. \A t \in Router : router'[t].pc = "create" => router'[t] = router[t]
      <3>1. CASE Crash BY <3>1 DEF Crash, IdleRouter
      <3>2. CASE Route
        <4>1. ASSUME NEW t \in Router, NEW r, r.pc # "create", router' = [router EXCEPT ![t] = r]
              PROVE  \A x \in Router : router'[x].pc = "create" => router'[x] = router[x]
          BY <1>0, <4>1
        <4>2. ASSUME NEW t \in Router, NEW x \in Event, Receive(t, x)
              PROVE  \E r : r.pc # "create" /\ router' = [router EXCEPT ![t] = r]
          <5> DEFINE T == {y \in Device : device[y] = "active" /\ sub[y].state = "active"}
                     r == [pc |-> "target", event |-> x, target |-> None,
                           todo |-> {<<y, sub[y].ref>> : y \in T}]
          <5>1. r.pc = "target" OBVIOUS
          <5>2. router' = [router EXCEPT ![t] = r] BY <4>2 DEF Receive
          <5> HIDE DEF r
          <5> QED BY <5>1, <5>2
        <4>3. ASSUME NEW t \in Router, NEW g, Suppress(t, g)
              PROVE  \E r : r.pc # "create" /\ router' = [router EXCEPT ![t] = r]
          <5> DEFINE r == [router[t] EXCEPT !.pc = "target", !.target = None, !.todo = @ \ {g}]
          <5>1. r.pc = "target" BY <1>0 DEF RouterRecord
          <5>2. router' = [router EXCEPT ![t] = r] BY <1>0, <4>3 DEF Suppress, Skip
          <5> HIDE DEF r
          <5> QED BY <5>1, <5>2
        <4>4. ASSUME NEW t \in Router, NEW g, HasEvent(t, g)
              PROVE  \E r : r.pc # "create" /\ router' = [router EXCEPT ![t] = r]
          <5> DEFINE r == [router[t] EXCEPT !.pc = "count", !.target = g]
          <5>1. r.pc = "count" BY <1>0 DEF RouterRecord
          <5>2. router' = [router EXCEPT ![t] = r] BY <1>0, <4>4 DEF HasEvent
          <5> HIDE DEF r
          <5> QED BY <5>1, <5>2
        <4>5. ASSUME NEW t \in Router, Routed(t)
              PROVE  \E r : r.pc # "create" /\ router' = [router EXCEPT ![t] = r]
          BY <4>5, IdleRouting DEF Routed
        <4> QED BY <1>2, <3>2, <4>1, <4>2, <4>3, <4>4, <4>5 DEF Route
      <3> QED BY <3>1, <3>2, Writers
    <2>3. Ordinary(d)' \subseteq Ordinary(d) BY <2>1 DEF Ordinary, Recent
    <2>4. Creating(d)' \subseteq Creating(d) BY <2>2 DEF Creating
    <2> QED BY <2>3, <2>4
  <1> QED BY <1>1, <1>2, RateShrinks

-----------------------------------------------------------------------------
(* Theorems *)

\* The types hold in every state.
LEMMA AllTypes == Spec => []Types
  BY TypesInit, TypesNext, PTL DEF Spec

\* Every variable has its type in every reachable state: a row of the subscription store
\* has a reference, and mark_delivery never counts an attempt beyond the last.
THEOREM PushTypes == Spec => []TypeOK
  BY AllTypes, TypesSuffice, PTL

\* The intents that a pass of the publisher has read stay open until the pass gets to them,
\* though routers make room in the store meanwhile.
THEOREM PassTheorem == Spec => []PassStaysOpen
  BY AllTypes, TypesSuffice, PTL

\* A subscription whose cleanup Core has marked complete is gone at the gateway, though the
\* device may have subscribed again while an earlier deletion was under way.
THEOREM CleanedTheorem == Spec => []CleanedIsGone
  BY AllTypes, ReferencesInit, ReferencesNext, PTL DEF Spec

\* Retention never removes a device whose subscription is still to be deleted at the gateway.
THEOREM PendingTheorem == Spec => []PendingKeepsDevice
  <1>1. Init => Owned BY DEF Init, Owned
  <1> QED BY <1>1, AllTypes, ReferencesInit, OwnedNext, PTL DEF Spec

\* The rate limit of a device is exceeded by at most one intent per router that has read
\* the count and not created its intent yet.
THEOREM RateTheorem == Spec => []RateHeld
  <1>1. Rate => RateHeld
    <2> SUFFICES ASSUME Rate, NEW d \in Device
                 PROVE  Cardinality({i \in Recent(d) : i[1] \notin Critical})
                          <= RateLimit + Cardinality(Router) - 1
      BY DEF RateHeld
    <2>1. Cardinality(Ordinary(d)) + Cardinality(Creating(d)) <= RateLimit + Cardinality(Router) - 1
      BY DEF Rate
    <2>2. Cardinality(Ordinary(d)) <= RateLimit + Cardinality(Router) - 1
      BY <2>1, RateFinite, Constants
    <2> QED BY <2>2 DEF Ordinary
  <1> QED BY <1>1, AllTypes, RateInit, RateNext, PTL DEF Spec

===============================================================================
