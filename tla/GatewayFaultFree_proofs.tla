---------------------- MODULE GatewayFaultFree_proofs ----------------------
(***************************************************************************)
(* Proofs about Gateway while nothing fails: what a key, a 202, a replay   *)
(* and a shutdown promise as long as no call errs, no timeout fires and no *)
(* process crashes. Shutdowns and restarts in time are no faults.          *)
(***************************************************************************)
EXTENDS Gateway_proofs

-----------------------------------------------------------------------------
(* The invariant *)

\* No message was lost.
NoLoss == \A i \in DOMAIN msgs : msgs[i].st # "err"

\* Where main has waited for handlers there are none.
Draining ==
    /\ phase \in {"grpc", "flush", "down"} => Drained("rest")
    /\ phase \in {"flush", "down"} => Drained("grpc")

\* An event with key k is in the topic.
Published(k) == \E i \in DOMAIN msgs : msgs[i].key = k /\ InLog(i)

\* Request r has won its key and has not been answered.
Carrying(r) == Active(r) /\ req[r].pc # "check" /\ Keyed(r)

\* Every key in Redis has its event in the topic or on its way there.
KeysServed == \A k \in keys : Published(k) \/ \E r \in Requests : Carrying(r) /\ KeyOf(r) = k

\* Where on its way it is.
HandOK(r) ==
    /\ req[r].pc = "check" => req[r].todo # {}
    /\ Carrying(r) =>
         \/ req[r].pc = "send" /\ req[r].todo # {}
         \/ req[r].pc = "wait" /\ msgs[req[r].cur].key = KeyOf(r)
         \/ Published(KeyOf(r))

\* A range replay finds event i, or another one with its key; or no row can hold it.
Stored(i) ==
    \/ i \in rows
    \/ msgs[i].key # NoKey /\ \E j \in rows : msgs[j].key = msgs[i].key
    \/ msgs[i].bare

\* The events a handler has been through are stored, and so are those it answered.
StoreOK(r) == req[r].pc = "store" => \A i \in req[r].out \ req[r].left : Stored(i)

AckedStored == \A i \in acked : Stored(i)

CalmInv ==
    /\ NoLoss /\ Draining /\ KeysServed /\ AckedStored
    /\ \A r \in Requests : HandOK(r) /\ StoreOK(r)

\* Request r is a replay of the DLQ at work.
Replaying(r) == Active(r) /\ req[r].shape.kind = "dlq"

Solo == \A r, q \in Requests : Replaying(r) /\ Replaying(q) => r = q

\* A row that was published again is marked, or will be by the replay at work.
Marks ==
    \A i \in DOMAIN msgs : msgs[i].kind = "dlq" =>
        /\ msgs[i].ref \in DOMAIN dlq
        /\ \/ dlq[msgs[i].ref] = TRUE
           \/ \E r \in Requests :
                Replaying(r) /\ req[r].pc \in {"wait", "mark"} /\ req[r].cur = i

\* What a replay has still to publish was not published before.
Untouched(r) ==
    Replaying(r) =>
        /\ \A x, y \in req[r].todo : x.ref = y.ref => x = y
        /\ \A x \in req[r].todo, i \in DOMAIN msgs : msgs[i].kind = "dlq" => msgs[i].ref # x.ref

Once ==
    \A i, j \in DOMAIN msgs :
        msgs[i].kind = "dlq" /\ msgs[j].kind = "dlq" /\ msgs[i].ref = msgs[j].ref => i = j

SoloInv == Solo /\ Marks /\ Once /\ \A r \in Requests : Untouched(r)

\* The inductive invariant.
FaultFreeInvariant ==
    /\ faults = 0 => CalmInv
    /\ faults = 0 /\ ~overlapped => SoloInv

-----------------------------------------------------------------------------
(* The steps that are no fault *)

\* The handler of r moves; the others and the topic are left alone.
Kept(r) ==
    /\ \A q \in Requests : q # r => req'[q] = req[q]
    /\ phase' = phase /\ overlapped' = overlapped /\ log' = log

\* What a handler does not change when it goes on.
Goes(r, pc) == req'[r].pc = pc /\ req'[r].shape = req[r].shape

\* The handler of r checks its key, lists rows or returns; no message, no row.
CheckEffect(r) ==
    /\ req[r].pc = "check" /\ msgs' = msgs /\ dlq' = dlq /\ rows' = rows /\ acked' = acked
    /\ \/ req'[r] = Done /\ keys' = keys
       \/ Goes(r, "send") /\ req'[r].todo = req[r].todo /\ keys' = keys \cup {KeyOf(r)}

ListEffect(r) ==
    /\ req[r].pc = "list" /\ Goes(r, "send") /\ req'[r].todo = Listed(req[r].shape)
    /\ msgs' = msgs /\ dlq' = dlq /\ rows' = rows /\ acked' = acked /\ keys' = keys

ProduceEffect(r) ==
    /\ req[r].pc = "send" /\ Goes(r, "wait")
    /\ req'[r].cur = Len(msgs) + 1
    /\ dlq' = dlq /\ rows' = rows /\ acked' = acked /\ keys' = keys
    /\ \E it \in req[r].todo :
         /\ req'[r].todo = req[r].todo \ {it}
         /\ \E m \in Msg : /\ m.key = it.key /\ m.kind = req[r].shape.kind /\ m.ref = it.ref
                           /\ m.st = "queued" /\ msgs' = Append(msgs, m)

DeliveredEffect(r) ==
    /\ req[r].pc = "wait" /\ Goes(r, AfterDelivery(req[r].shape.kind))
    /\ InLog(req[r].cur) /\ req'[r].todo = req[r].todo /\ req'[r].cur = req[r].cur
    /\ msgs' = msgs /\ dlq' = dlq /\ rows' = rows /\ acked' = acked /\ keys' = keys

MarkEffect(r) ==
    /\ req[r].pc = "mark" /\ Goes(r, "send") /\ req'[r].todo = req[r].todo
    /\ dlq' = [dlq EXCEPT ![msgs[req[r].cur].ref] = TRUE]
    /\ msgs' = msgs /\ rows' = rows /\ acked' = acked /\ keys' = keys

LoopEffect(r) ==
    /\ req[r].pc = "send" /\ req[r].todo = {}
    /\ \/ req[r].shape.kind \in {"dlq", "range"} /\ req'[r] = Done
       \/ /\ req[r].shape.kind \notin {"dlq", "range"}
          /\ Goes(r, "store") /\ req'[r].left = req'[r].out
    /\ msgs' = msgs /\ dlq' = dlq /\ rows' = rows /\ acked' = acked /\ keys' = keys

StoreEffect(r) ==
    /\ req[r].pc = "store" /\ Goes(r, "store") /\ req'[r].out = req[r].out
    /\ \E i \in req[r].left : /\ req'[r].left = req[r].left \ {i}
                              /\ rows' = IF Conflicts(i) \/ msgs[i].bare THEN rows ELSE rows \cup {i}
    /\ msgs' = msgs /\ dlq' = dlq /\ acked' = acked /\ keys' = keys

AcceptEffect(r) ==
    /\ req[r].pc = "store" /\ req[r].left = {} /\ req'[r] = Done
    /\ acked' = acked \cup req[r].out
    /\ msgs' = msgs /\ dlq' = dlq /\ rows' = rows /\ keys' = keys

\* A client closes its stream.
EndEffect(r) ==
    /\ req[r].pc = "hold" /\ req'[r] = Done
    /\ msgs' = msgs /\ dlq' = dlq /\ rows' = rows /\ acked' = acked /\ keys' = keys

Effect(r) ==
    \/ CheckEffect(r) \/ ListEffect(r) \/ ProduceEffect(r) \/ DeliveredEffect(r)
    \/ MarkEffect(r) \/ LoopEffect(r) \/ StoreEffect(r) \/ AcceptEffect(r) \/ EndEffect(r)

\* No fault is counted.
LEMMA Faultless ==
    ASSUME TypeCore, faults' = 0
    PROVE  ~Fault /\ ~TimedOut
  BY DEF TypeCore, Fault, TimedOut

\* While nothing fails, a statement of a handler has one of these effects.
LEMMA CleanHandler ==
    ASSUME BaseInv, NoLoss, NEW r \in Requests, Moves(r), faults' = 0
    PROVE  Kept(r) /\ Effect(r)
  <1>b. TypeCore /\ ReportsTrue /\ HandlerInv(r)
    BY DEF BaseInv
  <1>h. req \in [Requests -> Handler] /\ req[r] \in Handler /\ req[r].todo \subseteq Item
        /\ req[r].left \subseteq Nat /\ req[r].shape \in Shapes
    BY <1>b DEF TypeCore, Handler
  <1>f. ~Fault /\ ~TimedOut
    BY <1>b, Faultless
  <1>k. Kept(r)
    <2>1. \A q \in Requests : q # r => req'[q] = req[q]
      BY <1>b, OthersAlone
    <2>2. phase' = phase /\ overlapped' = overlapped /\ log' = log
      BY DEF Moves, HandlerStep, CheckIdempotency, CheckIdempotencyError, Replay, Produce, CallError,
        Delivered, Undelivered, GiveUp, EndStream, MarkDLQReplayed, LoopDone, StoreEvent, Accept, kafka
    <2> QED
      BY <2>1, <2>2 DEF Kept
  <1>goto. ASSUME NEW p \in PC, Goto(r, p)
           PROVE  Goes(r, p) /\ req'[r].todo = req[r].todo
    BY <1>goto, <1>h DEF Goto, Goes, Handler
  <1>ret. ASSUME Return(r) PROVE req'[r] = Done
    BY <1>ret, <1>h DEF Return
  <1>pc. "send" \in PC
    BY DEF PC
  <1>1. CASE CheckIdempotency(r)
    <2>1. req[r].pc = "check" /\ msgs' = msgs /\ dlq' = dlq /\ rows' = rows /\ acked' = acked
      BY <1>1 DEF CheckIdempotency, kafka, pg
    <2>2. \/ Return(r) /\ keys' = keys
          \/ Goto(r, "send") /\ keys' = keys \cup {KeyOf(r)}
      BY <1>1 DEF CheckIdempotency
    <2>3. CheckEffect(r)
      BY <2>1, <2>2, <1>goto, <1>ret, <1>pc DEF CheckEffect
    <2> QED
      BY <1>k, <2>3 DEF Effect
  <1>2. CASE Replay(r)
    <2>1. /\ req[r].pc = "list"
          /\ msgs' = msgs /\ dlq' = dlq /\ rows' = rows /\ acked' = acked /\ keys' = keys
      BY <1>2 DEF Replay, kafka, pg, redis
    <2>2. req'[r].pc = "send" /\ req'[r].shape = req[r].shape /\ req'[r].todo = Listed(req[r].shape)
      BY <1>2, <1>h DEF Replay, Handler
    <2>3. ListEffect(r)
      BY <2>1, <2>2 DEF ListEffect, Goes
    <2> QED
      BY <1>k, <2>3 DEF Effect
  <1>3. CASE Produce(r)
    <2>1. PICK it \in req[r].todo : it = NextItem(r)
      BY <1>3, <1>h, NextItemIn DEF Produce
    <2> DEFINE m == [key |-> it.key, bare |-> req[r].shape.bare, kind |-> req[r].shape.kind,
                     ref |-> it.ref, by |-> r, st |-> "queued",
                     gen |-> IF it.key = NoKey THEN 0 ELSE gen[it.key]]
    <2>2. /\ req[r].pc = "send"
          /\ dlq' = dlq /\ rows' = rows /\ acked' = acked /\ keys' = keys
      BY <1>3 DEF Produce, pg, redis
    <2>3. msgs' = Append(msgs, m)
      BY <1>3, <2>1 DEF Produce
    <2>4. /\ req'[r].pc = "wait" /\ req'[r].shape = req[r].shape
          /\ req'[r].cur = Len(msgs) + 1 /\ req'[r].todo = req[r].todo \ {it}
      BY <1>3, <1>h, <2>1 DEF Produce, Handler
    <2>5. m \in Msg
      <3>1. it.key \in Keys \cup {NoKey} /\ it.ref \in Nat
        BY <1>h, <2>1 DEF Item
      <3>2. (IF it.key = NoKey THEN 0 ELSE gen[it.key]) \in Nat
        BY <1>b, <3>1 DEF TypeCore
      <3>3. req[r].shape.kind \in Kinds /\ req[r].shape.bare \in BOOLEAN
        BY <1>h, ShapesAssumption DEF Shape
      <3> QED
        BY <3>1, <3>2, <3>3 DEF Msg
    <2>6. m.key = it.key /\ m.kind = req[r].shape.kind /\ m.ref = it.ref /\ m.st = "queued"
      OBVIOUS
    <2> HIDE DEF m
    <2>7. ProduceEffect(r)
      BY <2>1, <2>2, <2>3, <2>4, <2>5, <2>6 DEF ProduceEffect, Goes
    <2> QED
      BY <1>k, <2>7 DEF Effect
  <1>4. CASE Delivered(r)
    <2>1. /\ req[r].pc = "wait" /\ msgs[req[r].cur].st = "ok"
          /\ msgs' = msgs /\ dlq' = dlq /\ rows' = rows /\ acked' = acked /\ keys' = keys
      BY <1>4 DEF Delivered, Reported, kafka, pg, redis
    <2>2. InLog(req[r].cur)
      BY <1>b, <2>1 DEF HandlerInv, ReportsTrue
    <2>3. /\ req'[r].pc = AfterDelivery(req[r].shape.kind) /\ req'[r].shape = req[r].shape
          /\ req'[r].todo = req[r].todo /\ req'[r].cur = req[r].cur
      BY <1>4, <1>h DEF Delivered, Handler
    <2>4. DeliveredEffect(r)
      BY <2>1, <2>2, <2>3 DEF DeliveredEffect, Goes
    <2> QED
      BY <1>k, <2>4 DEF Effect
  <1>5. CASE MarkDLQReplayed(r)
    <2>1. /\ req[r].pc = "mark" /\ dlq' = [dlq EXCEPT ![msgs[req[r].cur].ref] = TRUE]
          /\ msgs' = msgs /\ rows' = rows /\ acked' = acked /\ keys' = keys /\ Goto(r, "send")
      BY <1>5, <1>f DEF MarkDLQReplayed, kafka, redis
    <2>2. MarkEffect(r)
      BY <2>1, <1>goto, <1>pc DEF MarkEffect
    <2> QED
      BY <1>k, <2>2 DEF Effect
  <1>6. CASE LoopDone(r)
    <2>1. /\ req[r].pc = "send" /\ req[r].todo = {}
          /\ msgs' = msgs /\ dlq' = dlq /\ rows' = rows /\ acked' = acked /\ keys' = keys
      BY <1>6 DEF LoopDone, kafka, pg, redis
    <2>2. CASE req[r].shape.kind \in {"dlq", "range"}
      <3>1. req'[r] = Done
        BY <1>6, <2>2, <1>ret DEF LoopDone
      <3> QED
        BY <1>k, <2>1, <2>2, <3>1 DEF Effect, LoopEffect
    <2>3. CASE req[r].shape.kind \notin {"dlq", "range"}
      <3>1. /\ req'[r].pc = "store" /\ req'[r].shape = req[r].shape
            /\ req'[r].left = req'[r].out
        BY <1>6, <2>3, <1>h DEF LoopDone, Handler
      <3> QED
        BY <1>k, <2>1, <2>3, <3>1 DEF Effect, LoopEffect, Goes
    <2> QED
      BY <2>2, <2>3
  <1>7. CASE StoreEvent(r)
    <2>1. PICK i \in req[r].left : i = Least(req[r].left)
      BY <1>7, <1>h, LeastIn DEF StoreEvent
    <2>2. /\ req[r].pc = "store"
          /\ msgs' = msgs /\ dlq' = dlq /\ acked' = acked /\ keys' = keys
          /\ rows' = IF Conflicts(i) \/ msgs[i].bare THEN rows ELSE rows \cup {i}
      BY <1>7, <1>f, <2>1 DEF StoreEvent, kafka, redis
    <2>3. /\ req'[r].pc = "store" /\ req'[r].shape = req[r].shape /\ req'[r].out = req[r].out
          /\ req'[r].left = req[r].left \ {i}
      BY <1>7, <1>h, <2>1, <2>2 DEF StoreEvent, Handler
    <2>4. StoreEffect(r)
      BY <2>2, <2>3 DEF StoreEffect, Goes
    <2> QED
      BY <1>k, <2>4 DEF Effect
  <1>8. CASE Accept(r)
    <2>1. AcceptEffect(r)
      BY <1>8, <1>ret DEF Accept, AcceptEffect, EndEffect, kafka, pg, redis
    <2> QED
      BY <1>k, <2>1 DEF Effect
  <1>9. CASE Undelivered(r)
    <2>1. req[r].pc = "wait" /\ msgs[req[r].cur].st = "err"
      BY <1>9 DEF Undelivered
    <2>2. req[r].cur \in DOMAIN msgs
      BY <1>b, <2>1 DEF HandlerInv
    <2> QED
      BY <2>1, <2>2 DEF NoLoss
  <1>10. CASE EndStream(r)
    <2>1. EndEffect(r)
      BY <1>10, <1>ret DEF EndStream, EndEffect, kafka, pg, redis
    <2> QED
      BY <1>k, <2>1 DEF Effect
  <1> QED
    BY <1>f, <1>1, <1>2, <1>3, <1>4, <1>5, <1>6, <1>7, <1>8, <1>9, <1>10
    DEF Moves, HandlerStep, CheckIdempotencyError, CallError, GiveUp

\* A request that arrives finds its goroutine new.
Begins(r, s) ==
    /\ Accepts(s.via) /\ phase' = phase /\ req[r].pc = "idle"
    /\ \A q \in Requests : q # r => req'[q] = req[q]
    /\ req'[r].shape = s /\ s.kind \in Kinds
    /\ s.kind = "publish" => /\ req'[r].todo = RequestItems(s)
                             /\ s.keys[1] = NoKey => req'[r].pc = "send"
                             /\ s.keys[1] # NoKey => req'[r].pc = "check"
    /\ s.kind = "batch" => req'[r].todo = RequestItems(s) /\ req'[r].pc = "send"
    /\ s.kind \in {"dlq", "range"} => req'[r].todo = {} /\ req'[r].pc = "list"
    /\ s.kind = "reflection" => req'[r].todo = {} /\ req'[r].pc = "hold"
    /\ msgs' = msgs /\ log' = log /\ dlq' = dlq /\ rows' = rows /\ acked' = acked /\ keys' = keys
    /\ ~overlapped' => ~overlapped /\ (s.kind = "dlq" => \A q \in Requests : ~Replaying(q))

\* Where main of the gateway may go.
Phases ==
    \/ phase' \in {phase, "up", "http"}
    \/ phase' = "grpc" /\ Drained("rest")
    \/ phase' = "flush" /\ phase = "grpc" /\ Drained("grpc")
    \/ phase' = "down" /\ phase = "flush"

\* The broker, Redis, the workers and main leave the handlers alone.
World ==
    /\ \A q \in Requests : req'[q] = req[q]
    /\ overlapped' = overlapped /\ rows' = rows /\ acked' = acked /\ keys' \subseteq keys
    /\ DOMAIN msgs' = DOMAIN msgs
    /\ \A i \in DOMAIN msgs : msgs'[i].st \in {msgs[i].st, "ok"}
    /\ \A d \in DOMAIN dlq : dlq'[d] = dlq[d]
    /\ Phases

\* Append leaves the elements before it alone.
LEMMA AppendKeeps ==
    ASSUME NEW S, NEW s \in Seq(S), NEW x \in S
    PROVE  \A d \in DOMAIN s : Append(s, x)[d] = s[d]
  OBVIOUS

\* At the end of a shutdown in time there is nothing left to cut.
LEMMA NothingCut ==
    ASSUME BaseInv, NoLoss, Draining, Exit, faults' = 0
    PROVE  /\ phase = "flush"
           /\ \A r \in Requests : ~Active(r)
           /\ \A i \in DOMAIN msgs : msgs[i].st = "ok" /\ InLog(i)
  <1>b. TypeCore /\ ReportsTrue
    BY DEF BaseInv
  <1>f. phase = "flush" /\ Flushed
    BY <1>b, Faultless DEF Exit
  <1>1. ASSUME NEW r \in Requests PROVE ~Active(r)
    <2>1. req[r].shape \in Shapes
      BY <1>b DEF TypeCore, Handler
    <2>2. req[r].shape.via \in {"rest", "grpc"}
      BY <2>1, ShapesAssumption DEF Shape
    <2> QED
      BY <1>f, <2>2 DEF Draining, Drained
  <1>2. ASSUME NEW i \in DOMAIN msgs PROVE msgs[i].st = "ok" /\ InLog(i)
    <2>1. msgs[i] \in Msg
      BY <1>b DEF TypeCore
    <2>2. msgs[i].st \in {"queued", "ok", "err"}
      BY <2>1 DEF Msg
    <2> QED
      BY <1>b, <1>f, <2>2 DEF Flushed, NoLoss, ReportsTrue
  <1> QED
    BY <1>f, <1>1, <1>2

\* Every step while nothing fails is one of these.
LEMMA CleanNext ==
    ASSUME BaseInv, NoLoss, Draining, [Next]_vars, faults' = 0
    PROVE  \/ \E r \in Requests : Kept(r) /\ Effect(r)
           \/ \E r \in Requests, s \in Shapes : Begins(r, s)
           \/ World
  <1>b. TypeCore
    BY DEF BaseInv
  <1>f. ~Fault /\ ~TimedOut
    BY <1>b, Faultless
  <1>1. ASSUME NEW r \in Requests, Moves(r) PROVE Kept(r) /\ Effect(r)
    BY <1>1, CleanHandler
  <1>2. ASSUME NEW r \in Requests, NEW s \in Shapes, Arrive(r, s) PROVE Begins(r, s)
    <2>1. PICK p, items : Start(r, s, p, items)
      BY <1>2 DEF Arrive, PublishEvent, PublishBatch, ReplayDLQ, ReplayEvents, OpenStream
    <2>2. /\ phase' = phase /\ Accepts(s.via) /\ r = arrivals + 1
          /\ msgs' = msgs /\ log' = log /\ dlq' = dlq /\ rows' = rows /\ acked' = acked /\ keys' = keys
      BY <2>1 DEF Start, kafka, pg, redis
    <2>3. overlapped' = (overlapped \/ (s.kind = "dlq" /\
                           \E o \in Requests : Active(o) /\ req[o].shape.kind = "dlq"))
      BY <2>1 DEF Start
    <2>4. ~overlapped' => ~overlapped /\ (s.kind = "dlq" => \A q \in Requests : ~Replaying(q))
      BY <2>3 DEF Replaying
    <2>5. req[r].pc = "idle"
      <3>1. req[r].pc # "idle" => r <= arrivals
        BY DEF BaseInv, HandlerInv
      <3>2. arrivals \in Nat
        BY <1>b, BoundsAssumption DEF TypeCore
      <3> QED
        BY <2>2, <3>1, <3>2
    <2> QED
      BY <1>2, <1>b, <2>2, <2>4, <2>5, ArriveHandler DEF Begins
  <1>3. ASSUME NEW i \in DOMAIN msgs, Deliver(i) PROVE World
    <2>1. /\ req' = req /\ overlapped' = overlapped /\ rows' = rows /\ acked' = acked /\ keys' = keys
          /\ dlq' = dlq /\ phase' = phase /\ msgs' = [msgs EXCEPT ![i].st = "ok"]
      BY <1>3 DEF Deliver, pg, redis
    <2>2. \A k \in DOMAIN msgs : k # i => msgs'[k] = msgs[k]
      BY <2>1
    <2>3. msgs'[i].st = "ok"
      <3>1. msgs[i] \in Msg
        BY <1>b DEF TypeCore
      <3> QED
        BY <2>1, <3>1 DEF Msg
    <2>4. DOMAIN msgs' = DOMAIN msgs
      BY <2>1
    <2>5. Phases
      BY <2>1 DEF Phases
    <2> QED
      BY <2>1, <2>2, <2>3, <2>4, <2>5 DEF World
  <1>4. CASE StoreDLQ
    <2>1. /\ req' = req /\ overlapped' = overlapped /\ rows' = rows /\ acked' = acked /\ keys' = keys
          /\ msgs' = msgs /\ phase' = phase /\ dlq' = Append(dlq, FALSE)
      BY <1>4 DEF StoreDLQ, kafka, redis
    <2>2. dlq \in Seq(BOOLEAN)
      BY <1>b DEF TypeCore
    <2>3. \A d \in DOMAIN dlq : dlq'[d] = dlq[d]
      <3>1. PICK x \in BOOLEAN : dlq' = Append(dlq, x)
        BY <2>1
      <3> QED
        BY <2>2, <3>1, AppendKeeps
    <2>4. Phases
      BY <2>1 DEF Phases
    <2> QED
      BY <2>1, <2>3, <2>4 DEF World
  <1>5. CASE Exit
    <2>1. /\ phase = "flush" /\ phase' = "down"
          /\ \A r \in Requests : ~Active(r)
          /\ \A i \in DOMAIN msgs : msgs[i].st = "ok"
      BY <1>5, NothingCut DEF Exit, Cut
    <2>2. \A q \in Requests : req'[q] = req[q]
      BY <1>5, <2>1 DEF Exit, Cut
    <2>3. overlapped' = overlapped /\ rows' = rows /\ acked' = acked /\ keys' = keys /\ dlq' = dlq
      BY <1>5 DEF Exit, Cut, pg, redis
    <2>4. msgs' = [i \in DOMAIN msgs |-> [msgs[i] EXCEPT !.st = IF @ = "queued" THEN "err" ELSE @]]
      BY <1>5 DEF Exit, Cut
    <2>5. ASSUME NEW i \in DOMAIN msgs PROVE msgs'[i].st = "ok"
      <3>1. msgs[i] \in Msg
        BY <1>b DEF TypeCore
      <3> QED
        BY <2>1, <2>4, <3>1 DEF Msg
    <2>6. DOMAIN msgs' = DOMAIN msgs
      BY <2>4
    <2>7. Phases
      BY <2>1 DEF Phases
    <2> QED
      BY <2>2, <2>3, <2>5, <2>6, <2>7 DEF World
  <1>6. CASE \/ \E k \in Keys : ExpireKey(k)
             \/ Signal \/ HttpStopped \/ GrpcStopped \/ Restart \/ UNCHANGED vars
    <2>1. /\ req' = req /\ overlapped' = overlapped /\ rows' = rows /\ acked' = acked
          /\ keys' \subseteq keys /\ dlq' = dlq /\ msgs' = msgs
      BY <1>6 DEF ExpireKey, Signal, HttpStopped, GrpcStopped, Restart, Others, vars, kafka, pg, redis
    <2>2. Phases
      BY <1>6, <1>f DEF ExpireKey, Signal, HttpStopped, GrpcStopped, Restart, vars, Phases
    <2> QED
      BY <2>1, <2>2 DEF World
  <1> QED
    BY <1>f, <1>1, <1>2, <1>3, <1>4, <1>5, <1>6 DEF Next, Moves, DeliverError, Crash

-----------------------------------------------------------------------------
(* Messages, shutdown, keys and rows *)

\* No message is lost.
LEMMA NoLossNext ==
    ASSUME BaseInv, NoLoss, Draining, [Next]_vars, faults' = 0
    PROVE  NoLoss'
  <1>m. msgs \in Seq(Msg)
    BY DEF BaseInv, TypeCore
  <1>1. ASSUME NEW r \in Requests, ProduceEffect(r) PROVE NoLoss'
    <2>1. PICK m \in Msg : m.st = "queued" /\ msgs' = Append(msgs, m)
      BY <1>1 DEF ProduceEffect
    <2>2. \A i \in DOMAIN msgs' : (i \in DOMAIN msgs /\ msgs'[i] = msgs[i]) \/ msgs'[i] = m
      BY <1>m, <2>1
    <2> QED
      BY <2>1, <2>2 DEF NoLoss
  <1>2. ASSUME NEW r \in Requests, Effect(r), ~ProduceEffect(r) PROVE msgs' = msgs
    BY <1>2 DEF Effect, CheckEffect, ListEffect, DeliveredEffect, MarkEffect, LoopEffect, StoreEffect,
        AcceptEffect, EndEffect
  <1>3. ASSUME NEW r \in Requests, NEW s \in Shapes, Begins(r, s) PROVE msgs' = msgs
    BY <1>3 DEF Begins
  <1>4. CASE World
    BY <1>4 DEF World, NoLoss
  <1>5. CASE msgs' = msgs
    BY <1>5 DEF NoLoss
  <1> QED
    BY <1>1, <1>2, <1>3, <1>4, <1>5, CleanNext

\* A handler at work after its statement was at work before, with the same request.
LEMMA EffectActive ==
    ASSUME NEW r \in Requests, Effect(r)
    PROVE  /\ Active(r)
           /\ Active(r)' => req'[r].shape = req[r].shape
  <1>1. Active(r)
    BY DEF Effect, CheckEffect, ListEffect, ProduceEffect, DeliveredEffect, MarkEffect, LoopEffect,
        StoreEffect, AcceptEffect, EndEffect, Active
  <1>2. req'[r] = Done \/ req'[r].shape = req[r].shape
    BY DEF Effect, CheckEffect, ListEffect, ProduceEffect, DeliveredEffect, MarkEffect, LoopEffect,
        StoreEffect, AcceptEffect, EndEffect, Goes
  <1>3. req'[r] = Done => ~Active(r)'
    BY IdleDone DEF Active
  <1> QED
    BY <1>1, <1>2, <1>3

\* Handlers that main has waited for do not come back.
LEMMA DrainingNext ==
    ASSUME BaseInv, NoLoss, Draining, [Next]_vars, faults' = 0
    PROVE  Draining'
  <1>1. ASSUME NEW r \in Requests, Kept(r), Effect(r) PROVE Draining'
    <2>1. \A q \in Requests : Active(q)' => Active(q) /\ req'[q].shape = req[q].shape
      BY <1>1, EffectActive DEF Kept, Active
    <2>2. phase' = phase
      BY <1>1 DEF Kept
    <2> QED
      BY <2>1, <2>2 DEF Draining, Drained
  <1>2. ASSUME NEW r \in Requests, NEW s \in Shapes, Begins(r, s) PROVE Draining'
    <2>1. phase' = phase /\ (phase = "up" \/ phase = "http")
      BY <1>2 DEF Begins, Accepts
    <2> QED
      BY <2>1 DEF Draining
  <1>3. CASE World
    <2>1. \A q \in Requests : req'[q] = req[q]
      BY <1>3 DEF World
    <2>2. /\ Drained("rest") => Drained("rest")'
          /\ Drained("grpc") => Drained("grpc")'
      BY <2>1 DEF Drained, Active
    <2> QED
      BY <1>3, <2>2 DEF World, Phases, Draining
  <1> QED
    BY <1>1, <1>2, <1>3, CleanNext

\* What is in the topic stays there with its key, and so do rows.
LEMMA PublishedStays ==
    ASSUME TypeCore, Grown, NEW k, Published(k)
    PROVE  Published(k)'
  <1>1. PICK i \in DOMAIN msgs : msgs[i].key = k /\ InLog(i)
    BY DEF Published
  <1>2. i \in DOMAIN msgs' /\ msgs'[i].key = k
    BY <1>1 DEF Grown, Same
  <1>3. InLog(i)'
    BY <1>1, InLogStays
  <1> QED
    BY <1>2, <1>3 DEF Published

\* A stored event stays stored.
LEMMA StoredStays ==
    ASSUME TypeCore, Grown, rows \subseteq rows', NEW i \in DOMAIN msgs, Stored(i)
    PROVE  Stored(i)'
  <1>1. rows \subseteq DOMAIN msgs
    BY DEF TypeCore
  <1>2. \A j \in DOMAIN msgs : msgs'[j].key = msgs[j].key /\ msgs'[j].bare = msgs[j].bare
    BY DEF Grown, Same
  <1> QED
    BY <1>1, <1>2 DEF Stored

\* A handler that others leave alone has its event where it had it.
LEMMA HandStays ==
    ASSUME BaseInv, Grown, NEW q \in Requests, HandOK(q), req'[q] = req[q]
    PROVE  HandOK(q)'
  <1>b. TypeCore /\ HandlerInv(q)
    BY DEF BaseInv
  <1>1. (Carrying(q)' <=> Carrying(q)) /\ KeyOf(q)' = KeyOf(q)
    BY DEF Carrying, Active, Keyed, KeyOf
  <1>2. req[q].pc = "wait" => msgs'[req[q].cur].key = msgs[req[q].cur].key
    BY <1>b DEF HandlerInv, Grown, Same
  <1>3. PICK k : k = KeyOf(q)
    OBVIOUS
  <1>4. Published(k) => Published(k)'
    BY <1>b, PublishedStays
  <1>5. Published(KeyOf(q)) => Published(KeyOf(q))'
    BY <1>1, <1>3, <1>4 DEF Published
  <1> QED
    BY <1>1, <1>2, <1>5 DEF HandOK

\* The handler of r itself.
LEMMA HandStep ==
    ASSUME BaseInv, Grown, NEW r \in Requests, HandOK(r), Kept(r), Effect(r)
    PROVE  HandOK(r)'
  <1>b. TypeCore /\ HandlerInv(r)
    BY DEF BaseInv
  <1>d. CASE req'[r] = Done
    BY <1>d, IdleDone DEF HandOK, Carrying, Active
  <1>g. ASSUME NEW p, Goes(r, p)
        PROVE  (Keyed(r)' <=> Keyed(r)) /\ KeyOf(r)' = KeyOf(r) /\ req'[r].pc = p
    BY <1>g DEF Goes, Keyed, KeyOf
  <1>k. Keyed(r) => req[r].shape.kind = "publish"
    BY DEF Keyed
  <1>p. ASSUME Published(KeyOf(r)), KeyOf(r)' = KeyOf(r) PROVE Published(KeyOf(r))'
    <2>1. PICK k : k = KeyOf(r)
      OBVIOUS
    <2>2. Published(k)'
      BY <1>b, <1>p, <2>1, PublishedStays
    <2> QED
      BY <1>p, <2>1, <2>2 DEF Published
  <1>1. CASE CheckEffect(r) /\ req'[r] # Done
    <2>1. Goes(r, "send") /\ req'[r].todo = req[r].todo /\ req[r].todo # {}
      BY <1>1 DEF CheckEffect, HandOK
    <2> QED
      BY <2>1, <1>g DEF HandOK
  <1>2. CASE ListEffect(r)
    <2>1. req'[r].pc = "send" /\ ~Keyed(r) /\ ~Keyed(r)'
      BY <1>2, <1>b, <1>g, <1>k DEF ListEffect, HandlerInv
    <2> QED
      BY <2>1 DEF HandOK, Carrying
  <1>3. CASE ProduceEffect(r)
    <2>1. Goes(r, "wait") /\ req'[r].cur = Len(msgs) + 1
      BY <1>3 DEF ProduceEffect
    <2>2. PICK it \in req[r].todo, m \in Msg : m.key = it.key /\ msgs' = Append(msgs, m)
      BY <1>3 DEF ProduceEffect
    <2>3. msgs'[Len(msgs) + 1] = m
      BY <1>b, <2>2 DEF TypeCore
    <2>4. Keyed(r) => it.key = KeyOf(r)
      <3>1. Keyed(r) => it \in RequestItems(req[r].shape)
        BY <1>b, <1>k DEF HandlerInv
      <3> QED
        BY <1>b, <3>1, KeyType
    <2>5. Keyed(r) => msgs'[req'[r].cur].key = KeyOf(r)
      BY <2>1, <2>2, <2>3, <2>4
    <2> QED
      BY <2>1, <2>5, <1>g DEF HandOK, Carrying
  <1>4. CASE DeliveredEffect(r)
    <2>1. Goes(r, AfterDelivery(req[r].shape.kind)) /\ InLog(req[r].cur) /\ req[r].pc = "wait"
      BY <1>4 DEF DeliveredEffect
    <2>2. req'[r].pc # "check"
      BY <2>1, <1>g DEF AfterDelivery
    <2>3. Keyed(r) => Published(KeyOf(r))
      <3>1. req[r].cur \in DOMAIN msgs
        BY <1>b, <2>1 DEF HandlerInv
      <3>2. Keyed(r) => Carrying(r)
        BY <2>1 DEF Carrying, Active
      <3> QED
        BY <2>1, <3>1, <3>2 DEF HandOK, Published
    <2> QED
      BY <2>1, <2>2, <2>3, <1>g, <1>p DEF HandOK, Carrying
  <1>5. CASE MarkEffect(r)
    <2>1. req'[r].pc = "send" /\ ~Keyed(r) /\ ~Keyed(r)'
      BY <1>5, <1>b, <1>g, <1>k DEF MarkEffect, HandlerInv
    <2> QED
      BY <2>1 DEF HandOK, Carrying
  <1>6. CASE (LoopEffect(r) \/ StoreEffect(r)) /\ req'[r] # Done
    <2>1. Goes(r, "store")
      BY <1>6 DEF LoopEffect, StoreEffect
    <2>2. (req[r].pc = "send" /\ req[r].todo = {}) \/ req[r].pc = "store"
      BY <1>6 DEF LoopEffect, StoreEffect
    <2>3. Keyed(r) => Published(KeyOf(r))
      BY <2>2 DEF HandOK, Carrying, Active
    <2> QED
      BY <2>1, <2>3, <1>g, <1>p DEF HandOK, Carrying
  <1> QED
    BY <1>d, <1>1, <1>2, <1>3, <1>4, <1>5, <1>6 DEF Effect, AcceptEffect, EndEffect

\* Every handler has its event where HandOK says.
LEMMA HandNext ==
    ASSUME BaseInv, NoLoss, Draining, \A r \in Requests : HandOK(r), [Next]_vars, faults' = 0
    PROVE  \A r \in Requests : HandOK(r)'
  <1> SUFFICES ASSUME NEW q \in Requests PROVE HandOK(q)'
    OBVIOUS
  <1>g. Grown
    BY GrownNext DEF BaseInv
  <1>same. ASSUME req'[q] = req[q] PROVE HandOK(q)'
    BY <1>same, <1>g, HandStays
  <1>1. ASSUME NEW r \in Requests, Kept(r), Effect(r) PROVE HandOK(q)'
    BY <1>1, <1>same, <1>g, HandStep DEF Kept
  <1>2. ASSUME NEW r \in Requests, NEW s \in Shapes, Begins(r, s) PROVE HandOK(q)'
    <2>1. CASE q # r
      BY <1>2, <1>same, <2>1 DEF Begins
    <2>2. CASE q = r
      <3>1. req'[r].shape = s /\ s.kind \in {"publish", "batch", "dlq", "range", "reflection"}
        BY <1>2 DEF Begins, Kinds
      <3>2. CASE s.kind = "publish"
        <4>1. Len(s.keys) = 1 /\ s.keys \in Seq(Keys \cup {NoKey})
          BY <3>2, ShapesAssumption DEF Shape
        <4>2. 1 \in DOMAIN s.keys
          BY <4>1
        <4>3. RequestItems(s) # {}
          BY <4>2 DEF RequestItems
        <4>4. /\ req'[r].todo = RequestItems(s) /\ req'[r].pc \in {"send", "check"}
          BY <1>2, <3>2 DEF Begins
        <4> QED
          BY <2>2, <4>3, <4>4 DEF HandOK, Carrying
      <3>3. CASE s.kind # "publish"
        <4>1. ~Keyed(r)' /\ req'[r].pc # "check"
          BY <1>2, <3>1, <3>3 DEF Begins, Keyed
        <4> QED
          BY <2>2, <4>1 DEF HandOK, Carrying
      <3> QED
        BY <3>2, <3>3
    <2> QED
      BY <2>1, <2>2
  <1>3. CASE World
    BY <1>3, <1>same DEF World
  <1> QED
    BY <1>1, <1>2, <1>3, CleanNext

\* A key that stays in Redis stays served.
LEMMA KeysServedNext ==
    ASSUME BaseInv, CalmInv, [Next]_vars, faults' = 0
    PROVE  KeysServed'
  <1>b. TypeCore /\ NoLoss /\ Draining /\ KeysServed /\ \A r \in Requests : HandOK(r)
    BY DEF BaseInv, CalmInv
  <1>g. Grown
    BY GrownNext DEF BaseInv
  <1> SUFFICES ASSUME NEW k \in keys', ~Published(k)'
               PROVE  \E r \in Requests : Carrying(r)' /\ KeyOf(r)' = k
    BY DEF KeysServed
  <1>n. ~Published(k)
    BY <1>b, <1>g, PublishedStays
  <1>o. k \in keys => \E q \in Requests : Carrying(q) /\ KeyOf(q) = k
    BY <1>b, <1>n DEF KeysServed
  <1>same. ASSUME NEW q \in Requests, Carrying(q), KeyOf(q) = k, req'[q] = req[q]
           PROVE  Carrying(q)' /\ KeyOf(q)' = k
    BY <1>same DEF Carrying, Active, Keyed, KeyOf
  <1>1. ASSUME NEW r \in Requests, Kept(r), Effect(r)
        PROVE  \E q \in Requests : Carrying(q)' /\ KeyOf(q)' = k
    <2>1. CASE k \in keys
      <3>1. PICK q \in Requests : Carrying(q) /\ KeyOf(q) = k
        BY <1>o, <2>1
      <3>2. CASE q # r
        BY <1>1, <1>same, <3>1, <3>2 DEF Kept
      <3>3. CASE q = r
        <4>1. Keyed(r) /\ req[r].pc # "check" /\ Carrying(r) /\ KeyOf(r) = k
              /\ req[r].shape.kind = "publish"
          BY <3>1, <3>3 DEF Carrying, Keyed
        <4>2. req[r].pc \in {"send", "wait"}
          BY <1>b, <1>n, <4>1 DEF HandOK
        <4>3. PICK p \in {"send", "wait", "store", "mark"} : Goes(r, p)
          BY <1>1, <4>1, <4>2 DEF Effect, CheckEffect, ListEffect, ProduceEffect, DeliveredEffect,
              MarkEffect, LoopEffect, StoreEffect, AcceptEffect, EndEffect, AfterDelivery
        <4>4. Carrying(r)' /\ KeyOf(r)' = k
          BY <4>1, <4>3 DEF Goes, Carrying, Active, Keyed, KeyOf
        <4> QED
          BY <4>4
      <3> QED
        BY <3>2, <3>3
    <2>2. CASE k \notin keys
      <3>1. CheckEffect(r) /\ req[r].pc = "check" /\ k = KeyOf(r) /\ Goes(r, "send")
        BY <1>1, <2>2 DEF Effect, CheckEffect, ListEffect, ProduceEffect, DeliveredEffect,
              MarkEffect, LoopEffect, StoreEffect, AcceptEffect, EndEffect
      <3>2. Keyed(r)
        BY <3>1 DEF BaseInv, HandlerInv
      <3>3. Carrying(r)' /\ KeyOf(r)' = k
        BY <3>1, <3>2 DEF Goes, Carrying, Active, Keyed, KeyOf
      <3> QED
        BY <3>3
    <2> QED
      BY <2>1, <2>2
  <1>2. ASSUME NEW r \in Requests, NEW s \in Shapes, Begins(r, s)
        PROVE  \E q \in Requests : Carrying(q)' /\ KeyOf(q)' = k
    <2>1. PICK q \in Requests : Carrying(q) /\ KeyOf(q) = k
      BY <1>2, <1>o DEF Begins
    <2>2. q # r
      BY <1>2, <2>1 DEF Begins, Carrying, Active
    <2> QED
      BY <1>2, <1>same, <2>1, <2>2 DEF Begins
  <1>3. ASSUME World
        PROVE  \E q \in Requests : Carrying(q)' /\ KeyOf(q)' = k
    <2>1. PICK q \in Requests : Carrying(q) /\ KeyOf(q) = k
      BY <1>3, <1>o DEF World
    <2> QED
      BY <1>3, <1>same, <2>1 DEF World
  <1> QED
    BY <1>b, <1>1, <1>2, <1>3, CleanNext

\* Answered events are stored, and those a handler has been through.
LEMMA StoreNext ==
    ASSUME BaseInv, CalmInv, [Next]_vars, faults' = 0
    PROVE  AckedStored' /\ \A r \in Requests : StoreOK(r)'
  <1>b. TypeCore /\ NoLoss /\ Draining /\ AckedStored /\ \A r \in Requests : StoreOK(r)
    BY DEF BaseInv, CalmInv
  <1>g. Grown
    BY GrownNext DEF BaseInv
  <1>o. \A q \in Requests : req[q].out \subseteq DOMAIN msgs /\ req[q].left \subseteq DOMAIN msgs
    BY BaseType DEF TypeOK
  <1>a. acked \subseteq DOMAIN msgs
    BY <1>b DEF TypeCore
  <1>s. ASSUME rows \subseteq rows', NEW i \in DOMAIN msgs, Stored(i) PROVE Stored(i)'
    BY <1>b, <1>g, <1>s, StoredStays
  <1>same. ASSUME rows \subseteq rows', NEW q \in Requests, req'[q] = req[q] PROVE StoreOK(q)'
    <2> SUFFICES ASSUME req[q].pc = "store", NEW i \in req[q].out \ req[q].left PROVE Stored(i)'
      BY <1>same DEF StoreOK
    <2>1. Stored(i) /\ i \in DOMAIN msgs
      BY <1>b, <1>o DEF StoreOK
    <2> QED
      BY <2>1, <1>s, <1>same
  <1>1. ASSUME NEW r \in Requests, Kept(r), Effect(r)
        PROVE  AckedStored' /\ \A q \in Requests : StoreOK(q)'
    <2>1. rows \subseteq rows'
      BY <1>1 DEF Effect, CheckEffect, ListEffect, ProduceEffect, DeliveredEffect,
              MarkEffect, LoopEffect, StoreEffect, AcceptEffect, EndEffect
    <2>2. \A q \in Requests : q # r => StoreOK(q)'
      BY <1>1, <2>1, <1>same DEF Kept
    <2>3. CASE StoreEffect(r)
      <3>1. PICK i \in req[r].left : /\ req'[r].left = req[r].left \ {i}
                                     /\ rows' = IF Conflicts(i) \/ msgs[i].bare THEN rows ELSE rows \cup {i}
        BY <2>3 DEF StoreEffect
      <3>2. req'[r].out = req[r].out /\ acked' = acked /\ msgs' = msgs /\ req[r].pc = "store"
        BY <2>3 DEF StoreEffect
      <3>3. Stored(i)'
        BY <3>1, <3>2 DEF Stored, Conflicts
      <3>4. \A j \in req[r].out \ req[r].left : Stored(j)'
        BY <1>b, <1>o, <1>s, <2>1, <3>2 DEF StoreOK
      <3>5. StoreOK(r)'
        BY <3>1, <3>2, <3>3, <3>4 DEF StoreOK
      <3>6. AckedStored'
        BY <1>a, <1>b, <1>s, <2>1, <3>2 DEF AckedStored
      <3> QED
        BY <2>2, <3>5, <3>6
    <2>4. CASE AcceptEffect(r)
      <3>1. /\ req[r].pc = "store" /\ req[r].left = {} /\ req'[r] = Done
            /\ acked' = acked \cup req[r].out
        BY <2>4 DEF AcceptEffect, EndEffect
      <3>2. \A j \in req[r].out : Stored(j)'
        BY <1>b, <1>o, <1>s, <2>1, <3>1 DEF StoreOK
      <3>3. \A j \in acked : Stored(j)'
        BY <1>a, <1>b, <1>s, <2>1 DEF AckedStored
      <3>4. StoreOK(r)'
        BY <3>1, IdleDone DEF StoreOK
      <3> QED
        BY <2>2, <3>1, <3>2, <3>3, <3>4 DEF AckedStored
    <2>5. CASE ~StoreEffect(r) /\ ~AcceptEffect(r)
      <3>1. acked' = acked
        BY <1>1, <2>5 DEF Effect, CheckEffect, ListEffect, ProduceEffect, DeliveredEffect,
              MarkEffect, LoopEffect, EndEffect
      <3>2. req'[r].pc # "store" \/ req'[r].left = req'[r].out
        BY <1>1, <2>5, IdleDone DEF Effect, CheckEffect, ListEffect, ProduceEffect, DeliveredEffect,
              MarkEffect, LoopEffect, EndEffect, Goes, AfterDelivery
      <3>3. StoreOK(r)'
        BY <3>2 DEF StoreOK
      <3>4. AckedStored'
        BY <1>a, <1>b, <1>s, <2>1, <3>1 DEF AckedStored
      <3> QED
        BY <2>2, <3>3, <3>4
    <2> QED
      BY <2>3, <2>4, <2>5
  <1>2. ASSUME NEW r \in Requests, NEW s \in Shapes, Begins(r, s)
        PROVE  AckedStored' /\ \A q \in Requests : StoreOK(q)'
    <2>1. rows' = rows /\ acked' = acked
      BY <1>2 DEF Begins
    <2>2. req'[r].pc # "store"
      BY <1>2 DEF Begins, Kinds
    <2>3. \A q \in Requests : q # r => StoreOK(q)'
      BY <1>2, <1>same, <2>1 DEF Begins
    <2>4. StoreOK(r)'
      BY <2>2 DEF StoreOK
    <2>5. AckedStored'
      BY <1>a, <1>b, <1>s, <2>1 DEF AckedStored
    <2> QED
      BY <2>3, <2>4, <2>5
  <1>3. ASSUME World
        PROVE  AckedStored' /\ \A q \in Requests : StoreOK(q)'
    <2>1. rows' = rows /\ acked' = acked /\ \A q \in Requests : req'[q] = req[q]
      BY <1>3 DEF World
    <2>2. AckedStored'
      BY <1>a, <1>b, <1>s, <2>1 DEF AckedStored
    <2> QED
      BY <1>same, <2>1, <2>2
  <1> QED
    BY <1>b, <1>1, <1>2, <1>3, CleanNext

-----------------------------------------------------------------------------
(* Replays of the DLQ that do not overlap *)

\* What is listed is not marked, and every row is listed once.
LEMMA ListedFresh ==
    ASSUME TypeCore, NEW s \in Shapes, s.kind = "dlq"
    PROVE  /\ \A x \in Listed(s) : x.ref \in DOMAIN dlq /\ dlq[x.ref] # TRUE
           /\ \A x, y \in Listed(s) : x.ref = y.ref => x = y
  <1>1. Listed(s) = {[rank |-> Len(dlq) - d, key |-> NoKey, ref |-> d] :
                      d \in {e \in ListDLQ(ReplayLimit) : Unreplayed(e)}}
    BY DEF Listed
  <1> DEFINE ds == {e \in ListDLQ(ReplayLimit) : Unreplayed(e)}
  <1>2. \A d \in ds : d \in DOMAIN dlq
    BY DEF ListDLQ
  <1>3. \A d \in ds : dlq[d] # TRUE
    <2> SUFFICES ASSUME NEW d \in ds, dlq[d] = TRUE PROVE FALSE
      OBVIOUS
    <2>1. ~dlq[d]
      BY DEF Unreplayed
    <2> QED
      BY <2>1
  <1> HIDE DEF ds
  <1>4. Listed(s) = {[rank |-> Len(dlq) - d, key |-> NoKey, ref |-> d] : d \in ds}
    BY <1>1 DEF ds
  <1>5. \A x \in Listed(s) : \E d \in ds : x = [rank |-> Len(dlq) - d, key |-> NoKey, ref |-> d]
    BY <1>4
  <1>6. \A x \in Listed(s) : x.ref \in ds /\ x = [rank |-> Len(dlq) - x.ref, key |-> NoKey, ref |-> x.ref]
    BY <1>5
  <1>7. ASSUME NEW x \in Listed(s) PROVE x.ref \in DOMAIN dlq /\ dlq[x.ref] # TRUE
    <2>1. x.ref \in ds
      BY <1>6
    <2> QED
      BY <1>2, <1>3, <2>1
  <1>8. \A x, y \in Listed(s) : x.ref = y.ref => x = y
    BY <1>6
  <1> QED
    BY <1>7, <1>8

\* A replay at work after a step was at work before, or has just begun.
LEMMA SoloNext ==
    ASSUME BaseInv, NoLoss, Draining, SoloInv, [Next]_vars, faults' = 0, ~overlapped'
    PROVE  Solo'
  <1>1. ASSUME NEW r \in Requests, Kept(r), Effect(r) PROVE Solo'
    <2>1. \A q \in Requests : Replaying(q)' => Replaying(q)
      BY <1>1, EffectActive DEF Kept, Replaying, Active
    <2> QED
      BY <2>1 DEF SoloInv, Solo
  <1>2. ASSUME NEW r \in Requests, NEW s \in Shapes, Begins(r, s) PROVE Solo'
    <2>1. \A q \in Requests : q # r => (Replaying(q)' <=> Replaying(q))
      BY <1>2 DEF Begins, Replaying, Active
    <2>2. Replaying(r)' => s.kind = "dlq"
      BY <1>2 DEF Begins, Replaying
    <2>3. Replaying(r)' => \A q \in Requests : ~Replaying(q)
      BY <1>2, <2>2 DEF Begins
    <2> QED
      BY <2>1, <2>3 DEF SoloInv, Solo
  <1>3. CASE World
    <2>1. \A q \in Requests : Replaying(q)' <=> Replaying(q)
      BY <1>3 DEF World, Replaying, Active
    <2> QED
      BY <2>1 DEF SoloInv, Solo
  <1> QED
    BY <1>1, <1>2, <1>3, CleanNext

\* What a step that publishes nothing leaves: messages are the same rows.
LEMMA SameRows ==
    ASSUME Grown, DOMAIN msgs' = DOMAIN msgs
    PROVE  /\ \A i \in DOMAIN msgs : msgs'[i].kind = msgs[i].kind /\ msgs'[i].ref = msgs[i].ref
           /\ Once => Once'
  BY DEF Grown, Same, Once

\* Steps of the handlers.
LEMMA SoloStep ==
    ASSUME BaseInv, SoloInv, Grown, NEW r \in Requests, Kept(r), Effect(r)
    PROVE  Marks' /\ Once' /\ \A q \in Requests : Untouched(q)'
  <1>b. TypeCore /\ HandlerInv(r) /\ Solo /\ Marks /\ Once /\ \A q \in Requests : Untouched(q)
    BY DEF BaseInv, SoloInv
  <1>q. /\ \A q \in Requests : q # r => req'[q] = req[q]
        /\ \A q \in Requests : q # r => (Replaying(q)' <=> Replaying(q))
        /\ Active(r) /\ (Replaying(r)' => Replaying(r))
    BY EffectActive DEF Kept, Replaying, Active
  <1>t. msgs \in Seq(Msg) /\ dlq \in Seq(BOOLEAN) /\ req[r].shape \in Shapes
    BY <1>b DEF TypeCore, Handler
  <1>1. CASE ProduceEffect(r)
    <2>1. /\ req[r].pc = "send" /\ req'[r].pc = "wait" /\ req'[r].shape = req[r].shape
          /\ req'[r].cur = Len(msgs) + 1 /\ dlq' = dlq
      BY <1>1 DEF ProduceEffect, Goes
    <2>2. PICK it \in req[r].todo, m \in Msg :
            /\ req'[r].todo = req[r].todo \ {it}
            /\ m.kind = req[r].shape.kind /\ m.ref = it.ref /\ msgs' = Append(msgs, m)
      BY <1>1 DEF ProduceEffect
    <2> DEFINE new == Len(msgs) + 1
    <2>3. /\ DOMAIN msgs' = DOMAIN msgs \cup {new} /\ new \notin DOMAIN msgs /\ msgs'[new] = m
          /\ \A i \in DOMAIN msgs : msgs'[i] = msgs[i]
      BY <1>t, <2>2
    <2> HIDE DEF new
    <2>4. Replaying(r) <=> m.kind = "dlq"
      BY <1>q, <2>2 DEF Replaying
    <2>5. Replaying(r)' <=> Replaying(r)
      BY <1>q, <2>1 DEF Replaying, Active
    <2>6. m.kind = "dlq" => m.ref \in DOMAIN dlq /\ \A i \in DOMAIN msgs : msgs[i].kind = "dlq" => msgs[i].ref # m.ref
      BY <1>b, <2>2, <2>4 DEF HandlerInv, Untouched
    <2>7. Once'
      BY <1>b, <2>3, <2>6 DEF Once
    <2>8. Marks'
      <3> SUFFICES ASSUME NEW i \in DOMAIN msgs', msgs'[i].kind = "dlq"
                   PROVE  /\ msgs'[i].ref \in DOMAIN dlq'
                          /\ \/ dlq'[msgs'[i].ref] = TRUE
                             \/ \E q \in Requests :
                                  Replaying(q)' /\ req'[q].pc \in {"wait", "mark"} /\ req'[q].cur = i
        BY DEF Marks
      <3>1. CASE i = new
        <4>1. Replaying(r)' /\ req'[r].pc = "wait" /\ req'[r].cur = i
          BY <2>1, <2>3, <2>4, <2>5, <3>1 DEF new
        <4> QED
          BY <2>1, <2>3, <2>6, <3>1, <4>1
      <3>2. CASE i \in DOMAIN msgs
        <4>1. msgs'[i] = msgs[i] /\ dlq' = dlq
          BY <2>1, <2>3, <3>2
        <4>2. CASE dlq[msgs[i].ref] = TRUE
          BY <1>b, <3>2, <4>1, <4>2 DEF Marks
        <4>3. CASE dlq[msgs[i].ref] # TRUE
          <5>1. PICK q \in Requests : Replaying(q) /\ req[q].pc \in {"wait", "mark"} /\ req[q].cur = i
            BY <1>b, <3>2, <4>1, <4>3 DEF Marks
          <5>2. q # r
            BY <2>1, <5>1
          <5> QED
            BY <1>b, <1>q, <3>2, <4>1, <5>1, <5>2 DEF Marks
        <4> QED
          BY <4>2, <4>3
      <3> QED
        BY <2>3, <3>1, <3>2
    <2>9. ASSUME NEW q \in Requests PROVE Untouched(q)'
      <3>1. CASE q = r
        <4>1. req'[r].todo \subseteq req[r].todo /\ it \notin req'[r].todo
          BY <2>2
        <4>2. Replaying(r)' => \A x \in req'[r].todo : x.ref # m.ref
          BY <1>b, <2>2, <2>5, <4>1 DEF Untouched
        <4>3. Replaying(r)' => \A x \in req'[r].todo, i \in DOMAIN msgs' : msgs'[i].kind = "dlq" => msgs'[i].ref # x.ref
          BY <1>b, <2>3, <2>5, <4>1, <4>2 DEF Untouched
        <4> QED
          BY <1>b, <2>5, <3>1, <4>1, <4>3 DEF Untouched
      <3>2. CASE q # r
        <4>1. req'[q] = req[q] /\ (Replaying(q)' <=> Replaying(q))
          BY <1>q, <3>2
        <4>2. Replaying(q) => m.kind # "dlq"
          BY <1>b, <2>4, <3>2 DEF Solo
        <4> QED
          BY <1>b, <2>3, <4>1, <4>2 DEF Untouched
      <3> QED
        BY <3>1, <3>2
    <2> QED
      BY <2>7, <2>8, <2>9
  <1>2. CASE ~ProduceEffect(r)
    <2>m. msgs' = msgs
      BY <1>2 DEF Effect, CheckEffect, ListEffect, DeliveredEffect, MarkEffect, LoopEffect, StoreEffect,
          AcceptEffect, EndEffect
    <2>1. Once'
      BY <1>b, <2>m DEF Once
    <2>2. ASSUME NEW q \in Requests PROVE Untouched(q)'
      <3>1. CASE q # r
        BY <1>b, <1>q, <2>m, <3>1 DEF Untouched
      <3>2. CASE q = r /\ ListEffect(r) /\ Replaying(r)
        <4>1. req[r].shape.kind = "dlq" /\ req'[r].todo = Listed(req[r].shape) /\ req[r].pc = "list"
          BY <3>2 DEF ListEffect, Replaying
        <4>2. /\ \A x \in req'[r].todo : x.ref \in DOMAIN dlq /\ dlq[x.ref] # TRUE
              /\ \A x, y \in req'[r].todo : x.ref = y.ref => x = y
          BY <1>b, <1>t, <4>1, ListedFresh
        <4>3. ASSUME NEW i \in DOMAIN msgs, msgs[i].kind = "dlq" PROVE dlq[msgs[i].ref] = TRUE
          <5>1. \A p \in Requests : Replaying(p) => p = r
            BY <1>b, <3>2 DEF Solo
          <5> QED
            BY <1>b, <4>1, <4>3, <5>1 DEF Marks
        <4>4. \A x \in req'[r].todo, i \in DOMAIN msgs : msgs[i].kind = "dlq" => msgs[i].ref # x.ref
          BY <4>2, <4>3
        <4> QED
          BY <2>m, <3>2, <4>2, <4>4 DEF Untouched
      <3>3. CASE q = r /\ (~ListEffect(r) \/ ~Replaying(r))
        <4>1. Replaying(r)' => req'[r].todo = req[r].todo
          <5>1. ASSUME Replaying(r)' PROVE req'[r].todo = req[r].todo
            <6>1. Replaying(r) /\ ~ListEffect(r) /\ req'[r] # Done
              BY <1>q, <3>3, <5>1, IdleDone DEF Replaying, Active
            <6>2. req[r].shape.kind = "dlq" /\ req[r].pc # "store"
              BY <1>b, <6>1 DEF Replaying, HandlerInv
            <6> QED
              BY <1>2, <6>1, <6>2 DEF Effect, CheckEffect, DeliveredEffect, MarkEffect, LoopEffect,
                  StoreEffect, AcceptEffect, EndEffect
          <5> QED
            BY <5>1
        <4> QED
          BY <1>b, <1>q, <2>m, <3>3, <4>1 DEF Untouched
      <3> QED
        BY <3>1, <3>2, <3>3
    <2>3. Marks'
      <3> SUFFICES ASSUME NEW i \in DOMAIN msgs, msgs[i].kind = "dlq"
                   PROVE  /\ msgs[i].ref \in DOMAIN dlq'
                          /\ \/ dlq'[msgs[i].ref] = TRUE
                             \/ \E q \in Requests :
                                  Replaying(q)' /\ req'[q].pc \in {"wait", "mark"} /\ req'[q].cur = i
        BY <2>m DEF Marks
      <3>d. msgs[i].ref \in DOMAIN dlq /\ msgs[i].ref \in DOMAIN dlq'
        BY <1>b DEF Marks, Grown
      <3>k. dlq[msgs[i].ref] = TRUE => dlq'[msgs[i].ref] = TRUE
        <4>1. CASE dlq' = dlq
          BY <4>1
        <4>2. CASE MarkEffect(r)
          BY <3>d, <4>2, <1>t DEF MarkEffect
        <4> QED
          BY <4>1, <4>2, <1>2 DEF Effect, CheckEffect, ListEffect, DeliveredEffect, LoopEffect, StoreEffect,
              AcceptEffect, EndEffect
      <3>1. CASE dlq[msgs[i].ref] = TRUE
        BY <3>1, <3>d, <3>k
      <3>2. CASE dlq[msgs[i].ref] # TRUE
        <4>1. PICK q \in Requests : Replaying(q) /\ req[q].pc \in {"wait", "mark"} /\ req[q].cur = i
          BY <1>b, <3>2 DEF Marks
        <4>2. CASE q # r
          BY <1>q, <3>d, <4>1, <4>2
        <4>3. CASE q = r
          <5>1. DeliveredEffect(r) \/ MarkEffect(r)
            BY <1>2, <4>1, <4>3 DEF Effect, CheckEffect, ListEffect, LoopEffect, StoreEffect, AcceptEffect, EndEffect
          <5>2. CASE DeliveredEffect(r)
            <6>1. req'[r].pc = "mark" /\ req'[r].cur = i /\ req'[r].shape = req[r].shape
              BY <4>1, <4>3, <5>2 DEF DeliveredEffect, Goes, AfterDelivery, Replaying
            <6>2. Replaying(r)'
              BY <4>1, <4>3, <6>1 DEF Replaying, Active
            <6> QED
              BY <3>d, <6>1, <6>2
          <5>3. CASE MarkEffect(r)
            <6>1. dlq' = [dlq EXCEPT ![msgs[i].ref] = TRUE]
              BY <4>1, <4>3, <5>3 DEF MarkEffect
            <6>2. dlq'[msgs[i].ref] = TRUE
              BY <3>d, <6>1, <1>t
            <6> QED
              BY <3>d, <6>2
          <5> QED
            BY <5>1, <5>2, <5>3
        <4> QED
          BY <4>2, <4>3
      <3> QED
        BY <3>1, <3>2
    <2> QED
      BY <2>1, <2>2, <2>3
  <1> QED
    BY <1>1, <1>2

\* Steps that leave the handlers alone, or begin one.
LEMMA SoloQuiet ==
    ASSUME BaseInv, SoloInv, Grown, World \/ \E r \in Requests, s \in Shapes : Begins(r, s)
    PROVE  Marks' /\ Once' /\ \A q \in Requests : Untouched(q)'
  <1>b. TypeCore /\ Marks /\ Once /\ \A q \in Requests : Untouched(q)
    BY DEF BaseInv, SoloInv
  <1>m. DOMAIN msgs' = DOMAIN msgs
    BY DEF World, Begins
  <1>r. \A i \in DOMAIN msgs : msgs'[i].kind = msgs[i].kind /\ msgs'[i].ref = msgs[i].ref
    BY <1>m, SameRows
  <1>d. DOMAIN dlq \subseteq DOMAIN dlq' /\ \A d \in DOMAIN dlq : dlq'[d] = dlq[d]
    BY DEF World, Begins, Grown
  <1>q. \A q \in Requests :
          \/ req'[q] = req[q] /\ (Replaying(q)' <=> Replaying(q))
          \/ ~Replaying(q) /\ (Replaying(q)' => req'[q].todo = {})
    <2>1. CASE World
      BY <2>1 DEF World, Replaying, Active
    <2>2. ASSUME NEW r \in Requests, NEW s \in Shapes, Begins(r, s), NEW q \in Requests
          PROVE  \/ req'[q] = req[q] /\ (Replaying(q)' <=> Replaying(q))
                 \/ ~Replaying(q) /\ (Replaying(q)' => req'[q].todo = {})
      <3>1. CASE q # r
        BY <2>2, <3>1 DEF Begins, Replaying, Active
      <3>2. CASE q = r
        BY <2>2, <3>2 DEF Begins, Replaying, Active
      <3> QED
        BY <3>1, <3>2
    <2> QED
      BY <2>1, <2>2
  <1>1. Once'
    BY <1>b, <1>m, SameRows
  <1>2. ASSUME NEW q \in Requests PROVE Untouched(q)'
    BY <1>b, <1>m, <1>r, <1>q DEF Untouched
  <1>3. ASSUME NEW i \in DOMAIN msgs', msgs'[i].kind = "dlq"
        PROVE  /\ msgs'[i].ref \in DOMAIN dlq'
               /\ \/ dlq'[msgs'[i].ref] = TRUE
                  \/ \E q \in Requests :
                       Replaying(q)' /\ req'[q].pc \in {"wait", "mark"} /\ req'[q].cur = i
    <2>1. i \in DOMAIN msgs /\ msgs[i].kind = "dlq" /\ msgs'[i].ref = msgs[i].ref
      BY <1>m, <1>r, <1>3
    <2>2. msgs[i].ref \in DOMAIN dlq
      BY <1>b, <2>1 DEF Marks
    <2>3. CASE dlq[msgs[i].ref] = TRUE
      BY <1>d, <2>1, <2>2, <2>3
    <2>4. CASE dlq[msgs[i].ref] # TRUE
      <3>1. PICK q \in Requests : Replaying(q) /\ req[q].pc \in {"wait", "mark"} /\ req[q].cur = i
        BY <1>b, <2>1, <2>4 DEF Marks
      <3>2. req'[q] = req[q] /\ Replaying(q)'
        BY <1>q, <3>1
      <3> QED
        BY <1>d, <2>1, <2>2, <3>1, <3>2
    <2> QED
      BY <2>3, <2>4
  <1> QED
    BY <1>1, <1>2, <1>3 DEF Marks

-----------------------------------------------------------------------------
(* The theorems *)

\* The counters of faults and overlaps do not go back.
LEMMA Onwards ==
    ASSUME BaseInv, [Next]_vars
    PROVE  /\ faults' = 0 => faults = 0
           /\ ~overlapped' => ~overlapped
  <1>b. faults \in Nat /\ overlapped \in BOOLEAN
    BY DEF BaseInv, TypeCore
  <1>1. ASSUME NEW r \in Requests, Moves(r) PROVE (OK \/ Fault) /\ overlapped' = overlapped
    BY <1>1 DEF Moves, HandlerStep, CheckIdempotency, CheckIdempotencyError, Replay, Produce, CallError,
        Delivered, Undelivered, GiveUp, EndStream, MarkDLQReplayed, LoopDone, StoreEvent, Accept
  <1>2. ASSUME NEW r \in Requests, NEW s \in Shapes, Arrive(r, s)
        PROVE  OK /\ (~overlapped' => ~overlapped)
    <2>1. PICK p, items : Start(r, s, p, items)
      BY <1>2 DEF Arrive, PublishEvent, PublishBatch, ReplayDLQ, ReplayEvents, OpenStream
    <2>2. overlapped' = (overlapped \/ (s.kind = "dlq" /\
                           \E o \in Requests : Active(o) /\ req[o].shape.kind = "dlq"))
      BY <2>1 DEF Start
    <2> QED
      BY <2>1, <2>2 DEF Start
  <1>3. CASE \/ \E i \in DOMAIN msgs : Deliver(i) \/ DeliverError(i)
             \/ \E k \in Keys : ExpireKey(k)
             \/ StoreDLQ \/ Signal \/ HttpStopped \/ GrpcStopped \/ Restart \/ Exit \/ Crash
    <2>1. (OK \/ Fault \/ TimedOut) /\ overlapped' = overlapped
      BY <1>3 DEF Deliver, DeliverError, ExpireKey, StoreDLQ, Signal, HttpStopped, GrpcStopped,
        Restart, Exit, Crash, Cut, Others
    <2> QED
      BY <1>b, <2>1 DEF OK, Fault, TimedOut
  <1>4. CASE UNCHANGED vars
    BY <1>4 DEF vars
  <1>5. OK \/ Fault => (faults' = 0 => faults = 0)
    BY <1>b DEF OK, Fault
  <1> QED
    BY <1>1, <1>2, <1>3, <1>4, <1>5 DEF Next, Moves

\* The invariant is inductive.
LEMMA FaultFreeNext ==
    ASSUME BaseInv, FaultFreeInvariant, [Next]_vars
    PROVE  FaultFreeInvariant'
  <1>o. /\ faults' = 0 => faults = 0
        /\ ~overlapped' => ~overlapped
    BY Onwards
  <1>g. Grown
    BY GrownNext DEF BaseInv
  <1>1. ASSUME faults' = 0 PROVE CalmInv'
    <2>1. CalmInv
      BY <1>o, <1>1 DEF FaultFreeInvariant
    <2>2. NoLoss /\ Draining /\ \A r \in Requests : HandOK(r)
      BY <2>1 DEF CalmInv
    <2> QED
      BY <1>1, <2>1, <2>2, NoLossNext, DrainingNext, HandNext, KeysServedNext, StoreNext DEF CalmInv
  <1>2. ASSUME faults' = 0, ~overlapped' PROVE SoloInv'
    <2>1. CalmInv /\ SoloInv
      BY <1>o, <1>2 DEF FaultFreeInvariant
    <2>2. NoLoss /\ Draining
      BY <2>1 DEF CalmInv
    <2>3. Solo'
      BY <1>2, <2>1, <2>2, SoloNext
    <2>4. Marks' /\ Once' /\ \A q \in Requests : Untouched(q)'
      BY <1>2, <1>g, <2>1, <2>2, CleanNext, SoloStep, SoloQuiet
    <2> QED
      BY <2>3, <2>4 DEF SoloInv
  <1> QED
    BY <1>1, <1>2 DEF FaultFreeInvariant

\* It holds in every reachable state.
THEOREM FaultFreeHolds == Spec => []FaultFreeInvariant
  <1>1. Init => FaultFreeInvariant
    <2> SUFFICES ASSUME Init PROVE FaultFreeInvariant
      OBVIOUS
    <2>1. /\ DOMAIN msgs = {} /\ keys = {} /\ acked = {} /\ phase = "up"
          /\ \A r \in Requests : req[r].pc = "idle"
      BY IdleDone DEF Init
    <2>2. \A r \in Requests : ~Active(r) /\ HandOK(r) /\ StoreOK(r) /\ Untouched(r)
      BY <2>1 DEF Active, HandOK, Carrying, StoreOK, Untouched, Replaying
    <2>3. CalmInv
      BY <2>1, <2>2 DEF CalmInv, NoLoss, Draining, KeysServed, AckedStored
    <2>4. SoloInv
      BY <2>1, <2>2 DEF SoloInv, Solo, Marks, Once, Replaying
    <2> QED
      BY <2>3, <2>4 DEF FaultFreeInvariant
  <1>2. BaseInv /\ FaultFreeInvariant /\ [Next]_vars => FaultFreeInvariant'
    BY FaultFreeNext
  <1> QED
    BY <1>1, <1>2, BaseHolds, PTL DEF Spec

\* Without a fault a spent key has its event in the topic or at work, and an
\* event answered with 202 can be replayed, shutdowns and restarts included.
THEOREM CompleteHolds == Spec => []FaultFreeComplete
  <1>1. FaultFreeInvariant => FaultFreeComplete
    BY DEF FaultFreeInvariant, FaultFreeComplete, CalmInv, KeysServed, Published, Carrying,
        AckedStored, Stored
  <1> QED
    BY <1>1, FaultFreeHolds, PTL

\* Replays of the DLQ that neither overlap nor fail repeat no row.
THEOREM SoloHolds == Spec => []SoloReplayOnce
  <1>1. FaultFreeInvariant => SoloReplayOnce
    BY DEF FaultFreeInvariant, SoloReplayOnce, SoloInv, Once
  <1> QED
    BY <1>1, FaultFreeHolds, PTL

\* A graceful shutdown within its timeouts cuts no handler and loses no message.
THEOREM ExitsCleanly == Spec => CleanExit
  <1> DEFINE Clean == phase # "down" /\ phase' = "down" /\ faults' = 0 =>
                        /\ \A r \in Requests : ~Active(r)
                        /\ \A i \in DOMAIN msgs : msgs[i].st = "ok" /\ InLog(i)
  <1>1. BaseInv /\ FaultFreeInvariant /\ [Next]_vars => [Clean]_vars
    <2> SUFFICES ASSUME BaseInv, FaultFreeInvariant, Next, phase # "down", phase' = "down", faults' = 0
                 PROVE  /\ \A r \in Requests : ~Active(r)
                        /\ \A i \in DOMAIN msgs : msgs[i].st = "ok" /\ InLog(i)
      OBVIOUS
    <2>1. NoLoss /\ Draining
      BY Onwards DEF FaultFreeInvariant, CalmInv
    <2>2. ~Fault
      BY Faultless DEF BaseInv
    <2>3. ASSUME NEW r \in Requests, Moves(r) PROVE FALSE
      BY <2>3 DEF Moves, HandlerStep, CheckIdempotency, CheckIdempotencyError, Replay, Produce, CallError,
        Delivered, Undelivered, GiveUp, EndStream, MarkDLQReplayed, LoopDone, StoreEvent, Accept
    <2>4. ASSUME NEW r \in Requests, NEW s \in Shapes, Arrive(r, s) PROVE FALSE
      BY <2>4 DEF Arrive, PublishEvent, PublishBatch, ReplayDLQ, ReplayEvents, OpenStream, Start
    <2>5. Exit
      BY <2>2, <2>3, <2>4 DEF Next, Moves, Deliver, DeliverError, ExpireKey, StoreDLQ, Signal, HttpStopped,
        GrpcStopped, Restart, Crash
    <2> QED
      BY <2>1, <2>5, NothingCut
  <1> QED
    BY <1>1, BaseHolds, FaultFreeHolds, PTL DEF Spec, CleanExit

=============================================================================
