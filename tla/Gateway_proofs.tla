--------------------------- MODULE Gateway_proofs ---------------------------
(***************************************************************************)
(* Proofs about Gateway, for every number of requests, keys and DLQ rows,  *)
(* every mix of requests and every combination of faults.                  *)
(***************************************************************************)
EXTENDS Gateway, WellFoundedInduction, TLAPS

-----------------------------------------------------------------------------
(* The choices of the loops exist *)

\* A non-empty set of numbers has a least one.
LEMMA LeastExists ==
    ASSUME NEW S \in SUBSET Nat, S # {}
    PROVE  \E x \in S : \A y \in S : x <= y
  <1> DEFINE R == OpToRel(<, Nat)
  <1>1. PICK x \in S : \A y \in S : ~(<<y, x>> \in R)
    <2>1. IsWellFoundedOn(R, Nat)
      BY NatLessThanWellFounded
    <2> HIDE DEF R
    <2> QED
      BY <2>1, WFMin
  <1>2. \A y \in S : ~(y < x)
    BY <1>1 DEF OpToRel
  <1> QED
    BY <1>2

\* Least returns an element of the set.
LEMMA LeastIn ==
    ASSUME NEW S \in SUBSET Nat, S # {}
    PROVE  Least(S) \in S
  BY LeastExists DEF Least

\* The loop of a handler has a next item.
LEMMA NextItemIn ==
    ASSUME NEW r \in Requests, req[r].todo \subseteq Item, req[r].todo # {}
    PROVE  NextItem(r) \in req[r].todo
  <1> DEFINE ranks == {it.rank : it \in req[r].todo}
  <1>1. ranks \subseteq Nat /\ ranks # {}
    BY DEF Item
  <1>2. PICK x \in ranks : \A y \in ranks : x <= y
    BY <1>1, LeastExists
  <1>3. \E it \in req[r].todo : \A o \in req[r].todo : it.rank <= o.rank
    BY <1>2
  <1> QED
    BY <1>3 DEF NextItem

-----------------------------------------------------------------------------
(* Types *)

\* TypeOK without what it says of single handlers.
TypeCore ==
    /\ phase \in {"up", "http", "grpc", "flush", "down"}
    /\ req \in [Requests -> Handler]
    /\ arrivals \in 0..MaxArrivals
    /\ msgs \in Seq(Msg)
    /\ log \in Seq(DOMAIN msgs)
    /\ delivered \in Seq(DOMAIN msgs)
    /\ keys \subseteq Keys
    /\ gen \in [Keys -> Nat]
    /\ rows \subseteq DOMAIN msgs
    /\ dlq \in Seq(BOOLEAN)
    /\ acked \subseteq DOMAIN msgs
    /\ overlapped \in BOOLEAN
    /\ faults \in Nat

\* What a request in progress may do: a statement of its handler, or the end of
\* its stream.
Moves(r) == HandlerStep(r) \/ EndStream(r)

\* What a handler has in its hands at each point of its loop; a stream has no loop.
HandlerInv(r) ==
    /\ req[r].pc # "idle" => r <= arrivals
    /\ req[r].pc \in {"wait", "mark"} =>
         /\ req[r].cur \in DOMAIN msgs
         /\ msgs[req[r].cur].kind = req[r].shape.kind
         /\ req[r].shape.kind = "dlq" => msgs[req[r].cur].ref \in DOMAIN dlq
    /\ req[r].pc = "mark" => req[r].shape.kind = "dlq" /\ InLog(req[r].cur)
    /\ req[r].pc = "store" => req[r].shape.kind \in {"publish", "batch"}
    /\ \A i \in req[r].out \cup req[r].left : InLog(i) /\ msgs[i].kind = req[r].shape.kind
    /\ req[r].shape.kind = "dlq" => \A it \in req[r].todo : it.ref \in DOMAIN dlq
    /\ req[r].shape.kind = "publish" => req[r].todo \subseteq RequestItems(req[r].shape)
    /\ req[r].pc = "check" => Keyed(r)
    /\ req[r].pc = "list" => req[r].shape.kind \in {"dlq", "range"}
    /\ req[r].pc \in {"check", "list", "send", "wait", "mark", "store"} =>
         req[r].shape.kind # "reflection"

\* Handlers that have not begun or have returned.
LEMMA IdleDone ==
    /\ Idle \in Handler /\ Idle.pc = "idle" /\ Idle.todo = {} /\ Idle.out = {} /\ Idle.left = {}
    /\ Done \in Handler /\ Done.pc = "done" /\ Done.todo = {} /\ Done.out = {} /\ Done.left = {}
  <1>1. (CHOOSE s \in Shapes : TRUE) \in Shapes
    BY ShapesAssumption
  <1> QED
    BY <1>1 DEF Idle, Done, Handler, PC

\* The updates of a handler are handlers.
LEMMA HandlerUpdates ==
    ASSUME NEW h \in Handler, NEW p \in PC, NEW todo \in SUBSET Item, NEW cur \in Nat,
           NEW out \in SUBSET Nat, NEW s \in Shapes
    PROVE  /\ [h EXCEPT !.pc = p] \in Handler
           /\ [h EXCEPT !.pc = p, !.todo = todo] \in Handler
           /\ [h EXCEPT !.pc = p, !.cur = cur, !.todo = todo] \in Handler
           /\ [h EXCEPT !.pc = p, !.out = out] \in Handler
           /\ [h EXCEPT !.pc = p, !.shape = s, !.todo = todo] \in Handler
  BY DEF Handler

\* The items of a publish or batch request.
LEMMA RequestItemsType ==
    ASSUME NEW s \in Shapes
    PROVE  RequestItems(s) \subseteq Item
  <1>1. s.keys \in Seq(Keys \cup {NoKey})
    BY ShapesAssumption DEF Shape
  <1>2. \A n \in DOMAIN s.keys : n \in Nat /\ s.keys[n] \in Keys \cup {NoKey}
    BY <1>1
  <1> QED
    BY <1>2 DEF RequestItems, Item

\* The items of a replay, which refer to rows of the DLQ if it is a DLQ replay.
LEMMA ListedType ==
    ASSUME TypeCore, NEW s \in Shapes
    PROVE  /\ Listed(s) \subseteq Item
           /\ s.kind = "dlq" => \A it \in Listed(s) : it.ref \in DOMAIN dlq
  <1>1. CASE s.kind = "dlq"
    <2>1. \A d \in DOMAIN dlq : d \in Nat /\ d <= Len(dlq) /\ Len(dlq) - d \in Nat
      BY DEF TypeCore
    <2>2. Listed(s) = {[rank |-> Len(dlq) - d, key |-> NoKey, ref |-> d] :
                        d \in {e \in ListDLQ(ReplayLimit) : Unreplayed(e)}}
      BY <1>1 DEF Listed
    <2>3. {e \in ListDLQ(ReplayLimit) : Unreplayed(e)} \subseteq DOMAIN dlq
      BY DEF ListDLQ
    <2> QED
      BY <2>1, <2>2, <2>3 DEF Item
  <1>2. CASE s.kind # "dlq"
    <2>1. \A n \in DOMAIN delivered : n \in Nat /\ delivered[n] \in Nat
      BY DEF TypeCore
    <2>2. Listed(s) = {[rank |-> n, key |-> NoKey, ref |-> delivered[n]] : n \in EventsInRange(s)}
      BY <1>2 DEF Listed
    <2>3. EventsInRange(s) \subseteq DOMAIN delivered
      BY DEF EventsInRange
    <2> QED
      BY <1>2, <2>1, <2>2, <2>3 DEF Item
  <1> QED
    BY <1>1, <1>2

-----------------------------------------------------------------------------
(* What no step takes back *)

Same(m, n) ==
    m.key = n.key /\ m.bare = n.bare /\ m.kind = n.kind /\ m.ref = n.ref /\ m.gen = n.gen

\* Messages keep what they are, the topic and the DLQ only grow.
Grown ==
    /\ DOMAIN msgs \subseteq DOMAIN msgs'
    /\ \A i \in DOMAIN msgs : Same(msgs'[i], msgs[i])
    /\ \A n \in DOMAIN log : n \in DOMAIN log' /\ log'[n] = log[n]
    /\ DOMAIN dlq \subseteq DOMAIN dlq'
    /\ arrivals <= arrivals'

\* A step that leaves Kafka, the DLQ and the arrivals alone.
LEMMA GrownSame ==
    ASSUME TypeCore, msgs' = msgs, log' = log, dlq' = dlq, arrivals' = arrivals
    PROVE  Grown
  BY DEF Grown, Same, TypeCore

\* The steps of the handlers take nothing back.
LEMMA GrownHandler ==
    ASSUME TypeCore, NEW r \in Requests, HandlerInv(r), Moves(r)
    PROVE  Grown
  <1>1. CASE Produce(r)
    <2>1. PICK m : msgs' = Append(msgs, m)
      BY <1>1 DEF Produce
    <2>2. log' = log /\ dlq' = dlq /\ arrivals' = arrivals
      BY <1>1 DEF Produce, pg
    <2>3. msgs \in Seq(Msg)
      BY DEF TypeCore
    <2>4. DOMAIN msgs \subseteq DOMAIN msgs' /\ \A i \in DOMAIN msgs : msgs'[i] = msgs[i]
      BY <2>1, <2>3
    <2> QED
      BY <2>2, <2>4 DEF Grown, Same, TypeCore
  <1>2. CASE MarkDLQReplayed(r)
    <2>1. msgs' = msgs /\ log' = log /\ arrivals' = arrivals
      BY <1>2 DEF MarkDLQReplayed, kafka
    <2>2. DOMAIN dlq' = DOMAIN dlq
      BY <1>2 DEF MarkDLQReplayed
    <2> QED
      BY <2>1, <2>2 DEF Grown, Same, TypeCore
  <1>3. CASE ~(Produce(r) \/ MarkDLQReplayed(r))
    <2>1. msgs' = msgs /\ log' = log /\ dlq' = dlq /\ arrivals' = arrivals
      BY <1>3 DEF Moves, HandlerStep, CheckIdempotency, CheckIdempotencyError, Replay, CallError, Delivered,
          Undelivered, GiveUp, EndStream, LoopDone, StoreEvent, Accept, kafka, pg
    <2> QED
      BY <2>1, GrownSame
  <1> QED
    BY <1>1, <1>2, <1>3

\* No step takes anything back.
LEMMA GrownNext ==
    ASSUME TypeCore, \A r \in Requests : HandlerInv(r), [Next]_vars
    PROVE  Grown
  <1>m. msgs \in Seq(Msg) /\ \A i \in DOMAIN msgs : msgs[i] \in Msg
    BY DEF TypeCore
  <1>1. ASSUME NEW r \in Requests, Moves(r) PROVE Grown
    BY <1>1, GrownHandler
  <1>2. ASSUME NEW r \in Requests, NEW s \in Shapes, Arrive(r, s) PROVE Grown
    <2>1. msgs' = msgs /\ log' = log /\ dlq' = dlq /\ r = arrivals + 1 /\ arrivals' = r
      BY <1>2 DEF Arrive, PublishEvent, PublishBatch, ReplayDLQ, ReplayEvents, OpenStream, Start, kafka, pg
    <2> QED
      BY <2>1 DEF Grown, Same, TypeCore
  <1>3. ASSUME NEW i \in DOMAIN msgs, Deliver(i) \/ DeliverError(i) PROVE Grown
    <2>1. PICK x : msgs' = [msgs EXCEPT ![i].st = x]
      BY <1>3 DEF Deliver, DeliverError
    <2>2. log' = log \/ log' = Append(log, i)
      BY <1>3 DEF Deliver, DeliverError
    <2>3. dlq' = dlq /\ arrivals' = arrivals
      BY <1>3 DEF Deliver, DeliverError, pg
    <2>4. DOMAIN msgs' = DOMAIN msgs /\ \A k \in DOMAIN msgs : Same(msgs'[k], msgs[k])
      <3>1. DOMAIN msgs' = DOMAIN msgs
        BY <2>1
      <3>2. \A k \in DOMAIN msgs : k # i => msgs'[k] = msgs[k]
        BY <2>1
      <3>3. msgs'[i] = [msgs[i] EXCEPT !.st = x]
        BY <2>1
      <3>4. Same(msgs'[i], msgs[i])
        BY <3>3, <1>m DEF Same, Msg
      <3> QED
        BY <3>1, <3>2, <3>4 DEF Same
    <2>5. \A n \in DOMAIN log : n \in DOMAIN log' /\ log'[n] = log[n]
      <3>1. log \in Seq(DOMAIN msgs)
        BY DEF TypeCore
      <3> QED
        BY <2>2, <3>1
    <2> QED
      BY <2>3, <2>4, <2>5 DEF Grown, TypeCore
  <1>4. CASE StoreDLQ
    <2>1. msgs' = msgs /\ log' = log /\ arrivals' = arrivals /\ dlq' = Append(dlq, FALSE)
      BY <1>4 DEF StoreDLQ, kafka
    <2>2. DOMAIN dlq \subseteq DOMAIN dlq'
      BY <2>1 DEF TypeCore
    <2> QED
      BY <2>1, <2>2 DEF Grown, Same, TypeCore
  <1>5. CASE Cut
    <2>1. log' = log /\ dlq' = dlq /\ arrivals' = arrivals
      BY <1>5 DEF Cut, pg
    <2>2. msgs' = [i \in DOMAIN msgs |-> [msgs[i] EXCEPT !.st = IF @ = "queued" THEN "err" ELSE @]]
      BY <1>5 DEF Cut
    <2>3. \A i \in DOMAIN msgs : Same(msgs'[i], msgs[i])
      BY <2>2, <1>m DEF Same, Msg
    <2>4. DOMAIN msgs' = DOMAIN msgs
      BY <2>2
    <2> QED
      BY <2>1, <2>3, <2>4 DEF Grown, TypeCore
  <1>6. CASE \/ \E k \in Keys : ExpireKey(k)
             \/ Signal \/ HttpStopped \/ GrpcStopped \/ Restart \/ UNCHANGED vars
    <2>1. msgs' = msgs /\ log' = log /\ dlq' = dlq /\ arrivals' = arrivals
      BY <1>6 DEF ExpireKey, Signal, HttpStopped, GrpcStopped, Restart, Others, vars, kafka, pg
    <2> QED
      BY <2>1, GrownSame
  <1> QED
    BY <1>1, <1>2, <1>3, <1>4, <1>5, <1>6 DEF Next, Moves, Exit, Crash

\* What is in the topic is a message, and stays there.
LEMMA InLogStays ==
    ASSUME TypeCore, Grown, NEW i, InLog(i)
    PROVE  i \in DOMAIN msgs /\ InLog(i)'
  <1>1. log \in Seq(DOMAIN msgs)
    BY DEF TypeCore
  <1>2. PICK n \in DOMAIN log : log[n] = i
    BY DEF InLog
  <1>3. i \in DOMAIN msgs
    BY <1>1, <1>2
  <1>4. InLog(i)'
    BY <1>2 DEF Grown, InLog
  <1> QED
    BY <1>3, <1>4

-----------------------------------------------------------------------------
(* Every step keeps the types *)

\* Faults are counted.
LEMMA FaultType ==
    ASSUME TypeCore, OK \/ Fault \/ TimedOut
    PROVE  faults' \in Nat
  BY DEF TypeCore, OK, Fault, TimedOut

\* Replacing one handler by a handler.
LEMMA ReqType ==
    ASSUME TypeCore, NEW r \in Requests, NEW h \in Handler, req' = [req EXCEPT ![r] = h]
    PROVE  req' \in [Requests -> Handler]
  BY DEF TypeCore

\* How each statement of a handler changes it.
LEMMA HandlerReq ==
    ASSUME TypeCore, NEW r \in Requests, HandlerInv(r), Moves(r)
    PROVE  req' \in [Requests -> Handler]
  <1>h. req[r] \in Handler /\ req[r].shape \in Shapes /\ req[r].todo \subseteq Item
        /\ req[r].out \subseteq Nat /\ req[r].left \subseteq Nat
    BY DEF TypeCore, Handler
  <1>goto. ASSUME NEW p \in PC, Goto(r, p) PROVE req' \in [Requests -> Handler]
    <2>1. req' = [req EXCEPT ![r] = [req[r] EXCEPT !.pc = p]]
      BY <1>goto DEF Goto
    <2> QED
      BY <2>1, <1>h, HandlerUpdates, ReqType
  <1>ret. ASSUME Return(r) PROVE req' \in [Requests -> Handler]
    BY <1>ret, IdleDone, ReqType DEF Return
  <1>1. CASE CheckIdempotency(r)
    BY <1>1, <1>goto, <1>ret DEF CheckIdempotency, PC
  <1>2. CASE Replay(r)
    <2>1. req' = [req EXCEPT ![r] = [req[r] EXCEPT !.pc = "send", !.todo = Listed(req[r].shape)]]
      BY <1>2 DEF Replay
    <2>2. Listed(req[r].shape) \subseteq Item /\ "send" \in PC
      BY <1>h, ListedType DEF PC
    <2> QED
      BY <2>1, <2>2, <1>h, HandlerUpdates, ReqType
  <1>3. CASE Produce(r)
    <2> DEFINE todo == req[r].todo \ {NextItem(r)}
    <2>1. req' = [req EXCEPT ![r] = [req[r] EXCEPT !.pc = "wait", !.cur = Len(msgs) + 1, !.todo = todo]]
      BY <1>3 DEF Produce
    <2>2. todo \subseteq Item /\ Len(msgs) + 1 \in Nat /\ "wait" \in PC
      BY <1>h DEF TypeCore, PC
    <2> HIDE DEF todo
    <2> QED
      BY <2>1, <2>2, <1>h, HandlerUpdates, ReqType
  <1>4. CASE Delivered(r)
    <2> DEFINE out == req[r].out \cup {req[r].cur}
               p == AfterDelivery(req[r].shape.kind)
    <2>1. req' = [req EXCEPT ![r] = [req[r] EXCEPT !.pc = p, !.out = out]]
      BY <1>4 DEF Delivered
    <2>2. p \in PC
      BY DEF PC, AfterDelivery
    <2>3. out \subseteq Nat
      BY <1>h DEF Handler
    <2> HIDE DEF p, out
    <2> QED
      BY <2>1, <2>2, <2>3, <1>h, HandlerUpdates, ReqType
  <1>5. CASE LoopDone(r)
    <2>1. \/ Return(r)
          \/ req' = [req EXCEPT ![r] = [req[r] EXCEPT !.pc = "store", !.left = req[r].out]]
      BY <1>5 DEF LoopDone
    <2>2. [req[r] EXCEPT !.pc = "store", !.left = req[r].out] \in Handler
      BY <1>h DEF Handler, PC
    <2> QED
      BY <2>1, <2>2, <1>ret, ReqType
  <1>6. CASE StoreEvent(r)
    <2> DEFINE left == req[r].left \ {Least(req[r].left)}
    <2>1. req' = [req EXCEPT ![r] = [req[r] EXCEPT !.left = left]]
      BY <1>6 DEF StoreEvent
    <2>2. left \subseteq Nat
      BY <1>h
    <2> HIDE DEF left
    <2>3. [req[r] EXCEPT !.left = left] \in Handler
      BY <2>2, <1>h DEF Handler
    <2> QED
      BY <2>1, <2>3, ReqType
  <1>7. CASE MarkDLQReplayed(r)
    BY <1>7, <1>goto DEF MarkDLQReplayed, PC
  <1>8. CASE CheckIdempotencyError(r) \/ CallError(r) \/ Undelivered(r) \/ GiveUp(r) \/ EndStream(r) \/ Accept(r)
    BY <1>8, <1>ret DEF CheckIdempotencyError, CallError, Undelivered, GiveUp, EndStream, Accept
  <1> QED
    BY <1>1, <1>2, <1>3, <1>4, <1>5, <1>6, <1>7, <1>8 DEF Moves, HandlerStep

\* Statements of the handlers keep the types.
LEMMA TypeHandler ==
    ASSUME TypeCore, NEW r \in Requests, HandlerInv(r), Moves(r)
    PROVE  TypeCore'
  <1>r. req' \in [Requests -> Handler]
    BY HandlerReq
  <1>h. req[r] \in Handler /\ req[r].todo \subseteq Item
        /\ req[r].out \subseteq Nat /\ req[r].left \subseteq Nat
    BY DEF TypeCore, Handler
  <1>out. req[r].out \cup req[r].left \subseteq DOMAIN msgs
    <2>1. \A i : InLog(i) => i \in DOMAIN msgs
      BY DEF InLog, TypeCore
    <2> QED
      BY <2>1 DEF HandlerInv
  <1>f. faults' \in Nat
    <2>1. OK \/ Fault
      BY DEF Moves, HandlerStep, CheckIdempotency, CheckIdempotencyError, Replay, Produce, CallError,
          Delivered, Undelivered, GiveUp, EndStream, MarkDLQReplayed, LoopDone, StoreEvent, Accept
    <2> QED
      BY <2>1, FaultType
  <1>1. CASE CheckIdempotency(r) \/ CheckIdempotencyError(r)
    <2>1. Keyed(r)
      BY <1>1 DEF CheckIdempotency, CheckIdempotencyError, HandlerInv
    <2>2. KeyOf(r) \in Keys
      <3>1. req[r].shape \in Shapes
        BY <1>h DEF Handler
      <3>2. req[r].shape.keys \in Seq(Keys \cup {NoKey}) /\ Len(req[r].shape.keys) = 1
        BY <2>1, <3>1, ShapesAssumption DEF Keyed, Shape
      <3>3. req[r].shape.keys[1] \in Keys \cup {NoKey}
        BY <3>2
      <3> QED
        BY <2>1, <3>3 DEF Keyed, KeyOf
    <2>3. keys' \subseteq Keys
      BY <1>1, <2>2 DEF CheckIdempotency, CheckIdempotencyError, TypeCore
    <2> QED
      BY <1>1, <1>r, <1>f, <2>3 DEF CheckIdempotency, CheckIdempotencyError, TypeCore, kafka, pg
  <1>2. CASE Produce(r)
    <2> DEFINE it == NextItem(r)
               m == [key |-> it.key, bare |-> req[r].shape.bare, kind |-> req[r].shape.kind,
                     ref |-> it.ref, by |-> r, st |-> "queued",
                     gen |-> IF it.key = NoKey THEN 0 ELSE gen[it.key]]
    <2>1. msgs' = Append(msgs, m)
      BY <1>2 DEF Produce
    <2>2. it \in Item
      BY <1>2, <1>h, NextItemIn DEF Produce
    <2>3. m \in Msg
      <3>1. req[r].shape.kind \in Kinds /\ req[r].shape.bare \in BOOLEAN
        BY <1>h, ShapesAssumption DEF Handler, Shape
      <3>2. it.key \in Keys \cup {NoKey} /\ it.ref \in Nat
        BY <2>2 DEF Item
      <3>3. it.key # NoKey => gen[it.key] \in Nat
        BY <3>2 DEF TypeCore
      <3> HIDE DEF it
      <3> QED
        BY <3>1, <3>2, <3>3 DEF Msg
    <2> HIDE DEF m
    <2>4. msgs' \in Seq(Msg) /\ DOMAIN msgs \subseteq DOMAIN msgs'
      BY <2>1, <2>3 DEF TypeCore
    <2>5. log' = log /\ delivered' = delivered /\ rows' = rows /\ acked' = acked
      BY <1>2 DEF Produce, pg
    <2>6. log' \in Seq(DOMAIN msgs') /\ delivered' \in Seq(DOMAIN msgs')
      BY <2>4, <2>5 DEF TypeCore
    <2>7. rows' \subseteq DOMAIN msgs' /\ acked' \subseteq DOMAIN msgs'
      BY <2>4, <2>5 DEF TypeCore
    <2> QED
      BY <1>2, <1>r, <1>f, <2>4, <2>6, <2>7 DEF Produce, TypeCore, redis, pg
  <1>3. CASE Delivered(r)
    <2>1. req[r].cur \in DOMAIN msgs
      BY <1>3 DEF Delivered, HandlerInv
    <2>2. delivered' \in Seq(DOMAIN msgs)
      BY <1>3, <2>1 DEF Delivered, TypeCore
    <2> QED
      BY <1>3, <1>r, <1>f, <2>2 DEF Delivered, TypeCore, kafka, redis, pg
  <1>4. CASE MarkDLQReplayed(r)
    <2>1. dlq' \in Seq(BOOLEAN)
      <3>1. dlq \in [1..Len(dlq) -> BOOLEAN] /\ Len(dlq) \in Nat
        BY DEF TypeCore
      <3>2. dlq' \in [1..Len(dlq) -> BOOLEAN]
        BY <1>4, <3>1, Zenon DEF MarkDLQReplayed
      <3> QED
        BY <3>1, <3>2
    <2> QED
      BY <1>4, <1>r, <1>f, <2>1 DEF MarkDLQReplayed, TypeCore, kafka, redis
  <1>5. CASE StoreEvent(r)
    <2>1. Least(req[r].left) \in req[r].left
      BY <1>5, <1>h, LeastIn DEF StoreEvent
    <2>2. rows' \subseteq DOMAIN msgs
      BY <1>5, <2>1, <1>out DEF StoreEvent, TypeCore
    <2> QED
      BY <1>5, <1>r, <1>f, <2>2 DEF StoreEvent, TypeCore, kafka, redis
  <1>6. CASE Accept(r)
    BY <1>6, <1>r, <1>f, <1>out DEF Accept, TypeCore, kafka, redis, pg
  <1>7. CASE Replay(r) \/ CallError(r) \/ Undelivered(r) \/ GiveUp(r) \/ EndStream(r) \/ LoopDone(r)
    BY <1>7, <1>r, <1>f DEF Replay, CallError, Undelivered, GiveUp, EndStream, LoopDone, TypeCore,
        kafka, redis, pg
  <1> QED
    BY <1>1, <1>2, <1>3, <1>4, <1>5, <1>6, <1>7 DEF Moves, HandlerStep

\* A request that arrives is bound to a well-typed handler.
LEMMA TypeArrive ==
    ASSUME TypeCore, NEW r \in Requests, NEW s \in Shapes, Arrive(r, s)
    PROVE  TypeCore'
  <1>1. PICK p \in PC, items \in SUBSET Item : Start(r, s, p, items)
    BY RequestItemsType DEF Arrive, PublishEvent, PublishBatch, ReplayDLQ, ReplayEvents, OpenStream, PC
  <1>2. req' = [req EXCEPT ![r] = [Idle EXCEPT !.pc = p, !.shape = s, !.todo = items]]
    BY <1>1 DEF Start
  <1>3. [Idle EXCEPT !.pc = p, !.shape = s, !.todo = items] \in Handler
    BY IdleDone DEF Handler
  <1>4. req' \in [Requests -> Handler]
    BY <1>2, <1>3, ReqType
  <1>5. arrivals' \in 0..MaxArrivals
    BY <1>1, BoundsAssumption DEF Start, Requests
  <1>6. overlapped' \in BOOLEAN
    BY <1>1 DEF Start
  <1> QED
    BY <1>1, <1>4, <1>5, <1>6 DEF Start, OK, TypeCore, kafka, redis, pg

\* A message that changes its state is a message.
LEMMA MsgsType ==
    ASSUME TypeCore, NEW i \in DOMAIN msgs, NEW x \in {"queued", "ok", "err"},
           msgs' = [msgs EXCEPT ![i].st = x]
    PROVE  msgs' \in Seq(Msg) /\ DOMAIN msgs' = DOMAIN msgs
  <1>1. msgs \in [1..Len(msgs) -> Msg] /\ Len(msgs) \in Nat /\ DOMAIN msgs = 1..Len(msgs)
    BY DEF TypeCore
  <1> DEFINE m == [msgs[i] EXCEPT !.st = x]
  <1>2. m \in Msg
    BY <1>1 DEF Msg
  <1>3. msgs' = [msgs EXCEPT ![i] = m]
    OBVIOUS
  <1> HIDE DEF m
  <1>4. msgs' \in [1..Len(msgs) -> Msg]
    BY <1>1, <1>2, <1>3
  <1> QED
    BY <1>1, <1>4

\* Every step keeps the types.
LEMMA TypeNext ==
    ASSUME TypeCore, \A r \in Requests : HandlerInv(r), [Next]_vars
    PROVE  TypeCore'
  <1>1. ASSUME NEW r \in Requests, Moves(r) PROVE TypeCore'
    BY <1>1, TypeHandler
  <1>2. ASSUME NEW r \in Requests, NEW s \in Shapes, Arrive(r, s) PROVE TypeCore'
    BY <1>2, TypeArrive
  <1>3. ASSUME NEW i \in DOMAIN msgs, Deliver(i) \/ DeliverError(i) PROVE TypeCore'
    <2>1. msgs' \in Seq(Msg) /\ DOMAIN msgs' = DOMAIN msgs
      BY <1>3, MsgsType DEF Deliver, DeliverError
    <2>2. log' \in Seq(DOMAIN msgs)
      <3>1. log' = log \/ log' = Append(log, i)
        BY <1>3 DEF Deliver, DeliverError
      <3>2. log \in Seq(DOMAIN msgs)
        BY DEF TypeCore
      <3> QED
        BY <3>1, <3>2
    <2>3. faults' \in Nat
      BY <1>3, FaultType DEF Deliver, DeliverError
    <2> QED
      BY <1>3, <2>1, <2>2, <2>3 DEF Deliver, DeliverError, TypeCore, redis, pg
  <1>4. ASSUME NEW k \in Keys, ExpireKey(k) PROVE TypeCore'
    BY <1>4 DEF ExpireKey, OK, TypeCore, kafka, pg
  <1>5. CASE StoreDLQ
    <2>1. dlq' \in Seq(BOOLEAN)
      BY <1>5 DEF StoreDLQ, TypeCore
    <2> QED
      BY <1>5, <2>1 DEF StoreDLQ, OK, TypeCore, kafka, redis
  <1>6. CASE Signal \/ HttpStopped \/ GrpcStopped \/ Restart
    <2>1. faults' \in Nat
      BY <1>6, FaultType DEF Signal, HttpStopped, GrpcStopped, Restart
    <2> QED
      BY <1>6, <2>1 DEF Signal, HttpStopped, GrpcStopped, Restart, Others, TypeCore, kafka, redis, pg
  <1>7. CASE Exit \/ Crash
    <2>1. faults' \in Nat
      BY <1>7, FaultType DEF Exit, Crash
    <2>2. Cut
      BY <1>7 DEF Exit, Crash
    <2>3. req' \in [Requests -> Handler]
      BY <2>2, IdleDone DEF Cut, TypeCore
    <2>4. msgs' \in Seq(Msg) /\ DOMAIN msgs' = DOMAIN msgs
      <3>1. msgs \in [1..Len(msgs) -> Msg] /\ Len(msgs) \in Nat /\ DOMAIN msgs = 1..Len(msgs)
        BY DEF TypeCore
      <3>2. \A i \in DOMAIN msgs :
              [msgs[i] EXCEPT !.st = IF @ = "queued" THEN "err" ELSE @] \in Msg
        BY <3>1 DEF Msg
      <3>3. msgs' \in [1..Len(msgs) -> Msg]
        BY <2>2, <3>1, <3>2 DEF Cut
      <3> QED
        BY <3>1, <3>3
    <2> QED
      BY <2>1, <2>2, <2>3, <2>4 DEF Cut, TypeCore, redis, pg
  <1>8. CASE UNCHANGED vars
    BY <1>8 DEF vars, TypeCore, kafka, redis, pg
  <1> QED
    BY <1>1, <1>2, <1>3, <1>4, <1>5, <1>6, <1>7, <1>8 DEF Next, Moves

-----------------------------------------------------------------------------
(* What the handlers have in their hands *)

\* A message the producer reported as delivered is in the topic.
ReportsTrue == \A i \in DOMAIN msgs : msgs[i].st = "ok" => InLog(i)

\* No step makes a report false.
LEMMA ReportsTrueNext ==
    ASSUME TypeCore, \A r \in Requests : HandlerInv(r), ReportsTrue, [Next]_vars
    PROVE  ReportsTrue'
  <1> SUFFICES ASSUME NEW i \in DOMAIN msgs', msgs'[i].st = "ok" PROVE InLog(i)'
    BY DEF ReportsTrue
  <1>g. Grown
    BY GrownNext
  <1>old. ASSUME i \in DOMAIN msgs, msgs[i].st = "ok" PROVE InLog(i)'
    BY <1>old, <1>g, InLogStays DEF ReportsTrue
  <1>m. msgs \in Seq(Msg) /\ log \in Seq(DOMAIN msgs)
    BY DEF TypeCore
  <1>1. CASE msgs' = msgs
    BY <1>1, <1>old
  <1>2. ASSUME NEW r \in Requests, Produce(r) PROVE InLog(i)'
    <2>1. PICK m : msgs' = Append(msgs, m) /\ m.st = "queued"
      BY <1>2 DEF Produce
    <2>2. i \in DOMAIN msgs /\ msgs'[i] = msgs[i]
      BY <2>1, <1>m
    <2> QED
      BY <2>2, <1>old
  <1>3. ASSUME NEW k \in DOMAIN msgs, Deliver(k) PROVE InLog(i)'
    <2>1. msgs' = [msgs EXCEPT ![k].st = "ok"] /\ log' = Append(log, k)
      BY <1>3 DEF Deliver
    <2>2. CASE i = k
      <3>1. Len(log) + 1 \in DOMAIN log' /\ log'[Len(log) + 1] = k
        BY <2>1, <1>m
      <3> QED
        BY <2>2, <3>1 DEF InLog
    <2>3. CASE i # k
      BY <2>1, <2>3, <1>old
    <2> QED
      BY <2>2, <2>3
  <1>4. ASSUME NEW k \in DOMAIN msgs, DeliverError(k) PROVE InLog(i)'
    <2>1. msgs' = [msgs EXCEPT ![k].st = "err"]
      BY <1>4 DEF DeliverError
    <2>2. msgs'[k].st = "err"
      <3>1. msgs[k] \in Msg
        BY <1>m
      <3> QED
        BY <2>1, <3>1 DEF Msg
    <2>3. i # k /\ i \in DOMAIN msgs /\ msgs'[i] = msgs[i]
      BY <2>1, <2>2
    <2> QED
      BY <2>3, <1>old
  <1>5. CASE Cut
    <2>1. msgs' = [n \in DOMAIN msgs |-> [msgs[n] EXCEPT !.st = IF @ = "queued" THEN "err" ELSE @]]
      BY <1>5 DEF Cut
    <2>2. i \in DOMAIN msgs /\ msgs[i] \in Msg
      BY <2>1, <1>m
    <2>3. msgs'[i].st = IF msgs[i].st = "queued" THEN "err" ELSE msgs[i].st
      BY <2>1, <2>2 DEF Msg
    <2> QED
      BY <2>2, <2>3, <1>old
  <1>6. ASSUME NEW r \in Requests, Moves(r), ~Produce(r) PROVE msgs' = msgs
    BY <1>6 DEF Moves, HandlerStep, CheckIdempotency, CheckIdempotencyError, Replay, CallError, Delivered,
        Undelivered, GiveUp, EndStream, MarkDLQReplayed, LoopDone, StoreEvent, Accept, kafka
  <1>7. ASSUME NEW r \in Requests, NEW s \in Shapes, Arrive(r, s) PROVE msgs' = msgs
    BY <1>7 DEF Arrive, PublishEvent, PublishBatch, ReplayDLQ, ReplayEvents, OpenStream, Start, kafka
  <1>8. CASE \/ \E k \in Keys : ExpireKey(k)
             \/ StoreDLQ \/ Signal \/ HttpStopped \/ GrpcStopped \/ Restart \/ UNCHANGED vars
    <2>1. msgs' = msgs
      BY <1>8 DEF ExpireKey, StoreDLQ, Signal, HttpStopped, GrpcStopped, Restart, Others, vars, kafka
    <2> QED
      BY <2>1, <1>1
  <1> QED
    BY <1>1, <1>2, <1>3, <1>4, <1>5, <1>6, <1>7, <1>8 DEF Next, Moves, Exit, Crash

\* What a handler has in its hands stays true while the others work.
LEMMA HandlerStays ==
    ASSUME NEW q \in Requests, TypeCore, HandlerInv(q), Grown, req'[q] = req[q], TypeCore'
    PROVE  HandlerInv(q)'
  <1>0. arrivals <= arrivals' /\ q \in Nat /\ arrivals \in Nat /\ arrivals' \in Nat
    BY BoundsAssumption DEF Grown, TypeCore, Requests
  <1>1. req[q].pc # "idle" => q <= arrivals'
    BY <1>0 DEF HandlerInv
  <1>2. \A i \in DOMAIN msgs :
          i \in DOMAIN msgs' /\ msgs'[i].kind = msgs[i].kind /\ msgs'[i].ref = msgs[i].ref
    BY DEF Grown, Same
  <1>3. \A i : InLog(i) => i \in DOMAIN msgs /\ InLog(i)'
    BY InLogStays
  <1>4. DOMAIN dlq \subseteq DOMAIN dlq'
    BY DEF Grown
  <1> QED
    BY <1>1, <1>2, <1>3, <1>4 DEF HandlerInv, Keyed, KeyOf

\* A handler that has returned has nothing in its hands.
LEMMA HandlerReturned ==
    ASSUME NEW r \in Requests, r <= arrivals', req'[r] = Done
    PROVE  HandlerInv(r)'
  BY IdleDone DEF HandlerInv

\* Every statement of a handler leaves it with what HandlerInv says.
LEMMA HandlerInvStep ==
    ASSUME TypeCore, ReportsTrue, NEW r \in Requests, HandlerInv(r), Moves(r), Grown, TypeCore'
    PROVE  HandlerInv(r)'
  <1>0. req[r].pc # "idle" /\ r <= arrivals /\ arrivals' = arrivals
    <2>1. req[r].pc # "idle" /\ arrivals' = arrivals
      BY DEF Moves, HandlerStep, CheckIdempotency, CheckIdempotencyError, Replay, Produce, CallError,
          Delivered, Undelivered, GiveUp, EndStream, MarkDLQReplayed, LoopDone, StoreEvent, Accept
    <2> QED
      BY <2>1 DEF HandlerInv
  <1>h. req \in [Requests -> Handler] /\ req[r] \in Handler /\ req[r].shape \in Shapes
        /\ req[r].todo \subseteq Item
    BY DEF TypeCore, Handler
  <1>m. \A i \in DOMAIN msgs :
          i \in DOMAIN msgs' /\ msgs'[i].kind = msgs[i].kind /\ msgs'[i].ref = msgs[i].ref
    BY DEF Grown, Same
  <1>l. \A i : InLog(i) => i \in DOMAIN msgs /\ InLog(i)'
    BY InLogStays
  <1>d. DOMAIN dlq \subseteq DOMAIN dlq'
    BY DEF Grown
  <1>ret. ASSUME Return(r) PROVE HandlerInv(r)'
    BY <1>ret, <1>0, <1>h, HandlerReturned DEF Return
  \* A statement that moves on and leaves the hands as they are.
  <1>goto. ASSUME NEW p, p = "send", req[r].pc \in {"check", "mark"},
                  req'[r] = [req[r] EXCEPT !.pc = p]
           PROVE  HandlerInv(r)'
    <2>1. /\ req'[r].pc = "send" /\ req'[r].shape = req[r].shape /\ req'[r].todo = req[r].todo
          /\ req'[r].out = req[r].out /\ req'[r].left = req[r].left
      BY <1>goto, <1>h DEF Handler
    <2> QED
      BY <2>1, <1>goto, <1>0, <1>m, <1>l, <1>d DEF HandlerInv
  <1>1. CASE CheckIdempotency(r)
    BY <1>1, <1>h, <1>ret, <1>goto DEF CheckIdempotency, Goto
  <1>2. CASE Replay(r)
    <2>1. req'[r] = [req[r] EXCEPT !.pc = "send", !.todo = Listed(req[r].shape)]
      BY <1>2, <1>h DEF Replay
    <2>2. /\ req'[r].pc = "send" /\ req'[r].shape = req[r].shape
          /\ req'[r].todo = Listed(req[r].shape)
          /\ req'[r].out = req[r].out /\ req'[r].left = req[r].left
      BY <2>1, <1>h DEF Handler
    <2>3. req[r].shape.kind \in {"dlq", "range"}
      BY <1>2 DEF Replay, HandlerInv
    <2> QED
      BY <2>2, <2>3, <1>0, <1>h, <1>m, <1>l, <1>d, ListedType DEF HandlerInv
  <1>3. CASE Produce(r)
    <2> DEFINE it == NextItem(r)
               m == [key |-> it.key, bare |-> req[r].shape.bare, kind |-> req[r].shape.kind,
                     ref |-> it.ref, by |-> r, st |-> "queued",
                     gen |-> IF it.key = NoKey THEN 0 ELSE gen[it.key]]
    <2>1. msgs' = Append(msgs, m)
      BY <1>3 DEF Produce
    <2>2. it \in req[r].todo
      BY <1>3, <1>h, NextItemIn DEF Produce
    <2>3. m.kind = req[r].shape.kind /\ m.ref = it.ref
      OBVIOUS
    <2> HIDE DEF m
    <2>4. Len(msgs) + 1 \in DOMAIN msgs' /\ msgs'[Len(msgs) + 1] = m
      BY <2>1 DEF TypeCore
    <2>5. req'[r] = [req[r] EXCEPT !.pc = "wait", !.cur = Len(msgs) + 1, !.todo = req[r].todo \ {it}]
      BY <1>3, <1>h DEF Produce
    <2> HIDE DEF it
    <2>6. /\ req'[r].pc = "wait" /\ req'[r].shape = req[r].shape
          /\ req'[r].todo = req[r].todo \ {it} /\ req'[r].cur = Len(msgs) + 1
          /\ req'[r].out = req[r].out /\ req'[r].left = req[r].left
      BY <2>5, <1>h DEF Handler
    <2>7. req[r].shape.kind = "dlq" => it.ref \in DOMAIN dlq'
      BY <2>2, <1>d DEF HandlerInv
    <2>8. req[r].shape.kind # "reflection"
      BY <1>3 DEF Produce, HandlerInv
    <2> QED
      BY <2>3, <2>4, <2>6, <2>7, <2>8, <1>0, <1>m, <1>l, <1>d DEF HandlerInv
  <1>4. CASE Delivered(r)
    <2>1. req'[r] = [req[r] EXCEPT !.pc = AfterDelivery(req[r].shape.kind),
                                   !.out = req[r].out \cup {req[r].cur}]
      BY <1>4, <1>h DEF Delivered
    <2>2. /\ req'[r].pc = AfterDelivery(req[r].shape.kind) /\ req'[r].shape = req[r].shape
          /\ req'[r].todo = req[r].todo /\ req'[r].cur = req[r].cur
          /\ req'[r].out = req[r].out \cup {req[r].cur} /\ req'[r].left = req[r].left
      BY <2>1, <1>h DEF Handler
    <2>3. req[r].pc = "wait" /\ req[r].cur \in DOMAIN msgs /\ msgs[req[r].cur].st = "ok"
      BY <1>4 DEF Delivered, Reported, HandlerInv
    <2>4. InLog(req[r].cur) /\ msgs[req[r].cur].kind = req[r].shape.kind
      BY <2>3 DEF ReportsTrue, HandlerInv
    <2>5. req'[r].pc \in {"send", "mark"} /\ (req'[r].pc = "mark" => req[r].shape.kind = "dlq")
      BY <2>2 DEF AfterDelivery
    <2> QED
      BY <2>2, <2>3, <2>4, <2>5, <1>0, <1>m, <1>l, <1>d DEF HandlerInv
  <1>5. CASE LoopDone(r)
    <2>1. CASE req[r].shape.kind \in {"dlq", "range"}
      BY <1>5, <2>1, <1>ret DEF LoopDone
    <2>2. CASE req[r].shape.kind \notin {"dlq", "range"}
      <3>1. req'[r] = [req[r] EXCEPT !.pc = "store", !.left = req[r].out]
        BY <1>5, <2>2, <1>h DEF LoopDone
      <3>2. /\ req'[r].pc = "store" /\ req'[r].shape = req[r].shape /\ req'[r].todo = req[r].todo
            /\ req'[r].out = req[r].out /\ req'[r].left = req[r].out
        BY <3>1, <1>h DEF Handler
      <3>3. req[r].shape.kind \in {"publish", "batch"}
        BY <1>5, <2>2, <1>h, ShapesAssumption DEF LoopDone, HandlerInv, Shape, Kinds
      <3> QED
        BY <3>2, <3>3, <1>0, <1>m, <1>l, <1>d DEF HandlerInv
    <2> QED
      BY <2>1, <2>2
  <1>6. CASE StoreEvent(r)
    <2> DEFINE left == req[r].left \ {Least(req[r].left)}
    <2>1. req'[r] = [req[r] EXCEPT !.left = left]
      BY <1>6, <1>h DEF StoreEvent
    <2>2. /\ req'[r].pc = req[r].pc /\ req'[r].shape = req[r].shape /\ req'[r].todo = req[r].todo
          /\ req'[r].out = req[r].out /\ req'[r].left \subseteq req[r].left
      BY <2>1, <1>h DEF Handler
    <2>3. req[r].pc = "store"
      BY <1>6 DEF StoreEvent
    <2> QED
      BY <2>2, <2>3, <1>0, <1>m, <1>l, <1>d DEF HandlerInv
  <1>7. CASE MarkDLQReplayed(r)
    BY <1>7, <1>h, <1>goto DEF MarkDLQReplayed, Goto
  <1>8. CASE CheckIdempotencyError(r) \/ CallError(r) \/ Undelivered(r) \/ GiveUp(r) \/ EndStream(r) \/ Accept(r)
    BY <1>8, <1>ret DEF CheckIdempotencyError, CallError, Undelivered, GiveUp, EndStream, Accept
  <1> QED
    BY <1>1, <1>2, <1>3, <1>4, <1>5, <1>6, <1>7, <1>8 DEF Moves, HandlerStep

\* A statement of one handler leaves the others alone.
LEMMA OthersAlone ==
    ASSUME TypeCore, NEW r \in Requests, NEW q \in Requests, q # r, Moves(q)
    PROVE  req'[r] = req[r]
  <1>1. req \in [Requests -> Handler]
    BY DEF TypeCore
  <1> QED
    BY <1>1 DEF Moves, HandlerStep, CheckIdempotency, CheckIdempotencyError, Replay, Produce, CallError,
        Delivered, Undelivered, GiveUp, EndStream, MarkDLQReplayed, LoopDone, StoreEvent, Accept, Return, Goto

\* The handler of a request that arrives.
LEMMA ArriveHandler ==
    ASSUME TypeCore, NEW r \in Requests, NEW s \in Shapes, Arrive(r, s)
    PROVE  /\ \A q \in Requests : q # r => req'[q] = req[q]
           /\ r = arrivals + 1 /\ arrivals' = r
           /\ req'[r].shape = s /\ req'[r].out = {} /\ req'[r].left = {}
           /\ s.kind = "publish" => /\ req'[r].todo = RequestItems(s)
                                    /\ s.keys[1] = NoKey => req'[r].pc = "send"
                                    /\ s.keys[1] # NoKey => req'[r].pc = "check"
           /\ s.kind = "batch" => req'[r].todo = RequestItems(s) /\ req'[r].pc = "send"
           /\ s.kind \in {"dlq", "range"} => req'[r].todo = {} /\ req'[r].pc = "list"
           /\ s.kind = "reflection" => req'[r].todo = {} /\ req'[r].pc = "hold"
           /\ s.kind \in Kinds
  <1>1. PICK p, items :
          /\ Start(r, s, p, items)
          /\ s.kind = "publish" => /\ items = RequestItems(s)
                                   /\ p = IF s.keys[1] = NoKey THEN "send" ELSE "check"
          /\ s.kind = "batch" => items = RequestItems(s) /\ p = "send"
          /\ s.kind \in {"dlq", "range"} => items = {} /\ p = "list"
          /\ s.kind = "reflection" => items = {} /\ p = "hold"
    BY DEF Arrive, PublishEvent, PublishBatch, ReplayDLQ, ReplayEvents, OpenStream
  <1> DEFINE h == [Idle EXCEPT !.pc = p, !.shape = s, !.todo = items]
  <1>2. req' = [req EXCEPT ![r] = h] /\ r = arrivals + 1 /\ arrivals' = r
    BY <1>1 DEF Start
  <1>3. h.pc = p /\ h.shape = s /\ h.todo = items /\ h.out = {} /\ h.left = {}
    BY DEF Idle
  <1> HIDE DEF h
  <1>4. req'[r] = h /\ \A q \in Requests : q # r => req'[q] = req[q]
    BY <1>2 DEF TypeCore
  <1>5. s.kind \in Kinds
    BY ShapesAssumption DEF Shape
  <1> QED
    BY <1>1, <1>2, <1>3, <1>4, <1>5

\* HandlerInv is kept by every step, for every handler.
LEMMA HandlerInvNext ==
    ASSUME TypeCore, ReportsTrue, \A r \in Requests : HandlerInv(r), [Next]_vars
    PROVE  \A r \in Requests : HandlerInv(r)'
  <1> SUFFICES ASSUME NEW r \in Requests PROVE HandlerInv(r)'
    OBVIOUS
  <1>g. Grown /\ TypeCore'
    BY GrownNext, TypeNext
  <1>same. ASSUME req'[r] = req[r] PROVE HandlerInv(r)'
    BY <1>same, <1>g, HandlerStays
  <1>1. ASSUME NEW q \in Requests, Moves(q) PROVE HandlerInv(r)'
    <2>1. CASE q = r
      BY <1>1, <2>1, <1>g, HandlerInvStep
    <2>2. CASE q # r
      BY <1>1, <2>2, <1>same, OthersAlone
    <2> QED
      BY <2>1, <2>2
  <1>2. ASSUME NEW q \in Requests, NEW s \in Shapes, Arrive(q, s) PROVE HandlerInv(r)'
    <2>1. CASE q = r
      <3>1. /\ arrivals' = r
            /\ req'[r].shape = s /\ req'[r].out = {} /\ req'[r].left = {}
            /\ s.kind = "publish" => /\ req'[r].todo = RequestItems(s)
                                     /\ s.keys[1] = NoKey => req'[r].pc = "send"
                                     /\ s.keys[1] # NoKey => req'[r].pc = "check"
            /\ s.kind = "batch" => req'[r].todo = RequestItems(s) /\ req'[r].pc = "send"
            /\ s.kind \in {"dlq", "range"} => req'[r].todo = {} /\ req'[r].pc = "list"
            /\ s.kind = "reflection" => req'[r].todo = {} /\ req'[r].pc = "hold"
            /\ s.kind \in {"publish", "batch", "dlq", "range", "reflection"}
        BY <1>2, <2>1, ArriveHandler DEF Kinds
      <3>2. r <= arrivals'
        BY <3>1 DEF Requests
      <3> QED
        BY <3>1, <3>2 DEF HandlerInv, Keyed, KeyOf
    <2>2. CASE q # r
      BY <1>2, <2>2, <1>same, ArriveHandler
    <2> QED
      BY <2>1, <2>2
  <1>3. CASE Cut
    <2>1. req'[r] = IF Active(r) THEN Done ELSE req[r]
      BY <1>3 DEF Cut
    <2>2. CASE Active(r)
      <3>1. r <= arrivals /\ arrivals' = arrivals
        BY <1>3, <2>2 DEF Cut, Active, HandlerInv
      <3> QED
        BY <2>1, <2>2, <3>1, HandlerReturned
    <2>3. CASE ~Active(r)
      BY <2>1, <2>3, <1>same
    <2> QED
      BY <2>2, <2>3
  <1>4. CASE \/ \E i \in DOMAIN msgs : Deliver(i) \/ DeliverError(i)
             \/ \E k \in Keys : ExpireKey(k)
             \/ StoreDLQ \/ Signal \/ HttpStopped \/ GrpcStopped \/ Restart \/ UNCHANGED vars
    <2>1. req' = req
      BY <1>4 DEF Deliver, DeliverError, ExpireKey, StoreDLQ, Signal, HttpStopped, GrpcStopped,
          Restart, Others, vars
    <2> QED
      BY <2>1, <1>same
  <1> QED
    BY <1>1, <1>2, <1>3, <1>4 DEF Next, Moves, Exit, Crash

-----------------------------------------------------------------------------
(* The inductive invariant, and types *)

BaseInv == TypeCore /\ ReportsTrue /\ \A r \in Requests : HandlerInv(r)

\* BaseInv holds in the initial state.
LEMMA BaseInit ==
    ASSUME Init
    PROVE  BaseInv
  <1>1. TypeCore
    <2>1. req \in [Requests -> Handler]
      BY IdleDone DEF Init
    <2>2. arrivals \in 0..MaxArrivals
      BY BoundsAssumption DEF Init
    <2>3. /\ msgs \in Seq(Msg) /\ log \in Seq(DOMAIN msgs) /\ delivered \in Seq(DOMAIN msgs)
          /\ dlq \in Seq(BOOLEAN)
      BY DEF Init
    <2>4. overlapped \in BOOLEAN /\ gen \in [Keys -> Nat]
      BY DEF Init
    <2> QED
      BY <2>1, <2>2, <2>3, <2>4 DEF Init, TypeCore
  <1>2. ReportsTrue
    BY DEF Init, ReportsTrue
  <1>3. ASSUME NEW r \in Requests PROVE HandlerInv(r)
    <2>1. req[r] = Idle
      BY DEF Init
    <2> QED
      BY <2>1, IdleDone DEF HandlerInv
  <1> QED
    BY <1>1, <1>2, <1>3 DEF BaseInv

\* BaseInv is kept by every step.
LEMMA BaseNext ==
    ASSUME BaseInv, [Next]_vars
    PROVE  BaseInv'
  BY TypeNext, ReportsTrueNext, HandlerInvNext DEF BaseInv

\* BaseInv holds in every reachable state.
LEMMA BaseHolds == Spec => []BaseInv
  BY BaseInit, BaseNext, PTL DEF Spec

\* BaseInv says what TypeOK says.
LEMMA BaseType ==
    ASSUME BaseInv
    PROVE  TypeOK
  <1>1. \A i : InLog(i) => i \in DOMAIN msgs
    BY DEF BaseInv, TypeCore, InLog
  <1>2. \A r \in Requests :
          /\ req[r].pc # "idle" => r <= arrivals
          /\ req[r].pc \in {"wait", "mark"} => req[r].cur \in DOMAIN msgs
          /\ req[r].pc = "mark" => msgs[req[r].cur].ref \in DOMAIN dlq
          /\ req[r].out \cup req[r].left \subseteq DOMAIN msgs
          /\ req[r].shape.kind = "dlq" => \A it \in req[r].todo : it.ref \in DOMAIN dlq
    BY <1>1 DEF BaseInv, HandlerInv
  <1> QED
    BY <1>2 DEF BaseInv, TypeCore, TypeOK

\* Every reachable state of the publish and replay handlers is well-typed; in
\* particular the row a replay marks exists and a handler waits for a message
\* that was handed to the producer.
THEOREM TypeCorrect == Spec => []TypeOK
  BY BaseHolds, BaseType, PTL

-----------------------------------------------------------------------------
(* What the gateway vouches for is in the topic *)

\* Whatever becomes acknowledged or stored was delivered for a publish or batch request.
LEMMA ClaimsEvents ==
    ASSUME BaseInv, [Next]_vars, NEW i \in acked' \cup rows', i \notin acked \cup rows
    PROVE  InLog(i) /\ msgs[i].kind \in {"publish", "batch"}
  <1>1. ASSUME NEW r \in Requests, StoreEvent(r) PROVE InLog(i) /\ msgs[i].kind \in {"publish", "batch"}
    <2>1. i = Least(req[r].left) /\ req[r].left # {} /\ req[r].pc = "store"
      BY <1>1 DEF StoreEvent
    <2>2. req[r].left \subseteq Nat /\ HandlerInv(r)
      BY DEF BaseInv, TypeCore, Handler
    <2>3. i \in req[r].left
      BY <2>1, <2>2, LeastIn
    <2> QED
      BY <2>1, <2>2, <2>3 DEF HandlerInv
  <1>2. ASSUME NEW r \in Requests, Accept(r) PROVE InLog(i) /\ msgs[i].kind \in {"publish", "batch"}
    <2>1. i \in req[r].out /\ req[r].pc = "store"
      BY <1>2 DEF Accept, pg
    <2>2. HandlerInv(r)
      BY DEF BaseInv
    <2> QED
      BY <2>1, <2>2 DEF HandlerInv
  <1>3. ASSUME NEW r \in Requests, Moves(r), ~StoreEvent(r), ~Accept(r) PROVE FALSE
    BY <1>3 DEF Moves, HandlerStep, CheckIdempotency, CheckIdempotencyError, Replay, Produce, CallError,
        Delivered, Undelivered, GiveUp, EndStream, MarkDLQReplayed, LoopDone, pg
  <1>4. ASSUME NEW r \in Requests, NEW s \in Shapes, Arrive(r, s) PROVE FALSE
    BY <1>4 DEF Arrive, PublishEvent, PublishBatch, ReplayDLQ, ReplayEvents, OpenStream, Start, pg
  <1>5. ASSUME \/ \E k \in DOMAIN msgs : Deliver(k) \/ DeliverError(k)
               \/ \E k \in Keys : ExpireKey(k)
               \/ StoreDLQ \/ Signal \/ HttpStopped \/ GrpcStopped \/ Restart \/ Cut
               \/ UNCHANGED vars
        PROVE  FALSE
    BY <1>5 DEF Deliver, DeliverError, ExpireKey, StoreDLQ, Signal, HttpStopped, GrpcStopped,
        Restart, Others, Cut, vars, pg
  <1> QED
    BY <1>1, <1>2, <1>3, <1>4, <1>5 DEF Next, Moves, Exit, Crash

\* A DLQ row becomes marked only when its replay is in the topic.
LEMMA ClaimsReplays ==
    ASSUME BaseInv, [Next]_vars, NEW d \in DOMAIN dlq', dlq'[d], ~(d \in DOMAIN dlq /\ dlq[d])
    PROVE  \E i \in DOMAIN msgs : InLog(i) /\ msgs[i].kind = "dlq" /\ msgs[i].ref = d
  <1>d. dlq \in Seq(BOOLEAN)
    BY DEF BaseInv, TypeCore
  <1>1. ASSUME NEW r \in Requests, MarkDLQReplayed(r)
        PROVE  \E i \in DOMAIN msgs : InLog(i) /\ msgs[i].kind = "dlq" /\ msgs[i].ref = d
    <2>1. DOMAIN dlq' = DOMAIN dlq /\ (d # msgs[req[r].cur].ref => dlq'[d] = dlq[d])
      BY <1>1, <1>d DEF MarkDLQReplayed
    <2>2. d = msgs[req[r].cur].ref
      BY <2>1
    <2>3. req[r].pc = "mark" /\ HandlerInv(r)
      BY <1>1 DEF MarkDLQReplayed, BaseInv
    <2> QED
      BY <2>2, <2>3 DEF HandlerInv
  <1>2. ASSUME StoreDLQ PROVE FALSE
    <2>1. dlq' = Append(dlq, FALSE)
      BY <1>2 DEF StoreDLQ
    <2>2. d = Len(dlq) + 1 \/ (d \in DOMAIN dlq /\ dlq'[d] = dlq[d])
      BY <2>1, <1>d
    <2>3. dlq'[Len(dlq) + 1] = FALSE
      BY <2>1, <1>d
    <2> QED
      BY <2>2, <2>3
  <1>3. ASSUME NEW r \in Requests, Moves(r), ~MarkDLQReplayed(r) PROVE dlq' = dlq
    BY <1>3 DEF Moves, HandlerStep, CheckIdempotency, CheckIdempotencyError, Replay, Produce, CallError,
        Delivered, Undelivered, GiveUp, EndStream, LoopDone, StoreEvent, Accept, pg
  <1>4. ASSUME NEW r \in Requests, NEW s \in Shapes, Arrive(r, s) PROVE dlq' = dlq
    BY <1>4 DEF Arrive, PublishEvent, PublishBatch, ReplayDLQ, ReplayEvents, OpenStream, Start, pg
  <1>5. ASSUME \/ \E k \in DOMAIN msgs : Deliver(k) \/ DeliverError(k)
               \/ \E k \in Keys : ExpireKey(k)
               \/ Signal \/ HttpStopped \/ GrpcStopped \/ Restart \/ Cut
               \/ UNCHANGED vars
        PROVE  dlq' = dlq
    BY <1>5 DEF Deliver, DeliverError, ExpireKey, Signal, HttpStopped, GrpcStopped,
        Restart, Others, Cut, vars, pg
  <1>6. CASE dlq' = dlq
    BY <1>6
  <1> QED
    BY <1>1, <1>2, <1>3, <1>4, <1>5, <1>6 DEF Next, Moves, Exit, Crash

\* The claims stay true: what is new was delivered, and no step takes it back.
LEMMA ClaimsNext ==
    ASSUME BaseInv, ClaimsInLog, [Next]_vars
    PROVE  ClaimsInLog'
  <1>g. TypeCore /\ Grown
    BY GrownNext DEF BaseInv
  <1>l. ASSUME NEW i, InLog(i)
        PROVE  /\ InLog(i)' /\ i \in DOMAIN msgs' /\ msgs'[i].kind = msgs[i].kind
               /\ msgs'[i].ref = msgs[i].ref
    BY <1>l, <1>g, InLogStays DEF Grown, Same
  <1>1. ASSUME NEW i \in acked' \cup rows'
        PROVE  InLog(i)' /\ msgs'[i].kind \in {"publish", "batch"}
    <2>1. InLog(i) /\ msgs[i].kind \in {"publish", "batch"}
      BY ClaimsEvents DEF ClaimsInLog
    <2> QED
      BY <2>1, <1>l
  <1>2. ASSUME NEW d \in DOMAIN dlq', dlq'[d]
        PROVE  \E i \in DOMAIN msgs' : InLog(i)' /\ msgs'[i].kind = "dlq" /\ msgs'[i].ref = d
    <2>1. \E i \in DOMAIN msgs : InLog(i) /\ msgs[i].kind = "dlq" /\ msgs[i].ref = d
      BY <1>2, ClaimsReplays DEF ClaimsInLog
    <2> QED
      BY <2>1, <1>l
  <1> QED
    BY <1>1, <1>2 DEF ClaimsInLog

\* The gateway never vouches for an event that is not in the topic: not in a 202
\* answer, not with a row of events, not with replayed_at; for every number of
\* requests and whatever fails.
THEOREM Claims == Spec => []ClaimsInLog
  <1>1. Init => ClaimsInLog
    BY DEF Init, ClaimsInLog
  <1>2. BaseInv /\ ClaimsInLog /\ [Next]_vars => ClaimsInLog'
    BY ClaimsNext
  <1> QED
    BY <1>1, <1>2, BaseHolds, PTL DEF Spec

-----------------------------------------------------------------------------
(* One event for one idempotency key *)

\* A request that has won its key and has not published yet.
Pending(r) == Keyed(r) /\ req[r].pc = "send" /\ req[r].todo # {}

\* A publish request that waits for a report has nothing left to publish.
Waits(r) == req[r].shape.kind = "publish" /\ req[r].pc = "wait" => req[r].todo = {}

\* An event published with a key belongs to a generation of the key that is over,
\* or to the present one, and then the key is in Redis.
KeysSpent ==
    \A i \in DOMAIN msgs : msgs[i].kind = "publish" /\ msgs[i].key # NoKey =>
        /\ msgs[i].gen <= gen[msgs[i].key]
        /\ msgs[i].gen = gen[msgs[i].key] => msgs[i].key \in keys

\* Whoever is about to publish with a key holds it alone and for the first time.
KeysHeld ==
    \A r \in Requests : Pending(r) =>
        /\ KeyOf(r) \in keys
        /\ \A i \in DOMAIN msgs :
            msgs[i].kind = "publish" /\ msgs[i].key = KeyOf(r) => msgs[i].gen # gen[KeyOf(r)]
        /\ \A q \in Requests : q # r /\ Pending(q) => KeyOf(q) # KeyOf(r)

KeyInv == KeyOnce /\ KeysSpent /\ KeysHeld /\ \A r \in Requests : Waits(r)

\* The key of a keyed request.
LEMMA KeyType ==
    ASSUME TypeCore, NEW r \in Requests, Keyed(r)
    PROVE  KeyOf(r) \in Keys /\ \A it \in RequestItems(req[r].shape) : it.key = KeyOf(r)
  <1>1. req[r].shape \in Shapes
    BY DEF TypeCore, Handler
  <1>2. req[r].shape.keys \in Seq(Keys \cup {NoKey}) /\ Len(req[r].shape.keys) = 1
    BY <1>1, ShapesAssumption DEF Keyed, Shape
  <1>3. DOMAIN req[r].shape.keys = {1} /\ req[r].shape.keys[1] \in Keys \cup {NoKey}
    BY <1>2
  <1> QED
    BY <1>3 DEF Keyed, KeyOf, RequestItems

\* A publish request has a single event: once it is taken nothing is left.
LEMMA SingleItem ==
    ASSUME TypeCore, NEW r \in Requests, HandlerInv(r), req[r].shape.kind = "publish",
           NEW x \in req[r].todo, NEW y \in req[r].todo
    PROVE  x = y
  <1>1. req[r].shape \in Shapes
    BY DEF TypeCore, Handler
  <1>2. req[r].shape.keys \in Seq(Keys \cup {NoKey}) /\ Len(req[r].shape.keys) = 1
    BY <1>1, ShapesAssumption DEF Shape
  <1>3. DOMAIN req[r].shape.keys = {1}
    BY <1>2
  <1>4. x \in RequestItems(req[r].shape) /\ y \in RequestItems(req[r].shape)
    BY DEF HandlerInv
  <1> QED
    BY <1>3, <1>4 DEF RequestItems

\* Only CheckIdempotency makes a request pending, and a request keeps its key.
LEMMA PendingStep ==
    ASSUME BaseInv, NEW r \in Requests, Waits(r), Moves(r)
    PROVE  /\ Waits(r)'
           /\ Pending(r)' => /\ Keyed(r) /\ KeyOf(r)' = KeyOf(r)
                             /\ CheckIdempotency(r) \/ (Pending(r) /\ ~Produce(r))
  <1>h. req \in [Requests -> Handler] /\ req[r] \in Handler /\ req[r].todo \subseteq Item
        /\ TypeCore /\ HandlerInv(r)
    BY DEF BaseInv, TypeCore, Handler
  <1>ret. ASSUME Return(r) PROVE Waits(r)' /\ ~Pending(r)'
    <2>1. req'[r] = Done
      BY <1>ret, <1>h DEF Return
    <2> QED
      BY <2>1, IdleDone DEF Waits, Pending
  <1>1. CASE CheckIdempotency(r)
    <2>1. CASE Return(r)
      BY <2>1, <1>ret
    <2>2. CASE Goto(r, "send")
      <3>1. req'[r].pc = "send" /\ req'[r].shape = req[r].shape
        BY <2>2, <1>h DEF Goto, Handler
      <3> QED
        BY <1>1, <3>1 DEF Waits, Pending, Keyed, KeyOf
    <2> QED
      BY <1>1, <2>1, <2>2 DEF CheckIdempotency
  <1>2. CASE Replay(r)
    <2>1. req'[r].pc = "send" /\ req'[r].shape = req[r].shape
      BY <1>2, <1>h DEF Replay, Handler
    <2>2. req[r].shape.kind \in {"dlq", "range"}
      BY <1>2, <1>h DEF Replay, HandlerInv
    <2> QED
      BY <2>1, <2>2 DEF Waits, Pending, Keyed
  <1>3. CASE Produce(r)
    <2>1. /\ req'[r].pc = "wait" /\ req'[r].shape = req[r].shape
          /\ req'[r].todo = req[r].todo \ {NextItem(r)}
      BY <1>3, <1>h DEF Produce, Handler
    <2>2. NextItem(r) \in req[r].todo
      BY <1>3, <1>h, NextItemIn DEF Produce
    <2>3. req[r].shape.kind = "publish" => req'[r].todo = {}
      BY <2>1, <2>2, <1>h, SingleItem
    <2> QED
      BY <2>1, <2>3 DEF Waits, Pending
  <1>4. CASE Delivered(r)
    <2>1. /\ req'[r].pc \in {"send", "mark"} /\ req'[r].shape = req[r].shape
          /\ req'[r].todo = req[r].todo
      BY <1>4, <1>h DEF Delivered, Handler, AfterDelivery
    <2>2. req[r].pc = "wait"
      BY <1>4 DEF Delivered
    <2> QED
      BY <2>1, <2>2 DEF Waits, Pending, Keyed
  <1>5. CASE MarkDLQReplayed(r)
    <2>1. req'[r].pc = "send" /\ req'[r].shape = req[r].shape
      BY <1>5, <1>h DEF MarkDLQReplayed, Goto, Handler
    <2>2. req[r].shape.kind = "dlq"
      BY <1>5, <1>h DEF MarkDLQReplayed, HandlerInv
    <2> QED
      BY <2>1, <2>2 DEF Waits, Pending, Keyed
  <1>6. CASE LoopDone(r)
    <2>1. CASE Return(r)
      BY <2>1, <1>ret
    <2>2. CASE ~Return(r)
      <3>1. req'[r].pc = "store"
        BY <1>6, <2>2, <1>h DEF LoopDone, Handler
      <3> QED
        BY <3>1 DEF Waits, Pending
    <2> QED
      BY <2>1, <2>2
  <1>7. CASE StoreEvent(r)
    <2>1. req'[r].pc = "store"
      BY <1>7, <1>h DEF StoreEvent, Handler
    <2> QED
      BY <2>1 DEF Waits, Pending
  <1>8. CASE CheckIdempotencyError(r) \/ CallError(r) \/ Undelivered(r) \/ GiveUp(r) \/ EndStream(r) \/ Accept(r)
    BY <1>8, <1>ret DEF CheckIdempotencyError, CallError, Undelivered, GiveUp, EndStream, Accept
  <1> QED
    BY <1>1, <1>2, <1>3, <1>4, <1>5, <1>6, <1>7, <1>8 DEF Moves, HandlerStep

\* A request is pending after a step only if it was before, or has won its key now.
LEMMA PendingNext ==
    ASSUME BaseInv, NEW r \in Requests, Waits(r), [Next]_vars
    PROVE  /\ Waits(r)'
           /\ Pending(r)' => /\ Keyed(r) /\ KeyOf(r)' = KeyOf(r)
                             /\ CheckIdempotency(r) \/ (Pending(r) /\ ~Produce(r))
  <1>h. TypeCore
    BY DEF BaseInv
  <1>same. ASSUME req'[r] = req[r]
           PROVE  Waits(r)' /\ (Pending(r)' => Keyed(r) /\ KeyOf(r)' = KeyOf(r) /\ Pending(r) /\ ~Produce(r))
    <2>1. ASSUME Produce(r) PROVE FALSE
      <3>1. req'[r].pc = "wait" /\ req[r].pc = "send"
        BY <1>h, <2>1 DEF Produce, TypeCore, Handler
      <3> QED
        BY <3>1, <1>same
    <2> QED
      BY <1>same, <2>1 DEF Waits, Pending, Keyed, KeyOf
  <1>1. ASSUME NEW q \in Requests, Moves(q)
        PROVE  /\ Waits(r)'
               /\ Pending(r)' => /\ Keyed(r) /\ KeyOf(r)' = KeyOf(r)
                                 /\ CheckIdempotency(r) \/ (Pending(r) /\ ~Produce(r))
    BY <1>1, <1>h, <1>same, OthersAlone, PendingStep
  <1>2. ASSUME NEW q \in Requests, NEW s \in Shapes, Arrive(q, s)
        PROVE  /\ Waits(r)'
               /\ Pending(r)' => /\ Keyed(r) /\ KeyOf(r)' = KeyOf(r)
                                 /\ CheckIdempotency(r) \/ (Pending(r) /\ ~Produce(r))
    <2>1. CASE q # r
      BY <1>2, <2>1, <1>h, <1>same, ArriveHandler
    <2>2. CASE q = r
      <3>1. /\ req'[r].shape = s
            /\ s.kind = "publish" => /\ s.keys[1] = NoKey => req'[r].pc = "send"
                                     /\ s.keys[1] # NoKey => req'[r].pc = "check"
        BY <1>2, <2>2, <1>h, ArriveHandler
      <3> QED
        BY <3>1 DEF Waits, Pending, Keyed, KeyOf
    <2> QED
      BY <2>1, <2>2
  <1>3. CASE Cut
    <2>1. req'[r] = Done \/ req'[r] = req[r]
      BY <1>3 DEF Cut
    <2>2. CASE req'[r] = Done
      BY <2>2, IdleDone DEF Waits, Pending
    <2> QED
      BY <2>1, <2>2, <1>same
  <1>4. CASE \/ \E i \in DOMAIN msgs : Deliver(i) \/ DeliverError(i)
             \/ \E k \in Keys : ExpireKey(k)
             \/ StoreDLQ \/ Signal \/ HttpStopped \/ GrpcStopped \/ Restart \/ UNCHANGED vars
    <2>1. req' = req
      BY <1>4 DEF Deliver, DeliverError, ExpireKey, StoreDLQ, Signal, HttpStopped, GrpcStopped,
          Restart, Others, vars
    <2> QED
      BY <2>1, <1>same
  <1> QED
    BY <1>1, <1>2, <1>3, <1>4 DEF Next, Moves, Exit, Crash

\* Steps that neither publish, nor win a key, nor let one expire.
LEMMA KeyQuiet ==
    ASSUME BaseInv, [Next]_vars, ~\E r \in Requests : Produce(r) \/ CheckIdempotency(r),
           ~\E k \in Keys : ExpireKey(k)
    PROVE  DOMAIN msgs' = DOMAIN msgs /\ keys \subseteq keys' /\ gen' = gen
  <1>1. ASSUME NEW r \in Requests, Moves(r)
        PROVE  DOMAIN msgs' = DOMAIN msgs /\ keys \subseteq keys' /\ gen' = gen
    BY <1>1 DEF Moves, HandlerStep, CheckIdempotencyError, Replay, CallError,
        Delivered, Undelivered, GiveUp, EndStream, MarkDLQReplayed, LoopDone, StoreEvent, Accept, kafka, redis
  <1>2. ASSUME NEW r \in Requests, NEW s \in Shapes, Arrive(r, s)
        PROVE  DOMAIN msgs' = DOMAIN msgs /\ keys \subseteq keys' /\ gen' = gen
    BY <1>2 DEF Arrive, PublishEvent, PublishBatch, ReplayDLQ, ReplayEvents, OpenStream, Start, kafka, redis
  <1>3. CASE \/ \E k \in DOMAIN msgs : Deliver(k) \/ DeliverError(k)
             \/ StoreDLQ \/ Signal \/ HttpStopped \/ GrpcStopped \/ Restart \/ Cut
             \/ UNCHANGED vars
    BY <1>3 DEF Deliver, DeliverError, StoreDLQ, Signal, HttpStopped, GrpcStopped,
        Restart, Others, Cut, vars, kafka, redis
  <1> QED
    BY <1>1, <1>2, <1>3 DEF Next, Moves, Exit, Crash

\* KeyInv is kept by every step.
LEMMA KeyNext ==
    ASSUME BaseInv, KeyInv, [Next]_vars
    PROVE  KeyInv'
  <1>t. TypeCore /\ msgs \in Seq(Msg) /\ gen \in [Keys -> Nat] /\ keys \subseteq Keys
    BY DEF BaseInv, TypeCore
  <1>k. \A i \in DOMAIN msgs : msgs[i].gen \in Nat /\ msgs[i].key \in Keys \cup {NoKey}
    <2>1. \A i \in DOMAIN msgs : msgs[i] \in Msg
      BY <1>t
    <2> QED
      BY <2>1 DEF Msg
  <1>s. \A i \in DOMAIN msgs : i \in DOMAIN msgs' /\ Same(msgs'[i], msgs[i])
    BY <1>t, GrownNext DEF BaseInv, Grown
  <1>w. \A r \in Requests : Waits(r)'
    BY PendingNext DEF KeyInv
  <1>p. ASSUME NEW r \in Requests, Pending(r)'
        PROVE  /\ Keyed(r) /\ KeyOf(r)' = KeyOf(r)
               /\ CheckIdempotency(r) \/ (Pending(r) /\ ~Produce(r))
    BY <1>p, PendingNext DEF KeyInv
  <1>1. ASSUME NEW r \in Requests, Produce(r) PROVE KeyInv'
    <2> DEFINE n == Len(msgs) + 1
               it == NextItem(r)
               m == [key |-> it.key, bare |-> req[r].shape.bare, kind |-> req[r].shape.kind,
                     ref |-> it.ref, by |-> r, st |-> "queued",
                     gen |-> IF it.key = NoKey THEN 0 ELSE gen[it.key]]
    <2>1. msgs' = Append(msgs, m) /\ keys' = keys /\ gen' = gen
      BY <1>1 DEF Produce, redis
    <2>2. it \in req[r].todo /\ req[r].pc = "send"
      <3>1. req[r].todo \subseteq Item /\ req[r].todo # {} /\ req[r].pc = "send"
        BY <1>1, <1>t DEF TypeCore, Handler, Produce
      <3> QED
        BY <3>1, NextItemIn
    <2>3. ASSUME m.kind = "publish", m.key # NoKey
          PROVE  Pending(r) /\ m.key = KeyOf(r) /\ m.key \in keys /\ m.gen = gen[m.key]
      <3>1. it \in RequestItems(req[r].shape)
        BY <2>2, <2>3 DEF BaseInv, HandlerInv
      <3>2. Keyed(r)
        <4>1. req[r].shape \in Shapes
          BY <1>t DEF TypeCore, Handler
        <4>2. req[r].shape.keys \in Seq(Keys \cup {NoKey}) /\ Len(req[r].shape.keys) = 1
          BY <4>1, <2>3, ShapesAssumption DEF Shape
        <4>3. DOMAIN req[r].shape.keys = {1}
          BY <4>2
        <4> QED
          BY <4>3, <3>1, <2>3 DEF RequestItems, Keyed, KeyOf
      <3>3. it.key = KeyOf(r)
        BY <3>1, <3>2, <1>t, KeyType
      <3>4. Pending(r)
        BY <3>2, <2>2 DEF Pending
      <3> QED
        BY <2>3, <3>3, <3>4 DEF KeyInv, KeysHeld
    <2> HIDE DEF m, it
    <2>4. DOMAIN msgs' = DOMAIN msgs \cup {n} /\ n \notin DOMAIN msgs /\ msgs'[n] = m
          /\ \A i \in DOMAIN msgs : msgs'[i] = msgs[i]
      BY <2>1, <1>t
    <2> HIDE DEF n
    <2>5. KeyOnce'
      <3>1. ASSUME NEW i \in DOMAIN msgs, msgs[i].kind = "publish", m.kind = "publish",
                   m.key # NoKey, msgs[i].key = m.key
            PROVE  msgs[i].gen # m.gen
        BY <3>1, <2>3 DEF KeyInv, KeysHeld
      <3> QED
        BY <3>1, <2>4 DEF KeyInv, KeyOnce
    <2>6. KeysSpent'
      <3>1. m.kind = "publish" /\ m.key # NoKey => m.gen <= gen[m.key] /\ m.key \in keys
        BY <2>3, <1>t
      <3> QED
        BY <3>1, <2>1, <2>4 DEF KeyInv, KeysSpent
    <2>7. KeysHeld'
      <3>1. ASSUME NEW q \in Requests, Pending(q)' PROVE q # r /\ Pending(q) /\ KeyOf(q)' = KeyOf(q)
        <4>1. ~CheckIdempotency(q)
          <5>1. CASE q = r
            BY <5>1, <2>2 DEF CheckIdempotency
          <5>2. CASE q # r
            <6>1. req'[q] = req[q]
              BY <1>1, <1>t, <5>2 DEF Produce, TypeCore
            <6>2. req'[q].pc = "send"
              BY <3>1 DEF Pending
            <6> QED
              BY <6>1, <6>2 DEF CheckIdempotency
          <5> QED
            BY <5>1, <5>2
        <4> QED
          BY <3>1, <1>p, <1>1, <4>1
      <3>2. ASSUME NEW q \in Requests, Pending(q)', m.kind = "publish", m.key = KeyOf(q) PROVE FALSE
        <4>1. q # r /\ Pending(q) /\ Keyed(q)
          BY <3>1, <3>2 DEF Pending
        <4>2. Pending(r) /\ m.key = KeyOf(r)
          BY <4>1, <3>2, <2>3 DEF Keyed
        <4> QED
          BY <4>1, <4>2, <3>2 DEF KeyInv, KeysHeld
      <3>3. ASSUME NEW q \in Requests, Pending(q)'
            PROVE  /\ KeyOf(q)' \in keys'
                   /\ \A i \in DOMAIN msgs' : msgs'[i].kind = "publish" /\ msgs'[i].key = KeyOf(q)'
                        => msgs'[i].gen # gen'[KeyOf(q)']
        BY <3>1, <3>2, <3>3, <2>1, <2>4 DEF KeyInv, KeysHeld
      <3>4. \A q, o \in Requests : Pending(q)' /\ Pending(o)' /\ o # q => KeyOf(o)' # KeyOf(q)'
        BY <3>1 DEF KeyInv, KeysHeld
      <3> QED
        BY <3>3, <3>4 DEF KeysHeld
    <2> QED
      BY <2>5, <2>6, <2>7, <1>w DEF KeyInv
  <1>2. ASSUME NEW k \in Keys, ExpireKey(k) PROVE KeyInv'
    <2>1. /\ k \in keys /\ keys' = keys \ {k} /\ gen' = [gen EXCEPT ![k] = @ + 1]
          /\ msgs' = msgs /\ req' = req
          /\ \A r \in Requests : Active(r) /\ Keyed(r) => KeyOf(r) # k
      BY <1>2 DEF ExpireKey, kafka
    <2>2. gen'[k] = gen[k] + 1 /\ gen[k] \in Nat /\ \A c \in Keys : c # k => gen'[c] = gen[c]
      BY <2>1, <1>t
    <2>3. KeyOnce'
      BY <2>1 DEF KeyInv, KeyOnce
    <2>4. KeysSpent'
      BY <2>1, <2>2, <1>k DEF KeyInv, KeysSpent
    <2>5. KeysHeld'
      <3>1. ASSUME NEW r \in Requests, Pending(r)' PROVE Pending(r) /\ KeyOf(r)' = KeyOf(r) /\ KeyOf(r) # k
        BY <3>1, <2>1 DEF Pending, Keyed, KeyOf, Active
      <3>2. \A r \in Requests : Pending(r) => KeyOf(r) \in Keys
        BY <1>t, KeyType DEF Pending
      <3> QED
        BY <3>1, <3>2, <2>1, <2>2 DEF KeyInv, KeysHeld
    <2> QED
      BY <2>3, <2>4, <2>5, <1>w DEF KeyInv
  <1>3. ASSUME NEW r \in Requests, CheckIdempotency(r) PROVE KeyInv'
    <2>1. msgs' = msgs /\ gen' = gen
      BY <1>3 DEF CheckIdempotency, kafka
    <2>2. KeyOnce'
      BY <2>1 DEF KeyInv, KeyOnce
    <2>3. keys \subseteq keys'
      BY <1>3 DEF CheckIdempotency
    <2>4. KeysSpent'
      BY <2>1, <2>3 DEF KeyInv, KeysSpent
    <2>5. ASSUME NEW q \in Requests, Pending(q)', q # r PROVE Pending(q) /\ KeyOf(q)' = KeyOf(q)
      <3>1. req'[q] = req[q]
        BY <1>3, <1>t, <2>5, OthersAlone DEF Moves, HandlerStep
      <3> QED
        BY <3>1, <2>5 DEF Pending, Keyed, KeyOf
    <2>6. ASSUME Pending(r)' PROVE KeyOf(r)' = KeyOf(r) /\ KeyOf(r) \notin keys /\ KeyOf(r) \in keys' /\ Keyed(r)
      <3>1. KeyOf(r)' = KeyOf(r) /\ Keyed(r)
        BY <2>6, <1>p
      <3>2. ~Return(r)
        <4>1. Return(r) => req'[r] = Done
          BY <1>t DEF Return, TypeCore
        <4> QED
          BY <4>1, <2>6, IdleDone DEF Pending
      <3> QED
        BY <3>1, <3>2, <1>3 DEF CheckIdempotency, Duplicate
    <2>7. ASSUME Pending(r)', NEW i \in DOMAIN msgs, msgs[i].kind = "publish", msgs[i].key = KeyOf(r)
          PROVE  msgs[i].gen # gen[KeyOf(r)]
      BY <2>6, <2>7 DEF KeyInv, KeysSpent, Keyed
    <2>8. KeysHeld'
      <3>1. ASSUME NEW q \in Requests, Pending(q)'
            PROVE  /\ KeyOf(q)' \in keys'
                   /\ \A i \in DOMAIN msgs' : msgs'[i].kind = "publish" /\ msgs'[i].key = KeyOf(q)'
                        => msgs'[i].gen # gen'[KeyOf(q)']
        <4>1. CASE q = r
          BY <4>1, <3>1, <2>1, <2>6, <2>7
        <4>2. CASE q # r
          BY <4>2, <3>1, <2>1, <2>3, <2>5 DEF KeyInv, KeysHeld
        <4> QED
          BY <4>1, <4>2
      <3>2. ASSUME NEW q \in Requests, NEW o \in Requests, Pending(q)', Pending(o)', o # q
            PROVE  KeyOf(o)' # KeyOf(q)'
        <4>1. CASE q # r /\ o # r
          BY <4>1, <3>2, <2>5 DEF KeyInv, KeysHeld
        <4>2. CASE q = r
          BY <4>2, <3>2, <2>5, <2>6 DEF KeyInv, KeysHeld
        <4>3. CASE o = r
          BY <4>3, <3>2, <2>5, <2>6 DEF KeyInv, KeysHeld
        <4> QED
          BY <4>1, <4>2, <4>3
      <3> QED
        BY <3>1, <3>2 DEF KeysHeld
    <2> QED
      BY <2>2, <2>4, <2>8, <1>w DEF KeyInv
  <1>4. CASE /\ ~\E r \in Requests : Produce(r) \/ CheckIdempotency(r)
             /\ ~\E k \in Keys : ExpireKey(k)
    <2>1. DOMAIN msgs' = DOMAIN msgs /\ keys \subseteq keys' /\ gen' = gen
      BY <1>4, KeyQuiet
    <2>2. \A i \in DOMAIN msgs :
            msgs'[i].key = msgs[i].key /\ msgs'[i].kind = msgs[i].kind /\ msgs'[i].gen = msgs[i].gen
      BY <1>s DEF Same
    <2>3. \A r \in Requests : Pending(r)' => Pending(r) /\ KeyOf(r)' = KeyOf(r)
      BY <1>4, <1>p
    <2>4. KeyOnce'
      BY <2>1, <2>2 DEF KeyInv, KeyOnce
    <2>5. KeysSpent'
      BY <2>1, <2>2 DEF KeyInv, KeysSpent
    <2>6. KeysHeld'
      BY <2>1, <2>2, <2>3 DEF KeyInv, KeysHeld
    <2> QED
      BY <2>4, <2>5, <2>6, <1>w DEF KeyInv
  <1> QED
    BY <1>1, <1>2, <1>3, <1>4

\* An idempotency key lets at most one event through PublishEvent until it
\* expires: for every number of concurrent requests, however they retry and
\* whatever fails or crashes between the check and the publication.
THEOREM KeyHolds == Spec => []KeyOnce
  <1>1. Init => KeyInv
    <2>1. ASSUME Init, NEW r \in Requests PROVE Waits(r) /\ ~Pending(r)
      <3>1. req[r] = Idle
        BY <2>1 DEF Init
      <3> QED
        BY <3>1, IdleDone DEF Waits, Pending
    <2>2. Init => KeyOnce /\ KeysSpent
      BY DEF Init, KeyOnce, KeysSpent
    <2>3. Init => KeysHeld
      BY <2>1 DEF KeysHeld
    <2> QED
      BY <2>1, <2>2, <2>3 DEF KeyInv
  <1>2. BaseInv /\ KeyInv /\ [Next]_vars => KeyInv'
    BY KeyNext
  <1>3. KeyInv => KeyOnce
    BY DEF KeyInv
  <1> QED
    BY <1>1, <1>2, <1>3, BaseHolds, PTL DEF Spec

-----------------------------------------------------------------------------
(* The order of the events of one request *)

Queued(i) == msgs[i].st = "queued"

\* A message in the queue is the one its handler waits for, or its handler has
\* given up; it is not in the topic yet.
QueuedFor ==
    \A i \in DOMAIN msgs : Queued(i) =>
        /\ ~InLog(i)
        /\ \/ req[msgs[i].by].pc = "wait" /\ req[msgs[i].by].cur = i
           \/ req[msgs[i].by].pc = "done"

\* Only the last message of a request can still be in the queue.
LastQueued ==
    \A i, j \in DOMAIN msgs : i < j /\ msgs[i].by = msgs[j].by => ~Queued(i)

OrderInv == RequestOrder /\ QueuedFor /\ LastQueued

\* The message that is appended to the topic follows those of its request.
LEMMA OrderAppend ==
    ASSUME BaseInv, OrderInv, NEW i \in DOMAIN msgs, Queued(i), log' = Append(log, i),
           DOMAIN msgs' = DOMAIN msgs, \A j \in DOMAIN msgs : msgs'[j].by = msgs[j].by
    PROVE  RequestOrder'
  <1>1. log \in Seq(DOMAIN msgs) /\ DOMAIN msgs \subseteq Nat
    BY DEF BaseInv, TypeCore
  <1>2. /\ DOMAIN log' = 1..(Len(log) + 1) /\ log'[Len(log) + 1] = i /\ Len(log) \in Nat
        /\ \A n \in 1..Len(log) : log'[n] = log[n] /\ log[n] \in DOMAIN msgs /\ n \in DOMAIN log
    BY <1>1
  <1> SUFFICES ASSUME NEW a \in DOMAIN log', NEW b \in DOMAIN log', a < b,
                      msgs'[log'[a]].by = msgs'[log'[b]].by
               PROVE  log'[a] < log'[b]
    BY DEF RequestOrder
  <1>3. a \in 1..Len(log)
    BY <1>2
  <1>4. CASE b \in 1..Len(log)
    BY <1>2, <1>3, <1>4 DEF OrderInv, RequestOrder
  <1>5. CASE b = Len(log) + 1
    <2>1. InLog(log[a]) /\ log[a] \in DOMAIN msgs
      BY <1>2, <1>3 DEF InLog
    <2>2. log[a] # i
      BY <2>1 DEF OrderInv, QueuedFor
    <2>3. msgs[log[a]].by = msgs[i].by
      BY <1>2, <1>3, <1>5, <2>1
    <2>4. ~(i < log[a])
      BY <2>1, <2>3 DEF OrderInv, LastQueued
    <2> QED
      BY <1>1, <1>2, <1>3, <1>5, <2>1, <2>2, <2>4
  <1> QED
    BY <1>2, <1>4, <1>5

\* A handler that stops waiting for a message does so with its report or for good.
LEMMA QueuedStep ==
    ASSUME BaseInv, QueuedFor, NEW r \in Requests, Moves(r), ~Produce(r),
           NEW i \in DOMAIN msgs, Queued(i), msgs[i].by = r
    PROVE  \/ req'[r].pc = "wait" /\ req'[r].cur = i
           \/ req'[r].pc = "done"
  <1>1. req \in [Requests -> Handler]
    BY DEF BaseInv, TypeCore
  <1>2. (req[r].pc = "wait" /\ req[r].cur = i) \/ req[r].pc = "done"
    BY DEF QueuedFor
  <1>3. ASSUME Return(r) PROVE req'[r].pc = "done"
    BY <1>1, <1>3, IdleDone DEF Return
  <1>4. Undelivered(r) \/ GiveUp(r) \/ EndStream(r)
    BY <1>2 DEF Moves, HandlerStep, CheckIdempotency, CheckIdempotencyError, Replay, CallError,
        Delivered, Reported, MarkDLQReplayed, LoopDone, StoreEvent, Accept, Queued
  <1> QED
    BY <1>3, <1>4 DEF Undelivered, GiveUp, EndStream

\* OrderInv is kept by every step.
LEMMA OrderNext ==
    ASSUME BaseInv, OrderInv, [Next]_vars
    PROVE  OrderInv'
  <1>t. /\ TypeCore /\ msgs \in Seq(Msg) /\ req \in [Requests -> Handler]
        /\ log \in Seq(DOMAIN msgs)
    BY DEF BaseInv, TypeCore
  <1>b. \A i \in DOMAIN msgs : msgs[i] \in Msg
    BY <1>t
  <1>r. \A i \in DOMAIN msgs : msgs[i].by \in Requests
    BY <1>b DEF Msg
  \* Steps that leave Kafka alone.
  <1>quiet. ASSUME msgs' = msgs, log' = log,
                   \A i \in DOMAIN msgs : Queued(i) =>
                     \/ req'[msgs[i].by].pc = "wait" /\ req'[msgs[i].by].cur = i
                     \/ req'[msgs[i].by].pc = "done"
            PROVE  OrderInv'
    BY <1>quiet DEF OrderInv, RequestOrder, QueuedFor, LastQueued, Queued, InLog
  \* Steps that only take messages out of the queue.
  <1>less. ASSUME DOMAIN msgs' = DOMAIN msgs, RequestOrder',
                  \A i \in DOMAIN msgs :
                    /\ msgs'[i].by = msgs[i].by
                    /\ Queued(i)' => /\ Queued(i) /\ ~InLog(i)'
                                     /\ \/ req'[msgs[i].by] = req[msgs[i].by]
                                        \/ req'[msgs[i].by].pc = "done"
           PROVE  OrderInv'
    BY <1>less DEF OrderInv, QueuedFor, LastQueued
  <1>1. ASSUME NEW r \in Requests, Produce(r) PROVE OrderInv'
    <2> DEFINE n == Len(msgs) + 1
    <2>1. PICK m : msgs' = Append(msgs, m) /\ m.by = r /\ m.st = "queued"
      BY <1>1 DEF Produce
    <2>2. log' = log /\ req[r].pc = "send"
      BY <1>1 DEF Produce
    <2>3. /\ DOMAIN msgs' = DOMAIN msgs \cup {n} /\ n \notin DOMAIN msgs /\ msgs'[n] = m
          /\ \A i \in DOMAIN msgs : msgs'[i] = msgs[i] /\ i < n
      BY <2>1, <1>t
    <2>4. req'[r].pc = "wait" /\ req'[r].cur = n /\ \A q \in Requests : q # r => req'[q] = req[q]
      BY <1>1, <1>t DEF Produce, Handler
    <2>5. n \in Nat
      BY <1>t
    <2> HIDE DEF n
    <2>6. \A i \in DOMAIN msgs : msgs[i].by = r => ~Queued(i)
      BY <2>2 DEF OrderInv, QueuedFor
    <2>7. \A a \in DOMAIN log' : log'[a] # n
      BY <2>2, <2>3, <1>t
    <2>8. RequestOrder'
      <3>1. \A a \in DOMAIN log : log[a] \in DOMAIN msgs /\ msgs'[log[a]] = msgs[log[a]]
        BY <1>t, <2>3
      <3> QED
        BY <3>1, <2>2 DEF OrderInv, RequestOrder
    <2>9. QueuedFor'
      <3>1. ASSUME NEW i \in DOMAIN msgs, Queued(i)
            PROVE  /\ ~InLog(i)'
                   /\ (req'[msgs[i].by].pc = "wait" /\ req'[msgs[i].by].cur = i) \/ req'[msgs[i].by].pc = "done"
        BY <3>1, <2>2, <2>4, <2>6, <1>r DEF OrderInv, QueuedFor, InLog
      <3> QED
        BY <3>1, <2>1, <2>3, <2>4, <2>7 DEF QueuedFor, Queued, InLog
    <2>10. LastQueued'
      <3>1. \A i \in DOMAIN msgs : ~(n < i)
        BY <2>3, <2>5, <1>t
      <3>2. ~(n < n)
        BY <2>5
      <3> QED
        BY <3>1, <3>2, <2>1, <2>3, <2>6 DEF OrderInv, LastQueued, Queued
    <2> QED
      BY <2>8, <2>9, <2>10 DEF OrderInv
  <1>2. ASSUME NEW r \in Requests, Moves(r), ~Produce(r) PROVE OrderInv'
    <2>1. msgs' = msgs /\ log' = log
      BY <1>2 DEF Moves, HandlerStep, CheckIdempotency, CheckIdempotencyError, Replay, CallError,
          Delivered, Undelivered, GiveUp, EndStream, MarkDLQReplayed, LoopDone, StoreEvent, Accept, kafka
    <2>2. ASSUME NEW i \in DOMAIN msgs, Queued(i)
          PROVE  \/ req'[msgs[i].by].pc = "wait" /\ req'[msgs[i].by].cur = i
                 \/ req'[msgs[i].by].pc = "done"
      <3>1. CASE msgs[i].by = r
        BY <3>1, <2>2, <1>2, QueuedStep DEF OrderInv
      <3>2. CASE msgs[i].by # r
        BY <3>2, <2>2, <1>2, <1>t, <1>r, OthersAlone DEF OrderInv, QueuedFor
      <3> QED
        BY <3>1, <3>2
    <2> QED
      BY <2>1, <2>2, <1>quiet
  <1>3. ASSUME NEW r \in Requests, NEW s \in Shapes, Arrive(r, s) PROVE OrderInv'
    <2>1. msgs' = msgs /\ log' = log
      BY <1>3 DEF Arrive, PublishEvent, PublishBatch, ReplayDLQ, ReplayEvents, OpenStream, Start, kafka
    <2>2. req[r].pc = "idle" /\ \A q \in Requests : q # r => req'[q] = req[q]
      <3>1. r = arrivals + 1 /\ arrivals \in Nat /\ \A q \in Requests : q # r => req'[q] = req[q]
        BY <1>3, <1>t, ArriveHandler DEF TypeCore
      <3>2. HandlerInv(r)
        BY DEF BaseInv
      <3> QED
        BY <3>1, <3>2 DEF HandlerInv
    <2> QED
      BY <2>1, <2>2, <1>r, <1>quiet DEF OrderInv, QueuedFor
  <1>4. ASSUME NEW i \in DOMAIN msgs, Deliver(i) \/ DeliverError(i) PROVE OrderInv'
    <2>1. PICK x \in {"ok", "err"} : msgs' = [msgs EXCEPT ![i].st = x]
      BY <1>4 DEF Deliver, DeliverError
    <2>2. Queued(i) /\ req' = req /\ (log' = log \/ log' = Append(log, i))
      BY <1>4 DEF Deliver, DeliverError, Queued
    <2>3. DOMAIN msgs' = DOMAIN msgs /\ \A j \in DOMAIN msgs : j # i => msgs'[j] = msgs[j]
      BY <2>1
    <2>4. msgs'[i].by = msgs[i].by /\ msgs'[i].st = x
      <3>1. msgs'[i] = [msgs[i] EXCEPT !.st = x]
        BY <2>1
      <3> QED
        BY <3>1, <1>b DEF Msg
    <2>5. \A j \in DOMAIN msgs : msgs'[j].by = msgs[j].by
      BY <2>3, <2>4
    <2>6. RequestOrder'
      <3>1. CASE log' = log
        <4>1. \A a \in DOMAIN log : log[a] \in DOMAIN msgs
          BY <1>t
        <4> QED
          BY <3>1, <4>1, <2>5 DEF OrderInv, RequestOrder
      <3>2. CASE log' = Append(log, i)
        BY <3>2, <2>2, <2>3, <2>5, OrderAppend
      <3> QED
        BY <2>2, <3>1, <3>2
    <2>7. ASSUME NEW j \in DOMAIN msgs, Queued(j)' PROVE Queued(j) /\ ~InLog(j)'
      <3>1. j # i /\ Queued(j)
        BY <2>7, <2>3, <2>4 DEF Queued
      <3>2. ~InLog(j)
        BY <3>1 DEF OrderInv, QueuedFor
      <3>3. \A a \in DOMAIN log' : log'[a] = i \/ (a \in DOMAIN log /\ log'[a] = log[a])
        BY <2>2, <1>t
      <3> QED
        BY <3>1, <3>2, <3>3 DEF InLog
    <2> QED
      BY <2>2, <2>3, <2>5, <2>6, <2>7, <1>less
  <1>5. CASE Cut
    <2>1. /\ msgs' = [i \in DOMAIN msgs |-> [msgs[i] EXCEPT !.st = IF @ = "queued" THEN "err" ELSE @]]
          /\ log' = log
      BY <1>5 DEF Cut
    <2>2. DOMAIN msgs' = DOMAIN msgs
      BY <2>1
    <2>3. \A i \in DOMAIN msgs : msgs'[i].by = msgs[i].by /\ ~Queued(i)'
      BY <2>1, <1>b DEF Msg, Queued
    <2>4. \A a \in DOMAIN log : log[a] \in DOMAIN msgs
      BY <1>t
    <2>5. RequestOrder'
      BY <2>1, <2>3, <2>4 DEF OrderInv, RequestOrder
    <2> QED
      BY <2>2, <2>3, <2>5, <1>less
  <1>6. CASE \/ \E k \in Keys : ExpireKey(k)
             \/ StoreDLQ \/ Signal \/ HttpStopped \/ GrpcStopped \/ Restart \/ UNCHANGED vars
    <2>1. msgs' = msgs /\ log' = log /\ req' = req
      BY <1>6 DEF ExpireKey, StoreDLQ, Signal, HttpStopped, GrpcStopped, Restart, Others, vars, kafka
    <2> QED
      BY <2>1, <1>quiet DEF OrderInv, QueuedFor
  <1> QED
    BY <1>1, <1>2, <1>3, <1>4, <1>5, <1>6 DEF Next, Moves, Exit, Crash

\* The events of one request reach the topic in the order of its loop, for every
\* number of requests and whatever is abandoned: a handler publishes the next event
\* only after the report of the one before.
THEOREM OrderHolds == Spec => []RequestOrder
  <1>1. Init => OrderInv
    BY DEF Init, OrderInv, RequestOrder, QueuedFor, LastQueued
  <1>2. BaseInv /\ OrderInv /\ [Next]_vars => OrderInv'
    BY OrderNext
  <1>3. OrderInv => RequestOrder
    BY DEF OrderInv
  <1> QED
    BY <1>1, <1>2, <1>3, BaseHolds, PTL DEF Spec

=============================================================================
