------------------------------- MODULE Gateway -------------------------------
(***************************************************************************)
(* The publish and replay paths of one api-gateway process: the handlers   *)
(* PublishEvent, PublishBatch, ReplayDLQ and ReplayEvents of REST and gRPC,*)
(* the Kafka producer they share, the idempotency keys in Redis and the    *)
(* events and dead_letter_messages tables, with the shutdown sequence of   *)
(* cmd/api-gateway and the reflection streams that gRPC clients may hold.  *)
(*                                                                         *)
(* Every handler is a loop that publishes items one after the other: one   *)
(* item, the items of a batch, the rows a replay has listed. A message is  *)
(* its event id, the number of the Produce call that made it; a time of    *)
(* publication is a place in the order in which Publish returned. Requests *)
(* that fail binding or validation change nothing and are left out.        *)
(***************************************************************************)
EXTENDS Naturals, Sequences, FiniteSets

CONSTANTS
    Keys,           \* idempotency keys
    NoKey,          \* the request carries none
    AnyPart,        \* the replay names no partition
    PartitionOf,    \* the partition Kafka picks for a key
    Shapes,         \* requests that clients send
    ReplayLimit,    \* limit replayDLQ passes to ListDLQ
    MaxArrivals,    \* bound: requests, each with a goroutine of its own
    MaxDLQ,         \* bound: rows in the DLQ
    MaxExpiries,    \* bound: expiries of one key
    MaxFaults       \* bound: faults in all

Requests == 1..MaxArrivals

Kinds == {"publish", "batch", "dlq", "range", "reflection"}

\* A request: the keys of its events and whether they lack a payload (publish,
\* batch), or the window of publication times and the partition of a range
\* replay; hi = 0 is no endTime.
Shape == [kind : Kinds, via : {"rest", "grpc"}, keys : Seq(Keys \cup {NoKey}),
          bare : BOOLEAN, lo : Nat, hi : Nat, part : Nat \cup {AnyPart}]

ASSUME ShapesAssumption ==
    /\ NoKey \notin Keys
    /\ Shapes \subseteq Shape
    /\ \A s \in Shapes : s.kind = "publish" => Len(s.keys) = 1
    /\ \A s \in Shapes : s.bare => s.via = "rest" \* structToRaw makes {} of no payload
    /\ Shapes # {}
    /\ ReplayLimit \in Nat
    /\ PartitionOf \in [Keys \cup {NoKey} -> Nat]

ASSUME BoundsAssumption == {MaxArrivals, MaxDLQ, MaxExpiries, MaxFaults} \subseteq Nat

VARIABLES
    phase,      \* where main of the gateway is
    req,        \* the handler of each request
    arrivals,   \* requests so far
    msgs,       \* messages handed to Produce; the index is the event id
    log,        \* ids in the topic, in order
    delivered,  \* ids whose Publish returned an event: published_at order
    keys,       \* idempotency keys in Redis
    gen,        \* expiries of each key so far
    rows,       \* ids in the events table
    dlq,        \* dead_letter_messages by failed_at: replayed_at is set
    acked,      \* ids reported to a client in a 202 answer
    overlapped, \* two replays of the DLQ have been active together
    faults      \* faults so far

kafka == <<msgs, log>>
redis == <<keys, gen>>
pg    == <<rows, dlq>>
vars  == <<phase, req, arrivals, kafka, delivered, redis, pg, acked, overlapped, faults>>

-----------------------------------------------------------------------------
(* Types *)

\* One event to publish. rank orders the loop; ref is the row it comes from.
Item == [rank : Nat, key : Keys \cup {NoKey}, ref : Nat]

\* st: in the producer's queue, reported as delivered, reported as failed or gone.
Msg == [key : Keys \cup {NoKey}, bare : BOOLEAN, kind : Kinds, ref : Nat, by : Requests,
        gen : Nat, st : {"queued", "ok", "err"}]

PC == {"idle", "check", "list", "send", "wait", "mark", "store", "hold", "done"}

Idle == [pc |-> "idle", shape |-> CHOOSE s \in Shapes : TRUE, todo |-> {},
         cur |-> 0, out |-> {}, left |-> {}]

Done == [Idle EXCEPT !.pc = "done"]

Handler == [pc : PC, shape : Shapes, todo : SUBSET Item,
            cur : Nat, out : SUBSET Nat, left : SUBSET Nat]

TypeOK ==
    /\ phase \in {"up", "http", "grpc", "flush", "down"}
    /\ req \in [Requests -> Handler]
    /\ arrivals \in 0..MaxArrivals
    /\ \A r \in Requests : req[r].pc # "idle" => r <= arrivals
    /\ msgs \in Seq(Msg)
    /\ log \in Seq(DOMAIN msgs)
    /\ delivered \in Seq(DOMAIN msgs)
    /\ keys \subseteq Keys
    /\ gen \in [Keys -> Nat]
    /\ rows \subseteq DOMAIN msgs
    /\ dlq \in Seq(BOOLEAN)
    /\ acked \subseteq DOMAIN msgs
    /\ overlapped \in BOOLEAN
    /\ faults \in Nat
    /\ \A r \in Requests :
        /\ req[r].pc \in {"wait", "mark"} => req[r].cur \in DOMAIN msgs
        /\ req[r].pc = "mark" => msgs[req[r].cur].ref \in DOMAIN dlq
        /\ req[r].out \cup req[r].left \subseteq DOMAIN msgs
        /\ req[r].shape.kind = "dlq" => \A it \in req[r].todo : it.ref \in DOMAIN dlq

Init ==
    /\ phase = "up"
    /\ req = [r \in Requests |-> Idle]
    /\ arrivals = 0
    /\ msgs = <<>> /\ log = <<>> /\ delivered = <<>>
    /\ keys = {} /\ gen = [k \in Keys |-> 0]
    /\ rows = {} /\ dlq = <<>>
    /\ acked = {}
    /\ overlapped = FALSE
    /\ faults = 0

-----------------------------------------------------------------------------
(* Helpers *)

Least(S) == CHOOSE x \in S : \A y \in S : x <= y

NextItem(r) == CHOOSE it \in req[r].todo : \A o \in req[r].todo : it.rank <= o.rank

InLog(i) == \E n \in DOMAIN log : log[n] = i

Active(r) == req[r].pc \notin {"idle", "done"}

KeyOf(r) == req[r].shape.keys[1]

\* Request r carries a key and PublishEvent checks it.
Keyed(r) == req[r].shape.kind = "publish" /\ KeyOf(r) # NoKey

OK == UNCHANGED faults

Fault == faults < MaxFaults /\ faults' = faults + 1

Goto(r, pc) == req' = [req EXCEPT ![r].pc = pc]

\* The handler of r writes its answer and returns.
Return(r) == req' = [req EXCEPT ![r] = Done]

\* The process accepts requests of this transport.
Accepts(via) == phase = "up" \/ (phase = "http" /\ via = "grpc")

-----------------------------------------------------------------------------
(* Handlers *)

\* The events of a publish or batch request, in the order of the request.
RequestItems(s) == {[rank |-> n, key |-> s.keys[n], ref |-> 0] : n \in DOMAIN s.keys}

\* A request is bound to its handler, which begins at pc with these events to publish.
Start(r, s, pc, items) ==
    /\ r = arrivals + 1 /\ Accepts(s.via)
    /\ arrivals' = r
    /\ req' = [req EXCEPT ![r] = [Idle EXCEPT !.pc = pc, !.shape = s, !.todo = items]]
    /\ overlapped' = (overlapped \/ (s.kind = "dlq" /\
                        \E o \in Requests : Active(o) /\ req[o].shape.kind = "dlq"))
    /\ OK /\ UNCHANGED <<phase, kafka, delivered, redis, pg, acked>>

\* A key is checked first, if there is one.
PublishEvent(r, s) ==
    s.kind = "publish" /\ Start(r, s, IF s.keys[1] = NoKey THEN "send" ELSE "check", RequestItems(s))

\* The keys of a batch are not checked.
PublishBatch(r, s) == s.kind = "batch" /\ Start(r, s, "send", RequestItems(s))

ReplayDLQ(r, s) == s.kind = "dlq" /\ Start(r, s, "list", {})

ReplayEvents(r, s) == s.kind = "range" /\ Start(r, s, "list", {})

\* A client opens a stream of the reflection service.
OpenStream(r, s) == s.kind = "reflection" /\ Start(r, s, "hold", {})

\* The client closes it, whenever it likes.
EndStream(r) ==
    /\ req[r].pc = "hold" /\ Return(r)
    /\ OK /\ UNCHANGED <<phase, arrivals, kafka, delivered, redis, pg, acked, overlapped>>

Arrive(r, s) ==
    \/ PublishEvent(r, s) \/ PublishBatch(r, s) \/ ReplayDLQ(r, s) \/ ReplayEvents(r, s)
    \/ OpenStream(r, s)

\* Mutant of Duplicate: the events table is asked instead of Redis.
DuplicateRow(r) == \E i \in rows : msgs[i].key = KeyOf(r)

Duplicate(r) == KeyOf(r) \in keys

\* SET NX: a key that is there already answers 409.
CheckIdempotency(r) ==
    /\ req[r].pc = "check"
    /\ IF Duplicate(r) THEN Return(r) /\ UNCHANGED keys
       ELSE Goto(r, "send") /\ keys' = keys \cup {KeyOf(r)}
    /\ OK /\ UNCHANGED <<phase, arrivals, kafka, delivered, gen, pg, acked, overlapped>>

\* The call fails, before or after Redis executed it: answer 500.
CheckIdempotencyError(r) ==
    /\ req[r].pc = "check"
    /\ Fault /\ Return(r)
    /\ keys' \in {keys, keys \cup {KeyOf(r)}}
    /\ UNCHANGED <<phase, arrivals, kafka, delivered, gen, pg, acked, overlapped>>

\* The newest rows of the topic, whether replayed or not.
ListDLQ(limit) == {d \in DOMAIN dlq : d + limit > Len(dlq)}

\* No endTime is now; no startTime is lo = 0, the epoch.
Window(s) == s.lo .. (IF s.hi = 0 THEN Len(delivered) ELSE s.hi)

\* Rows of the topic published in [start, end], of one partition if it is given.
EventsInRange(s) ==
    {n \in DOMAIN delivered :
        /\ delivered[n] \in rows
        /\ n \in Window(s)
        /\ s.part \in {AnyPart, PartitionOf[msgs[delivered[n]].key]}}

\* Mutant of Unreplayed: replayed_at is not looked at.
UnreplayedAll(d) == TRUE

Unreplayed(d) == ~dlq[d]

\* What the loop of a replay will publish: unreplayed DLQ rows, newest first,
\* or the events of the window by time of publication. Keys are not repeated.
Listed(s) ==
    IF s.kind = "dlq"
    THEN {[rank |-> Len(dlq) - d, key |-> NoKey, ref |-> d] :
            d \in {e \in ListDLQ(ReplayLimit) : Unreplayed(e)}}
    ELSE {[rank |-> n, key |-> NoKey, ref |-> delivered[n]] : n \in EventsInRange(s)}

Replay(r) ==
    /\ req[r].pc = "list"
    /\ req' = [req EXCEPT ![r].pc = "send", ![r].todo = Listed(req[r].shape)]
    /\ OK /\ UNCHANGED <<phase, arrivals, kafka, delivered, redis, pg, acked, overlapped>>

\* Publish hands the next event to the producer and waits for its report.
Produce(r) ==
    /\ req[r].pc = "send" /\ req[r].todo # {}
    /\ LET it == NextItem(r) IN
        /\ msgs' = Append(msgs, [key |-> it.key, bare |-> req[r].shape.bare,
                                 kind |-> req[r].shape.kind, ref |-> it.ref,
                                 by |-> r, st |-> "queued",
                                 gen |-> IF it.key = NoKey THEN 0 ELSE gen[it.key]])
        /\ req' = [req EXCEPT ![r].pc = "wait", ![r].cur = Len(msgs) + 1,
                              ![r].todo = req[r].todo \ {it}]
    /\ OK /\ UNCHANGED <<phase, arrivals, log, delivered, redis, pg, acked, overlapped>>

\* The query of a replay or Produce itself returns an error: answer 500.
CallError(r) ==
    /\ \/ req[r].pc = "list"
       \/ req[r].pc = "send" /\ req[r].todo # {}
    /\ Fault /\ Return(r)
    /\ UNCHANGED <<phase, arrivals, kafka, delivered, redis, pg, acked, overlapped>>

\* Mutant of Reported: the error in the report is not looked at.
ReportedAny(i) == msgs[i].st # "queued"

Reported(i) == msgs[i].st = "ok"

\* Mutant of AfterDelivery: both replays mark the row they published.
AfterDeliveryMark(kind) == IF kind \in {"dlq", "range"} THEN "mark" ELSE "send"

AfterDelivery(kind) == IF kind = "dlq" THEN "mark" ELSE "send"

\* The delivery report arrives without error and Publish returns the event.
Delivered(r) ==
    /\ req[r].pc = "wait" /\ Reported(req[r].cur)
    /\ delivered' = Append(delivered, req[r].cur)
    /\ req' = [req EXCEPT ![r].pc = AfterDelivery(req[r].shape.kind),
                          ![r].out = @ \cup {req[r].cur}]
    /\ OK /\ UNCHANGED <<phase, arrivals, kafka, redis, pg, acked, overlapped>>

\* Mutant of Undelivered: only a delivered message ends the wait.
UndeliveredIgnored(r) == FALSE

\* The report carries an error: every handler answers 500 and stores nothing.
Undelivered(r) ==
    /\ req[r].pc = "wait" /\ msgs[req[r].cur].st = "err"
    /\ Return(r)
    /\ OK /\ UNCHANGED <<phase, arrivals, kafka, delivered, redis, pg, acked, overlapped>>

\* Mutant of GiveUp: the loop goes on with the next event.
GiveUpContinue(r) ==
    /\ req[r].pc = "wait"
    /\ Fault /\ Goto(r, "send")
    /\ UNCHANGED <<phase, arrivals, kafka, delivered, redis, pg, acked, overlapped>>

\* The client goes away: ctx.Done wins the select while the report is out.
GiveUp(r) ==
    /\ req[r].pc = "wait"
    /\ Fault /\ Return(r)
    /\ UNCHANGED <<phase, arrivals, kafka, delivered, redis, pg, acked, overlapped>>

\* The error of the UPDATE is discarded.
MarkDLQReplayed(r) ==
    /\ req[r].pc = "mark" /\ Goto(r, "send")
    /\ \/ OK /\ dlq' = [dlq EXCEPT ![msgs[req[r].cur].ref] = TRUE]
       \/ Fault /\ UNCHANGED dlq
    /\ UNCHANGED <<phase, arrivals, kafka, delivered, redis, rows, acked, overlapped>>

\* The loop is over: a replay answers its count, the others store their events.
LoopDone(r) ==
    /\ req[r].pc = "send" /\ req[r].todo = {}
    /\ IF req[r].shape.kind \in {"dlq", "range"} THEN Return(r)
       ELSE req' = [req EXCEPT ![r].pc = "store", ![r].left = req[r].out]
    /\ OK /\ UNCHANGED <<phase, arrivals, kafka, delivered, redis, pg, acked, overlapped>>

\* Mutant of Conflicts: the empty key is stored as a key.
ConflictsEmpty(i) == \E j \in rows : msgs[j].key = msgs[i].key

\* ON CONFLICT (idempotency_key): nullIfEmpty makes no key NULL, which conflicts
\* with nothing.
Conflicts(i) == msgs[i].key # NoKey /\ \E j \in rows : msgs[j].key = msgs[i].key

\* The row is inserted unless it conflicts, or has no payload where the column
\* is NOT NULL; every error is discarded.
StoreEvent(r) ==
    /\ req[r].pc = "store" /\ req[r].left # {}
    /\ LET i == Least(req[r].left) IN
        /\ req' = [req EXCEPT ![r].left = @ \ {i}]
        /\ \/ OK /\ rows' = IF Conflicts(i) \/ msgs[i].bare THEN rows ELSE rows \cup {i}
           \/ Fault /\ UNCHANGED rows
    /\ UNCHANGED <<phase, arrivals, kafka, delivered, redis, dlq, acked, overlapped>>

\* Answer 202 with the events.
Accept(r) ==
    /\ req[r].pc = "store" /\ req[r].left = {}
    /\ Return(r) /\ acked' = acked \cup req[r].out
    /\ OK /\ UNCHANGED <<phase, arrivals, kafka, delivered, redis, pg, overlapped>>

-----------------------------------------------------------------------------
(* Kafka, Redis and the workers *)

\* The broker appends a queued message (acks=all, enable.idempotence) and the
\* report is ready for whoever still waits.
Deliver(i) ==
    /\ msgs[i].st = "queued"
    /\ log' = Append(log, i) /\ msgs' = [msgs EXCEPT ![i].st = "ok"]
    /\ OK /\ UNCHANGED <<phase, req, arrivals, delivered, redis, pg, acked, overlapped>>

\* The producer reports an error; the broker may have the message all the same.
DeliverError(i) ==
    /\ msgs[i].st = "queued" /\ msgs' = [msgs EXCEPT ![i].st = "err"]
    /\ log' \in {log, Append(log, i)}
    /\ Fault /\ UNCHANGED <<phase, req, arrivals, delivered, redis, pg, acked, overlapped>>

\* 24 hours later; no request lives that long.
ExpireKey(k) ==
    /\ k \in keys /\ gen[k] < MaxExpiries
    /\ \A r \in Requests : Active(r) /\ Keyed(r) => KeyOf(r) # k
    /\ keys' = keys \ {k} /\ gen' = [gen EXCEPT ![k] = @ + 1]
    /\ OK /\ UNCHANGED <<phase, req, arrivals, kafka, delivered, pg, acked, overlapped>>

\* A consumer worker adds a row to the DLQ.
StoreDLQ ==
    /\ Len(dlq) < MaxDLQ /\ dlq' = Append(dlq, FALSE)
    /\ OK /\ UNCHANGED <<phase, req, arrivals, kafka, delivered, redis, rows, acked, overlapped>>

-----------------------------------------------------------------------------
(* The process *)

Others == <<req, arrivals, kafka, delivered, redis, pg, acked, overlapped>>

\* SIGTERM: httpSrv.Shutdown closes the REST listener; gRPC still serves.
Signal == phase = "up" /\ phase' = "http" /\ OK /\ UNCHANGED Others

\* Mutant of Drained: the server is closed without waiting.
DrainedAtOnce(via) == TRUE

\* No handler of this transport is at work.
Drained(via) == \A r \in Requests : Active(r) => req[r].shape.via # via

\* A timeout of main runs out. It counts as a fault, but no bound holds it back.
TimedOut == faults' = faults + 1

\* Shutdown returns when the REST handlers have, or after ten seconds.
HttpStopped ==
    /\ phase = "http" /\ phase' = "grpc"
    /\ \/ OK /\ Drained("rest")
       \/ TimedOut /\ ~Drained("rest")
    /\ UNCHANGED Others

\* GracefulStop waits for the gRPC handlers and streams, however long.
GrpcStopped ==
    /\ phase = "grpc" /\ phase' = "flush"
    /\ Drained("grpc")
    /\ OK /\ UNCHANGED Others

\* The process is gone: its handlers and the producer's queue with it.
Cut ==
    /\ phase' = "down"
    /\ req' = [r \in Requests |-> IF Active(r) THEN Done ELSE req[r]]
    /\ msgs' = [i \in DOMAIN msgs |->
                 [msgs[i] EXCEPT !.st = IF @ = "queued" THEN "err" ELSE @]]
    /\ UNCHANGED <<arrivals, log, delivered, redis, pg, acked, overlapped>>

Flushed == \A i \in DOMAIN msgs : msgs[i].st # "queued"

\* main returns once Flush has, or has taken five seconds.
Exit ==
    /\ phase = "flush" /\ Cut
    /\ \/ OK /\ Flushed
       \/ TimedOut /\ ~Flushed

Crash == phase # "down" /\ Cut /\ Fault

Restart == phase = "down" /\ phase' = "up" /\ OK /\ UNCHANGED Others

-----------------------------------------------------------------------------
HandlerStep(r) ==
    \/ CheckIdempotency(r) \/ CheckIdempotencyError(r) \/ Replay(r) \/ Produce(r)
    \/ CallError(r) \/ Delivered(r) \/ Undelivered(r) \/ GiveUp(r)
    \/ MarkDLQReplayed(r) \/ LoopDone(r) \/ StoreEvent(r) \/ Accept(r)

Next ==
    \/ \E r \in Requests : HandlerStep(r) \/ EndStream(r) \/ \E s \in Shapes : Arrive(r, s)
    \/ \E i \in DOMAIN msgs : Deliver(i) \/ DeliverError(i)
    \/ \E k \in Keys : ExpireKey(k)
    \/ StoreDLQ
    \/ Signal \/ HttpStopped \/ GrpcStopped \/ Exit \/ Crash \/ Restart

Spec == Init /\ [][Next]_vars

\* Handlers run, the producer resolves every message within
\* message.timeout.ms, and main proceeds once what it waits for is over or its
\* timeout has run out. Clients need not close their streams.
Fairness ==
    /\ \A r \in Requests : WF_vars(HandlerStep(r))
    /\ WF_vars(\E i \in DOMAIN msgs : Deliver(i))
    /\ WF_vars(HttpStopped \/ GrpcStopped \/ Exit)

FairSpec == Spec /\ Fairness

-----------------------------------------------------------------------------
(* Properties *)

\* What the gateway vouches for is in the topic: events answered with 202,
\* rows of the events table, and DLQ rows with replayed_at. Rows are client
\* events, so a range replay never republishes the output of another replay.
ClaimsInLog ==
    /\ \A i \in acked \cup rows : InLog(i) /\ msgs[i].kind \in {"publish", "batch"}
    /\ \A d \in DOMAIN dlq : dlq[d] =>
        \E i \in DOMAIN msgs : InLog(i) /\ msgs[i].kind = "dlq" /\ msgs[i].ref = d

\* Between two expiries of an idempotency key at most one event is published
\* with it through PublishEvent, whatever is retried, fails or crashes.
KeyOnce ==
    \A i, j \in DOMAIN msgs :
        /\ msgs[i].kind = "publish" /\ msgs[j].kind = "publish"
        /\ msgs[i].key # NoKey /\ msgs[i].key = msgs[j].key
        /\ msgs[i].gen = msgs[j].gen
        => i = j

\* The events of one batch or replay are in the topic in the order of its loop,
\* also when it was abandoned half-way.
RequestOrder ==
    \A a, b \in DOMAIN log :
        a < b /\ msgs[log[a]].by = msgs[log[b]].by => log[a] < log[b]

\* Without a fault nothing is lost half-way, shutdowns and restarts included: the
\* event of a spent key is in the topic or its request still at work, and an
\* event answered with 202 can be replayed by time range, since it has a row or
\* gave way to the row of another event with its key. The exception is an event
\* without a payload: no handler refuses it and no row can hold it.
FaultFreeComplete ==
    faults = 0 =>
        /\ \A k \in keys :
            \/ \E i \in DOMAIN msgs : msgs[i].key = k /\ InLog(i)
            \/ \E r \in Requests : Active(r) /\ req[r].pc # "check" /\ Keyed(r) /\ KeyOf(r) = k
        /\ \A i \in acked :
            \/ i \in rows
            \/ msgs[i].key # NoKey /\ \E j \in rows : msgs[j].key = msgs[i].key
            \/ msgs[i].bare

\* replayed_at keeps a second replay from repeating a DLQ row as long as
\* replays do not overlap and nothing fails.
SoloReplayOnce ==
    faults = 0 /\ ~overlapped => \A i, j \in DOMAIN msgs :
        msgs[i].kind = "dlq" /\ msgs[j].kind = "dlq" /\ msgs[i].ref = msgs[j].ref => i = j

\* "DLQ records marked replayed_at to prevent double-replay": no DLQ row is
\* in the topic twice.
ReplayedOnce ==
    \A i, j \in DOMAIN msgs :
        /\ msgs[i].kind = "dlq" /\ msgs[j].kind = "dlq" /\ msgs[i].ref = msgs[j].ref
        /\ InLog(i) /\ InLog(j)
        => i = j

\* A graceful shutdown within its timeouts cuts no handler and loses no message.
CleanExit ==
    [][phase # "down" /\ phase' = "down" /\ faults' = 0 =>
        /\ \A r \in Requests : ~Active(r)
        /\ \A i \in DOMAIN msgs : msgs[i].st = "ok" /\ InLog(i)]_vars

\* Once the clients pause, every request has been answered or cut by the end
\* of the process: no handler waits for ever. (Requests are finitely many here.)
RequestsAnswered == []<>(\A r \in Requests : Active(r) => req[r].pc = "hold")

\* A shutdown comes to its end, except that GracefulStop, which has no timeout,
\* waits for a client that keeps a reflection stream open: handlers that wait for
\* Kafka never hold it up for good.
ShutdownCompletes ==
    phase = "http" ~> (phase = "down" \/ (phase = "grpc" /\ \E r \in Requests : req[r].pc = "hold"))

=============================================================================
