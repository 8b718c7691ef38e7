---------------------------- MODULE DemoGenerator ----------------------------
(***************************************************************************)
(* cmd/demo-generator beside a consumer worker: it posts a number of       *)
(* purchases at a given rate, some of them made to fail, waits 15 seconds  *)
(* and has the dead letters replayed. The worker handles the purchases one *)
(* by one, as late as its other work makes it.                             *)
(***************************************************************************)
EXTENDS RetrySchedule

CONSTANTS
    Scenarios,  \* environments of the worker with command lines of the generator
    ReplayLimit,\* rows that replayDLQ lists
    MaxLag,     \* bound: how long after its tick a post is accepted
    MaxBehind   \* bound: how long after that the worker handles it

Flags == [events : Nat, failures : 0..100, throughput : Nat, replay : 0..100]

ASSUME ScenariosAssumption ==
    /\ Scenarios \subseteq Environments \X Flags
    /\ ReplayLimit \in Nat \ {0} /\ {MaxLag, MaxBehind} \subseteq Nat

VARIABLES
    flags,      \* the command line
    sent,       \* posts so far
    backlog,    \* published events the worker has not handled, and when they were accepted
    prompt,     \* history: events that the worker has handled within Slack
    wake,       \* when the generator goes on to replay; 0 while it publishes
    replayed    \* dead letters its replay has published again, and whether it is over

generator == <<flags, sent, backlog, prompt, wake, replayed>>
demoVars  == <<vars, generator>>

DemoInit ==
    /\ Init
    /\ \E sc \in Scenarios : environ = sc[1] /\ flags = sc[2]
    /\ sent = 0 /\ backlog = {} /\ prompt = {} /\ wake = 0
    /\ replayed = [done |-> FALSE, ids |-> {}]

AtLeastOne(n) == IF n > 1 THEN n ELSE 1

\* Period of the generator's ticker.
period == 1000 \div AtLeastOne(flags.throughput)

\* The percentage becomes "one in so many", rounded towards more failures.
failEvery == IF flags.failures = 0 THEN 0 ELSE 100 \div AtLeastOne(flags.failures)

simFail(n) == failEvery > 0 /\ n % failEvery = 0

\* Mutant of pause: shorter than the retries take.
pauseShort == 9000

\* How long the generator sleeps before it replays.
pause == 15000

\* One post at most per tick of the generator. When the last one has returned
\* it either ends or goes to sleep.
Post ==
    /\ sent < flags.events /\ now - (sent + 1) * period \in 0..MaxLag
    /\ sent' = sent + 1
    /\ wake' = IF sent' = flags.events /\ flags.replay > 0 THEN now + pause ELSE 0
    /\ UNCHANGED <<flags, replayed>>

\* The event is accepted.
PostEvent == Post /\ backlog' = backlog \cup {<<sent, now>>} /\ UNCHANGED <<vars, prompt>>

\* An error or a status of 300 and above: counted and forgotten.
PostFails == Post /\ UNCHANGED <<vars, backlog, prompt>>

\* What the pause leaves to a worker that is behind: 2 and 8 seconds of delay and
\* a tick of 2 seconds after each of them come to 14 seconds.
Slack == 1000

\* The worker handles event m, and fails if it is made to fail. Partitions may
\* change the order of the posts.
Consume(m) ==
    /\ m \in backlog /\ now - m[2] <= MaxBehind
    /\ backlog' = backlog \ {m}
    /\ prompt' = IF now - m[2] <= Slack THEN prompt \cup {m[1]} ELSE prompt
    /\ IF simFail(m[1]) THEN Schedule(m[1]) ELSE UNCHANGED vars
    /\ UNCHANGED <<flags, sent, wake, replayed>>

\* POST /replay with dlqOnly: the listed dead letters are published again. No
\* row has replayed_at yet: the generator replays once, and others not at all.
PostReplay ==
    /\ wake > 0 /\ now >= wake /\ ~replayed.done
    /\ \E listed \in SUBSET dlq :
        /\ IF letters <= ReplayLimit THEN listed = dlq ELSE Cardinality(listed) \in 1..ReplayLimit
        /\ replayed' = [done |-> TRUE, ids |-> {d[1] : d \in listed}]
    /\ UNCHANGED <<vars, flags, sent, backlog, prompt, wake>>

DemoNext ==
    \/ Next /\ UNCHANGED generator
    \/ PostEvent \/ PostFails \/ PostReplay
    \/ \E m \in backlog : Consume(m)

DemoSpec == DemoInit /\ [][DemoNext]_demoVars

-----------------------------------------------------------------------------

\* GET /retries?eventId= without a limit shows at least the attempts of every dead letter.
DeadLettersListed ==
    \A d \in dlq : d[2] > 0 =>
        \E i \in ListRetries(d[1], Limit(<<>>)) : retries[i].attempt >= d[2]

\* The pause is long enough: with the delays of demo mode, as long as one tick
\* takes all the rows and one listing all the dead letters, an event that was
\* made to fail and that the worker handled within Slack of its acceptance has
\* been replayed when the generator is through. And the attempts of a dead
\* letter can be looked up. Nothing is said of the shares the command line asks
\* for: failEvery rounds, and any replay above 0 takes all the dead letters.
DemoReplayComplete ==
    /\ DeadLettersListed
    /\ /\ replayed.done /\ Len(retries) <= BatchLimit /\ letters <= ReplayLimit
       /\ policy = [MaxAttempts |-> 3, InitialBackoff |-> 2000, MaxBackoff |-> 8000]
       /\ environ.demo
       => {n \in prompt : simFail(n)} \subseteq replayed.ids

=============================================================================
