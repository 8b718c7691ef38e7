--------------------------- MODULE MCRetrySchedule ---------------------------
(***************************************************************************)
(* Instance of DemoGenerator and RetrySchedule for TLC.                    *)
(***************************************************************************)
EXTENDS DemoGenerator

Env(demo, attempts, initial, max) ==
    [demo |-> demo, maxAttempts |-> attempts, initialMs |-> initial, maxMs |-> max]

\* Production and demo defaults, delays below one tick that keep rows due at
\* every tick, no delay at all, negative delays, and policies of one attempt, of
\* none and of as many as the time allows. RETRY_MAX_MS is ignored outside of
\* demo mode.
MCEnvironments ==
    {Env(FALSE, <<>>, <<>>, <<500>>), Env(TRUE, <<>>, <<>>, <<>>),
     Env(TRUE, <<6>>, <<500>>, <<1500>>), Env(TRUE, <<1>>, <<0>>, <<>>),
     Env(TRUE, <<6>>, <<0>>, <<>>), Env(FALSE, <<-1>>, <<>>, <<>>),
     Env(FALSE, <<4>>, <<>>, <<>>),
     Env(TRUE, <<4>>, <<-1500>>, <<>>), Env(TRUE, <<4>>, <<>>, <<-500>>)}

NoPosts == [events |-> 0, failures |-> 0, throughput |-> 0, replay |-> 0]

\* In demo mode one or both of two posts are made to fail; a generator that posts
\* nothing leaves the worker to other producers.
MCScenarios ==
    (MCEnvironments \X {NoPosts})
        \cup ({Env(TRUE, <<>>, <<>>, <<>>)} \X
              {[events |-> 2, failures |-> f, throughput |-> 1, replay |-> 1] : f \in {40, 60}})

=============================================================================
