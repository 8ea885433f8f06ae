---------------------------- MODULE Supervision -----------------------------
(***************************************************************************)
(* How main() (main.py) supervises the fetch loops (fetch_loop in          *)
(* bmslib/sampling.py), and how the process ends.                          *)
(*                                                                         *)
(* With concurrent_sampling every BMS has a loop of its own; main() waits  *)
(* for the first one that ends, cancels the others and starts them all     *)
(* anew.  Otherwise one loop serves every BMS and main() stops when it     *)
(* ends.  A cancelled loop that waits for an answer may go on all the same *)
(* (FuturesPool.wait_for turns CancelledError into TimeoutError).          *)
(*                                                                         *)
(* Beside the event loop, which may hang, background_thread watches the    *)
(* MQTT traffic and the shutdown flag.                                     *)
(*                                                                         *)
(* A definition commented "Faulty" is a variant of the one that follows it *)
(* with a plausible bug; a property of this module must tell them apart.   *)
(***************************************************************************)
EXTENDS Naturals

CONSTANTS
    Bms,        \* the batteries
    Watchdog,   \* the option watchdog
    MaxErrors,  \* errors in a row after which a loop aborts (200)
    MaxOld      \* bound: cancelled loops of a unit that are still there

ASSUME SupervisionAssumption ==
    /\ Watchdog \in BOOLEAN
    /\ MaxErrors \in Nat /\ MaxOld \in Nat \ {0}

VARIABLES
    concurrent, \* the option concurrent_sampling
    loop,       \* the loop of a unit that main() waits for
    errors,     \* its num_errors_row, up to MaxErrors + 1
    cancelled,  \* loops cancelled that have not run since
    zombies,    \* cancelled loops that go on
    shutdown,   \* the global flag; on_exit counts with it
    main,       \* where main() stands
    thread,     \* where background_thread stands
    quiet,      \* no MQTT message for longer than the watchdog tolerates
    hung        \* the event loop does not run any more

loops == <<loop, errors, cancelled, zombies>>
vars == <<concurrent, loops, shutdown, main, thread, quiet, hung>>

\* What a loop serves.
Units == IF concurrent THEN {{b} : b \in Bms} ELSE {Bms}

Init ==
    /\ concurrent \in BOOLEAN
    /\ loop = [u \in Units |-> "running"]
    /\ errors = [u \in Units |-> 0]
    /\ cancelled = [u \in Units |-> 0]
    /\ zombies = [u \in Units |-> 0]
    /\ shutdown = 0
    /\ main = "waiting" /\ thread = "watching"
    /\ quiet = FALSE /\ hung = FALSE

\* The event loop runs.
Alive == main # "exited" /\ ~hung

-----------------------------------------------------------------------------
(* fetch_loop                                                              *)

\* await fn() returns.  It may have published, or found no device.
CycleReturns(u) ==
    /\ Alive /\ loop[u] = "running" /\ shutdown = 0
    /\ errors' = [errors EXCEPT ![u] = 0]
    /\ quiet' \in {quiet, FALSE}
    /\ UNCHANGED <<concurrent, loop, cancelled, zombies, shutdown, main, thread, hung>>

\* Faulty: aborts one error late.
CycleRaisesLate(u) ==
    /\ Alive /\ loop[u] = "running" /\ shutdown = 0
    /\ errors' = [errors EXCEPT ![u] = @ + 1]
    /\ loop' = [loop EXCEPT ![u] = IF Watchdog /\ errors[u] > MaxErrors
                                   THEN "ended" ELSE @]
    /\ UNCHANGED <<concurrent, cancelled, zombies, shutdown, main, thread, quiet, hung>>

\* Without watchdog the count only determines how long the loop sleeps.
CycleRaises(u) ==
    /\ Alive /\ loop[u] = "running" /\ shutdown = 0
    /\ errors' = [errors EXCEPT ![u] = IF @ > MaxErrors THEN @ ELSE @ + 1]
    /\ loop' = [loop EXCEPT ![u] = IF Watchdog /\ errors'[u] > MaxErrors
                                   THEN "ended" ELSE @]
    /\ UNCHANGED <<concurrent, cancelled, zombies, shutdown, main, thread, quiet, hung>>

\* should_stop
LoopStops(u) ==
    /\ Alive /\ loop[u] = "running" /\ shutdown > 0
    /\ loop' = [loop EXCEPT ![u] = "ended"]
    /\ UNCHANGED <<concurrent, errors, cancelled, zombies, shutdown, main, thread, quiet, hung>>

\* A cycle ends with a CancelledError out of bleak.  It is no Exception: it
\* ends the loop, and without concurrent_sampling main() and the process.
CycleCancelled(u) ==
    /\ Alive /\ loop[u] = "running"
    /\ loop' = [loop EXCEPT ![u] = "ended"]
    /\ main' = IF concurrent THEN main ELSE "exited"
    /\ UNCHANGED <<concurrent, errors, cancelled, zombies, shutdown, thread, quiet, hung>>

CancelTakes(u) ==
    /\ Alive /\ cancelled[u] > 0
    /\ cancelled' = [cancelled EXCEPT ![u] = @ - 1]
    /\ UNCHANGED <<concurrent, loop, errors, zombies, shutdown, main, thread, quiet, hung>>

CancelSwallowed(u) ==
    /\ Alive /\ cancelled[u] > 0 /\ zombies[u] < MaxOld
    /\ cancelled' = [cancelled EXCEPT ![u] = @ - 1]
    /\ zombies' = [zombies EXCEPT ![u] = @ + 1]
    /\ UNCHANGED <<concurrent, loop, errors, shutdown, main, thread, quiet, hung>>

\* A loop that main() does not know any more: it publishes all the same ...
ZombieReturns(u) ==
    /\ Alive /\ zombies[u] > 0
    /\ quiet' \in {quiet, FALSE}
    /\ UNCHANGED <<concurrent, loops, shutdown, main, thread, hung>>

\* ... and ends as any other does.
ZombieEnds(u) ==
    /\ Alive /\ zombies[u] > 0
    /\ zombies' = [zombies EXCEPT ![u] = @ - 1]
    /\ UNCHANGED <<concurrent, loop, errors, cancelled, shutdown, main, thread, quiet, hung>>

-----------------------------------------------------------------------------
(* main                                                                    *)

Ended == {u \in Units : loop[u] = "ended"}

\* Faulty: waits for all loops.
RestartAll ==
    /\ Alive /\ concurrent /\ main = "waiting" /\ Ended = Units
    /\ IF shutdown > 0 THEN main' = "stopping" /\ UNCHANGED <<loop, errors>>
       ELSE /\ loop' = [u \in Units |-> "running"]
            /\ errors' = [u \in Units |-> 0]
            /\ UNCHANGED main
    /\ UNCHANGED <<concurrent, cancelled, zombies, shutdown, thread, quiet, hung>>

\* FIRST_COMPLETED: cancel the other loops, and start all of them again.
Restart ==
    /\ Alive /\ concurrent /\ main = "waiting" /\ Ended # {}
    /\ \A u \in Units \ Ended : cancelled[u] < MaxOld
    /\ cancelled' = [u \in Units |-> cancelled[u] + (IF u \in Ended THEN 0 ELSE 1)]
    /\ IF shutdown > 0
       THEN /\ loop' = [u \in Units |-> "ended"]
            /\ main' = "stopping" /\ UNCHANGED errors
       ELSE /\ loop' = [u \in Units |-> "running"]
            /\ errors' = [u \in Units |-> 0]
            /\ UNCHANGED main
    /\ UNCHANGED <<concurrent, zombies, shutdown, thread, quiet, hung>>

\* Faulty: starts the loop again, as with concurrent_sampling.
SerialRestarts ==
    /\ Alive /\ ~concurrent /\ main = "waiting" /\ Ended # {}
    /\ IF shutdown > 0 THEN main' = "stopping" /\ UNCHANGED <<loop, errors>>
       ELSE /\ loop' = [u \in Units |-> "running"]
            /\ errors' = [u \in Units |-> 0]
            /\ UNCHANGED main
    /\ UNCHANGED <<concurrent, cancelled, zombies, shutdown, thread, quiet, hung>>

SerialEnds ==
    /\ Alive /\ ~concurrent /\ main = "waiting" /\ Ended # {}
    /\ main' = "stopping"
    /\ UNCHANGED <<concurrent, loops, shutdown, thread, quiet, hung>>

\* shutdown = True, store_states
Stop ==
    /\ Alive /\ main = "stopping"
    /\ shutdown' = 1 /\ main' = "closing"
    /\ UNCHANGED <<concurrent, loops, thread, quiet, hung>>

\* The sinks and devices are closed.  Where that takes for ever it is Hang.
Close ==
    /\ Alive /\ main = "closing"
    /\ main' = "exited"
    /\ UNCHANGED <<concurrent, loops, shutdown, thread, quiet, hung>>

-----------------------------------------------------------------------------
(* The watchdogs                                                           *)

\* bg_checks, called by background_loop ...
LoopWatches ==
    /\ Alive /\ shutdown = 0 /\ Watchdog /\ quiet
    /\ shutdown' = 1
    /\ UNCHANGED <<concurrent, loops, main, thread, quiet, hung>>

\* Faulty: looks from within the event loop.
ThreadWatchesInLoop ==
    /\ Alive /\ thread = "watching" /\ Watchdog /\ quiet
    /\ shutdown' = 1 /\ thread' = "grace"
    /\ UNCHANGED <<concurrent, loops, main, quiet, hung>>

\* ... and by background_thread.
ThreadWatches ==
    /\ main # "exited" /\ thread = "watching" /\ Watchdog /\ quiet
    /\ shutdown' = 1 /\ thread' = "grace"
    /\ UNCHANGED <<concurrent, loops, main, quiet, hung>>

ThreadLeaves ==
    /\ main # "exited" /\ thread = "watching" /\ shutdown > 0
    /\ thread' = "grace"
    /\ UNCHANGED <<concurrent, loops, shutdown, main, quiet, hung>>

\* Faulty: asks the event loop to end the process.
ThreadExitsInLoop ==
    /\ Alive /\ thread = "grace"
    /\ main' = "exited"
    /\ UNCHANGED <<concurrent, loops, shutdown, thread, quiet, hung>>

\* "Process still alive, suicide": os._exit
ThreadExits ==
    /\ main # "exited" /\ thread = "grace"
    /\ main' = "exited"
    /\ UNCHANGED <<concurrent, loops, shutdown, thread, quiet, hung>>

-----------------------------------------------------------------------------
(* The outside                                                             *)

\* on_exit.  The fifth signal raises SystemExit, which the except clauses of
\* the closing phase swallow.  Bound: later signals are left out.
Signal ==
    /\ main # "exited" /\ shutdown < 5
    /\ shutdown' = shutdown + 1
    /\ \/ shutdown' < 5 /\ UNCHANGED main
       \/ shutdown' = 5 /\ main' = "exited"
       \/ shutdown' = 5 /\ main = "closing" /\ UNCHANGED main
    /\ UNCHANGED <<concurrent, loops, thread, quiet, hung>>

TimePasses ==
    /\ main # "exited"
    /\ quiet' = TRUE
    /\ UNCHANGED <<concurrent, loops, shutdown, main, thread, hung>>

Hang ==
    /\ main # "exited"
    /\ hung' = TRUE
    /\ UNCHANGED <<concurrent, loops, shutdown, main, thread, quiet>>

LoopStep(u) ==
    \/ CycleReturns(u) \/ CycleRaises(u) \/ LoopStops(u) \/ CycleCancelled(u)
    \/ CancelTakes(u) \/ CancelSwallowed(u)
    \/ ZombieReturns(u) \/ ZombieEnds(u)

MainStep == Restart \/ SerialEnds \/ Stop \/ Close

ThreadStep == ThreadWatches \/ ThreadLeaves \/ ThreadExits

Next ==
    \/ \E u \in Units : LoopStep(u)
    \/ MainStep \/ LoopWatches \/ ThreadStep
    \/ Signal \/ TimePasses \/ Hang

SafeSpec == Init /\ [][Next]_vars

\* The thread runs.  The event loop runs unless it hangs, and then nothing is
\* published any more.
Fairness ==
    /\ WF_vars(\E u \in Units : LoopStops(u) \/ CancelTakes(u))
    /\ WF_vars(MainStep)
    /\ WF_vars(ThreadStep)
    /\ WF_vars(hung /\ TimePasses)

Spec == SafeSpec /\ Fairness

-----------------------------------------------------------------------------
TypeOK ==
    /\ concurrent \in BOOLEAN
    /\ loop \in [Units -> {"running", "ended"}]
    /\ errors \in [Units -> 0..(MaxErrors + 1)]
    /\ cancelled \in [Units -> 0..MaxOld] /\ zombies \in [Units -> 0..MaxOld]
    /\ shutdown \in 0..5
    /\ main \in {"waiting", "stopping", "closing", "exited"}
    /\ thread \in {"watching", "grace"}
    /\ quiet \in BOOLEAN /\ hung \in BOOLEAN

\* Once asked to stop the process ends, even if the event loop hangs.
ShutdownEnds == (shutdown > 0) ~> (main = "exited")

\* With watchdog the process ends when nothing is published any more.
SilenceEnds == Watchdog => (<>[]quiet => <>(main = "exited"))

\* "watchdog stops the program on too many errors" (README).
AbortEnds ==
    (\E u \in Units : loop[u] = "ended" /\ errors[u] > MaxErrors) ~> (main = "exited")

\* ... when one loop serves every BMS.
SerialAbortEnds == ~concurrent => AbortEnds

\* main() recovers from a loop that ended, whatever the other loops do.
Restarted ==
    (concurrent /\ \E u \in Units : loop[u] = "ended")
        ~> (shutdown > 0 \/ hung \/ \A u \in Units : loop[u] = "running")
=============================================================================
