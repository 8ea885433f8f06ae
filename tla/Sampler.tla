------------------------------ MODULE Sampler -------------------------------
(***************************************************************************)
(* The cycle of one BmsSampler (bmslib/sampling.py: __call__ and           *)
(* _sample_inner) and the Bluetooth session under it (bmslib/bt.py).       *)
(*                                                                         *)
(* A cycle enters the session (connects, subscribes to notifications),     *)
(* fetches, publishes, leaves the session.  Whatever it raises ends in the *)
(* error handler of __call__, which may drop the link.  With keep_alive    *)
(* the session outlives the cycle and the next one only looks at the link, *)
(* not at the subscription.                                                *)
(*                                                                         *)
(* Drivers differ in how they connect and disconnect, so the driver is     *)
(* chosen in Init.  The radio is good, bad (anything may fail) or away     *)
(* (the device is not found).  Time is counted in waiting cycles.          *)
(*                                                                         *)
(* A definition commented "Faulty" is a variant of the one that follows it *)
(* with a plausible bug; a property of this module must tell them apart.   *)
(***************************************************************************)
EXTENDS Integers, Sequences

CONSTANTS
    Drivers,    \* the drivers considered
    WaitOf,     \* cycles to wait after the n-th failed connect in a row
    ErrMax      \* errors after which the link is dropped (20)

\* keepAlive: the option keep_alive.
\* strict: disconnect() of the driver raises, and does not close the link, if
\*     there is no subscription to stop (jikong, litime, sok, daly).
\* fallback: connect() tries again with a scanner (jikong, daly, ant, litime).
DriverKinds == [keepAlive : BOOLEAN, strict : BOOLEAN, fallback : BOOLEAN]

ASSUME SamplerAssumption ==
    /\ Drivers \subseteq DriverKinds
    /\ Len(WaitOf) > 0 /\ WaitOf \in Seq(Nat)
    /\ ErrMax \in Nat

VARIABLES
    driver,     \* the driver
    radio,      \* how well the device can be reached
    link,       \* client.is_connected
    session,    \* what the device does on this link
    pc,         \* where the cycle stands
    result,     \* how the body of the cycle ended
    numErrors,  \* self._num_errors, up to ErrMax + 1
    numNotFound,\* self._num_not_found, up to Len(WaitOf)
    wait,       \* self._time_next_retry, from now
    silent,     \* no data since the link came up, for longer than tolerated
    missed      \* history: failed connects since the last success

air == <<driver, radio>>
conn == <<link, session>>
counters == <<numErrors, numNotFound, wait, missed>>
vars == <<air, conn, pc, result, counters, silent>>

\* none: not subscribed; dead: subscribed, but nothing is answered any more;
\* half: the cell voltages are not answered.
Sessions == {"none", "dead", "half", "full"}
Results == {"sample", "light", "expired", "error"}

Capped(n, max) == IF n < max THEN n ELSE max

Init ==
    /\ driver \in Drivers /\ radio \in {"good", "bad", "away"}
    /\ link = FALSE /\ session = "none"
    /\ pc = "idle" /\ result = "sample"
    /\ numErrors = 0 /\ numNotFound = 0 /\ wait = 0 /\ missed = 0
    /\ silent = FALSE

-----------------------------------------------------------------------------
(* The cycle                                                               *)

\* Faulty: waits at the very moment of the retry, too.
BeginLate ==
    /\ pc = "idle"
    /\ numErrors' = Capped(numErrors + 1, ErrMax + 1)
    /\ IF ~link /\ wait >= 0
       THEN wait' = wait - 1 /\ UNCHANGED pc
       ELSE pc' = "enter" /\ UNCHANGED wait
    /\ UNCHANGED <<air, conn, result, numNotFound, missed, silent>>

Begin ==
    /\ pc = "idle"
    /\ numErrors' = Capped(numErrors + 1, ErrMax + 1)
    /\ IF ~link /\ wait > 0
       THEN wait' = wait - 1 /\ UNCHANGED pc
       ELSE pc' = "enter" /\ UNCHANGED wait
    /\ UNCHANGED <<air, conn, result, numNotFound, missed, silent>>

\* __aenter__ returns.
Entered ==
    /\ pc' = "fetch"
    /\ numNotFound' = 0 /\ missed' = 0
    /\ UNCHANGED <<result, numErrors, wait>>

Raise ==
    /\ pc' = "error"
    /\ UNCHANGED <<result, counters>>

KeptAlive ==
    /\ pc = "enter" /\ driver.keepAlive /\ link
    /\ Entered
    /\ UNCHANGED <<air, conn, silent>>

\* client.connect() succeeds.  It refuses a link that is up, which the
\* fallback drops before it tries again.
Connects ==
    /\ pc = "enter" /\ ~(driver.keepAlive /\ link)
    /\ radio # "away" /\ (link => driver.fallback)
    /\ link' = TRUE /\ session' = "none" /\ silent' = FALSE
    /\ pc' = "setup"
    /\ UNCHANGED <<air, result, counters>>

ConnectFails ==
    /\ pc = "enter" /\ ~(driver.keepAlive /\ link)
    /\ radio = "good" => link /\ ~driver.fallback
    /\ IF driver.fallback THEN link' = FALSE /\ session' = "none"
       ELSE UNCHANGED conn
    /\ Raise
    /\ UNCHANGED <<air, silent>>

\* Faulty: the waiting grows with the errors (#391).
NotFoundByErrors ==
    /\ pc = "enter" /\ ~(driver.keepAlive /\ link)
    /\ radio # "good" /\ (link => driver.fallback)
    /\ link' = FALSE /\ session' = "none"
    /\ numNotFound' = Capped(numNotFound + 1, Len(WaitOf))
    /\ wait' = WaitOf[Capped(numErrors, Len(WaitOf))]
    /\ missed' = Capped(missed + 1, Len(WaitOf))
    /\ pc' = "idle"
    /\ UNCHANGED <<air, result, numErrors, silent>>

\* except BleakDeviceNotFoundError
NotFound ==
    /\ pc = "enter" /\ ~(driver.keepAlive /\ link)
    /\ radio # "good" /\ (link => driver.fallback)
    /\ link' = FALSE /\ session' = "none"
    /\ numNotFound' = Capped(numNotFound + 1, Len(WaitOf))
    /\ wait' = WaitOf[numNotFound']
    /\ missed' = Capped(missed + 1, Len(WaitOf))
    /\ pc' = "idle"
    /\ UNCHANGED <<air, result, numErrors, silent>>

\* The rest of connect(): find the characteristics, start_notify, the first
\* queries.  If it raises __aexit__ is not called and the link stays.
SetUp ==
    /\ pc = "setup"
    /\ \/ link /\ session' = "full" /\ Entered
       \/ link /\ radio # "good" /\ session' \in {"none", "full"} /\ Raise
       \/ ~link /\ Raise /\ UNCHANGED session
    /\ UNCHANGED <<air, link, silent>>

Leave(r) ==
    /\ pc' = "exit" /\ result' = r
    /\ UNCHANGED <<air, conn, counters, silent>>

Fetch ==
    /\ pc = "fetch"
    /\ \/ link /\ session \in {"half", "full"}
          /\ pc' = "publish"
          /\ UNCHANGED <<air, conn, result, counters, silent>>
       \/ (~link \/ radio # "good" \/ session \in {"none", "dead"}) /\ Leave("error")
       \/ radio # "good" /\ Leave("expired")

\* cached_fetch_voltages: its errors are "light".
Publish ==
    /\ pc = "publish"
    /\ \/ (session = "full" \/ radio # "good") /\ Leave("sample")
       \/ (~link \/ radio # "good" \/ session # "full") /\ Leave("light")

\* disconnect() of the driver: it closes the link, or raises and leaves it.
Closes ==
    /\ ~(driver.strict /\ session = "none")
    /\ link' = FALSE /\ session' = "none"

Stays ==
    /\ radio # "good" \/ (driver.strict /\ session = "none")
    /\ UNCHANGED conn

\* What __call__ does with the outcome.
Conclude ==
    IF result = "error" THEN Raise /\ UNCHANGED silent
    ELSE /\ pc' = "idle"
         /\ silent' = (silent /\ result = "expired")
         /\ IF result = "sample"
            THEN numErrors' = 0 /\ numNotFound' = 0
            ELSE UNCHANGED <<numErrors, numNotFound>>
         /\ UNCHANGED <<result, wait, missed>>

\* __aexit__
Exit ==
    /\ pc = "exit"
    /\ \/ (driver.keepAlive \/ ~link) /\ UNCHANGED conn /\ Conclude
       \/ ~driver.keepAlive /\ link /\ Closes /\ Conclude
       \/ ~driver.keepAlive /\ link /\ Stays /\ Raise /\ UNCHANGED silent
    /\ UNCHANGED air

\* Faulty: an error never drops the link.
HandleErrorKeeping ==
    /\ pc = "error"
    /\ pc' = "idle"
    /\ UNCHANGED <<air, conn, result, counters, silent>>

\* except Exception: drop a link on which no data has been flowing for some
\* time, or after too many errors.
HandleError ==
    /\ pc = "error"
    /\ pc' = "idle"
    /\ IF link /\ (silent \/ numErrors > ErrMax)
       THEN \/ Closes /\ numErrors' = IF silent THEN numErrors ELSE 0
            \/ Stays /\ UNCHANGED numErrors
       ELSE UNCHANGED <<conn, numErrors>>
    /\ UNCHANGED <<air, result, numNotFound, wait, missed, silent>>

Cycle ==
    \/ Begin \/ KeptAlive \/ Connects \/ ConnectFails \/ NotFound \/ SetUp
    \/ Fetch \/ Publish \/ Exit \/ HandleError

-----------------------------------------------------------------------------
(* The device and the clock                                                *)

RadioChanges ==
    /\ radio' \in {"good", "bad", "away"} \ {radio}
    /\ UNCHANGED <<driver, conn, pc, result, counters, silent>>

LinkDrops ==
    /\ link /\ radio # "good"
    /\ link' = FALSE /\ session' = "none"
    /\ UNCHANGED <<air, pc, result, counters, silent>>

\* The device goes on with the link, but answers less.
Degrades ==
    /\ link /\ radio # "good"
    /\ \/ session = "full" /\ session' \in {"half", "dead"}
       \/ session = "half" /\ session' = "dead"
    /\ UNCHANGED <<air, link, pc, result, counters, silent>>

TimePasses ==
    /\ \/ wait > 0 /\ wait' = wait - 1 /\ UNCHANGED silent
       \/ link /\ silent' = TRUE /\ UNCHANGED wait
    /\ UNCHANGED <<air, conn, pc, result, numErrors, numNotFound, missed>>

Next == Cycle \/ RadioChanges \/ LinkDrops \/ Degrades \/ TimePasses

SafeSpec == Init /\ [][Next]_vars

\* The fetch loop calls the sampler again and again, and every await of a
\* cycle ends (the drivers wait with timeouts).
Spec == SafeSpec /\ WF_vars(Cycle)

-----------------------------------------------------------------------------
TypeOK ==
    /\ driver \in Drivers /\ radio \in {"good", "bad", "away"}
    /\ link \in BOOLEAN /\ session \in Sessions
    /\ pc \in {"idle", "enter", "setup", "fetch", "publish", "exit", "error"}
    /\ result \in Results
    /\ numErrors \in 0..(ErrMax + 1)
    /\ numNotFound \in 0..Len(WaitOf) /\ missed \in 0..Len(WaitOf)
    /\ wait \in Nat
    /\ silent \in BOOLEAN

\* The wait for the next connect follows the number of connects that failed,
\* whatever else the cycles did since: cycles spent waiting, errors, light
\* errors and samples that expired do not prolong it (#391).
WaitBounded ==
    missed > 0 => wait <= WaitOf[missed]

\* A device that can be reached for good is sampled again and again, whatever
\* happened before: failed and half-done connects, links that died silently.
Recovers == <>[](radio = "good") => []<>(pc = "publish")

\* ... unless disconnect() raises without a subscription and the next connect()
\* does not drop what the last one left.
ForgivingRecovers ==
    (driver.strict => driver.fallback /\ ~driver.keepAlive) => Recovers
=============================================================================
