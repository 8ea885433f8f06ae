--------------------------- MODULE SamplerProofs ----------------------------
(***************************************************************************)
(* Proofs about Sampler, for any drivers, waits and error limit; and about *)
(* the loops that call it (Supervision), for any set of batteries and any  *)
(* number of errors.                                                       *)
(***************************************************************************)
EXTENDS Sampler, TLAPS

Phases == {"idle", "enter", "setup", "fetch", "publish", "exit", "error"}

\* The waits are natural numbers, and the cap never exceeds their number.
LEMMA WaitFacts ==
    /\ Len(WaitOf) \in Nat \ {0}
    /\ \A n \in 1..Len(WaitOf) : WaitOf[n] \in Nat
    /\ \A n \in 0..Len(WaitOf) : Capped(n + 1, Len(WaitOf)) \in 1..Len(WaitOf)
    /\ \A n \in 0..(ErrMax + 1) : Capped(n + 1, ErrMax + 1) \in 0..(ErrMax + 1)
BY SamplerAssumption DEF Capped

\* The counters may be reset to zero.
LEMMA ZeroFits == 0 \in 0..(ErrMax + 1) /\ 0 \in 0..Len(WaitOf) /\ 0 \in Nat
BY WaitFacts, SamplerAssumption

\* Every step keeps the types.
LEMMA TypeStep == TypeOK /\ [Next]_vars => TypeOK'
<1> SUFFICES ASSUME TypeOK, [Next]_vars PROVE TypeOK'
  OBVIOUS
<1> USE ZeroFits DEF air, conn, counters
<1>1. CASE Begin
  <2>1. numErrors' \in 0..(ErrMax + 1)
    <3>1. numErrors \in 0..(ErrMax + 1) /\ numErrors' = Capped(numErrors + 1, ErrMax + 1)
      BY <1>1 DEF Begin, TypeOK
    <3> QED BY <3>1, WaitFacts, Zenon
  <2>2. wait' \in Nat
    <3>1. wait \in Nat /\ (wait' = wait \/ (wait > 0 /\ wait' = wait - 1))
      BY <1>1 DEF Begin, TypeOK
    <3> QED BY <3>1
  <2> QED BY <1>1, <2>1, <2>2 DEF Begin, TypeOK
<1>2. CASE KeptAlive
  BY <1>2 DEF KeptAlive, Entered, TypeOK
<1>3. CASE Connects
  BY <1>3 DEF Connects, TypeOK, Sessions
<1>4. CASE ConnectFails
  BY <1>4 DEF ConnectFails, Raise, TypeOK, Sessions
<1>5. CASE NotFound
  <2>1. numNotFound' \in 1..Len(WaitOf) /\ missed' \in 1..Len(WaitOf)
    <3>1. numNotFound \in 0..Len(WaitOf) /\ missed \in 0..Len(WaitOf)
      BY DEF TypeOK
    <3>2. /\ numNotFound' = Capped(numNotFound + 1, Len(WaitOf))
          /\ missed' = Capped(missed + 1, Len(WaitOf))
      BY <1>5 DEF NotFound
    <3> QED BY <3>1, <3>2, WaitFacts, Zenon
  <2>2. wait' \in Nat
    <3>1. wait' = WaitOf[numNotFound']
      BY <1>5 DEF NotFound
    <3> QED BY <2>1, <3>1, WaitFacts, Zenon
  <2>3. numNotFound' \in 0..Len(WaitOf) /\ missed' \in 0..Len(WaitOf)
    BY <2>1, SamplerAssumption
  <2> QED BY <1>5, <2>2, <2>3 DEF NotFound, TypeOK, Sessions
<1>6. CASE SetUp
  BY <1>6 DEF SetUp, Entered, Raise, TypeOK, Sessions
<1>7. CASE Fetch
  BY <1>7 DEF Fetch, Leave, TypeOK, Results
<1>8. CASE Publish
  BY <1>8 DEF Publish, Leave, TypeOK, Results
<1>9. CASE Exit
  <2>1. link' \in BOOLEAN /\ session' \in Sessions
    BY <1>9 DEF Exit, Closes, Stays, TypeOK, Sessions
  <2>2. (Conclude \/ (Raise /\ UNCHANGED silent)) /\ UNCHANGED air
    BY <1>9 DEF Exit
  <2>3. pc' \in Phases /\ result' = result /\ silent' \in BOOLEAN
    BY <2>2 DEF Conclude, Raise, TypeOK, Phases
  <2>4. /\ numErrors' \in {0, numErrors} /\ numNotFound' \in {0, numNotFound}
        /\ wait' = wait /\ missed' = missed
    BY <2>2 DEF Conclude, Raise
  <2> QED BY <2>1, <2>2, <2>3, <2>4 DEF TypeOK, Phases
<1>10. CASE HandleError
  <2>1. link' \in BOOLEAN /\ session' \in Sessions /\ numErrors' \in {0, numErrors}
    BY <1>10 DEF HandleError, Closes, Stays, TypeOK, Sessions
  <2> QED BY <1>10, <2>1 DEF HandleError, TypeOK
<1>11. CASE RadioChanges \/ LinkDrops \/ Degrades
  BY <1>11 DEF RadioChanges, LinkDrops, Degrades, TypeOK, Sessions
<1>12. CASE TimePasses
  <2>1. wait' \in Nat
    <3>1. wait \in Nat /\ (wait' = wait \/ (wait > 0 /\ wait' = wait - 1))
      BY <1>12 DEF TimePasses, TypeOK
    <3> QED BY <3>1
  <2> QED BY <1>12, <2>1 DEF TimePasses, TypeOK
<1>13. CASE UNCHANGED vars
  BY <1>13 DEF vars, TypeOK
<1> QED BY <1>1, <1>2, <1>3, <1>4, <1>5, <1>6, <1>7, <1>8, <1>9, <1>10, <1>11, <1>12, <1>13
        DEF Next, Cycle

\* Every variable keeps its type: the wait never falls below zero and the
\* counters stay within their caps.
THEOREM TypeCorrect == SafeSpec => []TypeOK
<1>1. Init => TypeOK
  BY ZeroFits DEF Init, TypeOK, Sessions, Results
<1> QED BY <1>1, TypeStep, PTL DEF SafeSpec

-----------------------------------------------------------------------------
(* The wait.  _num_not_found is the number of connects that failed in a    *)
(* row; it is zero once the session is entered.                            *)

WaitInv ==
    /\ numNotFound = missed
    /\ pc \in {"fetch", "publish", "exit"} => missed = 0
    /\ WaitBounded

\* Every step keeps the wait tied to the failed connects in a row.
LEMMA WaitStep == TypeOK /\ WaitInv /\ [Next]_vars => WaitInv'
<1> SUFFICES ASSUME TypeOK, WaitInv, [Next]_vars PROVE WaitInv'
  OBVIOUS
<1> USE DEF air, conn, counters, WaitInv, WaitBounded
<1>1. CASE NotFound
  <2>1. numNotFound' = missed' /\ pc' = "idle" /\ wait' = WaitOf[missed']
    BY <1>1 DEF NotFound
  <2>2. missed' \in 1..Len(WaitOf)
    <3>1. missed \in 0..Len(WaitOf) /\ missed' = Capped(missed + 1, Len(WaitOf))
      BY <1>1 DEF NotFound, TypeOK
    <3> QED BY <3>1, WaitFacts, Zenon
  <2>3. WaitOf[missed'] \in Nat
    BY <2>2, WaitFacts, Zenon
  <2> QED BY <2>1, <2>3
<1>2. CASE KeptAlive \/ SetUp
  BY <1>2 DEF KeptAlive, SetUp, Entered, Raise
<1>3. CASE Begin \/ TimePasses
  <2>1. /\ wait' <= wait /\ wait' \in Nat /\ wait \in Nat
        /\ UNCHANGED <<numNotFound, missed>>
        /\ pc' \in {pc, "idle", "enter"}
    BY <1>3 DEF Begin, TimePasses, TypeOK
  <2>2. missed > 0 => WaitOf[missed] \in Nat
    BY WaitFacts DEF TypeOK
  <2> QED BY <2>1, <2>2
<1>4. CASE Connects \/ ConnectFails \/ HandleError
  BY <1>4 DEF Connects, ConnectFails, Raise, HandleError
<1>5. CASE Fetch \/ Publish
  BY <1>5 DEF Fetch, Publish, Leave
<1>6. CASE Exit
  <2>1. missed = 0 /\ numNotFound = 0
    BY <1>6 DEF Exit
  <2>2. missed' = missed /\ numNotFound' \in {0, numNotFound}
    BY <1>6 DEF Exit, Conclude, Raise
  <2> QED BY <2>1, <2>2
<1>7. CASE RadioChanges \/ LinkDrops \/ Degrades \/ UNCHANGED vars
  BY <1>7 DEF RadioChanges, LinkDrops, Degrades, vars
<1> QED BY <1>1, <1>2, <1>3, <1>4, <1>5, <1>6, <1>7 DEF Next, Cycle

\* The wait for the next connect follows the connects that failed in a row and
\* nothing else, for any waits, error limit and drivers.
THEOREM Backoff == SafeSpec => []WaitBounded
<1>1. Init => WaitInv
  BY DEF Init, WaitInv, WaitBounded
<1>2. WaitInv => WaitBounded
  BY DEF WaitInv
<1> QED BY <1>1, <1>2, WaitStep, TypeCorrect, PTL DEF SafeSpec

-----------------------------------------------------------------------------
(* The loops that run the sampler, and what supervises them                *)

CONSTANTS
    Bms, Watchdog, MaxErrors, MaxOld

VARIABLES
    concurrent, loop, errors, cancelled, zombies,
    shutdown, main, thread, quiet, hung

Loops == INSTANCE Supervision

\* What Supervision assumes of its constants.
Bounds ==
    /\ Watchdog \in BOOLEAN
    /\ MaxErrors \in Nat /\ MaxOld \in Nat \ {0}

\* The types of Supervision hold initially.
LEMMA LoopsInit ==
    ASSUME Bounds, Loops!Init
    PROVE  Loops!TypeOK
<1>1. 0 \in 0..(MaxErrors + 1) /\ 0 \in 0..MaxOld
  BY DEF Bounds
<1>2. errors \in [Loops!Units -> 0..(MaxErrors + 1)]
  BY <1>1 DEF Loops!Init
<1>3. cancelled \in [Loops!Units -> 0..MaxOld] /\ zombies \in [Loops!Units -> 0..MaxOld]
  BY <1>1 DEF Loops!Init
<1>4. loop \in [Loops!Units -> {"running", "ended"}]
  BY DEF Loops!Init
<1>5. shutdown \in 0..5
  BY DEF Loops!Init
<1> QED
  BY <1>2, <1>3, <1>4, <1>5, Zenon DEF Loops!Init, Loops!TypeOK

\* The units do not change: concurrent_sampling is an option.
LEMMA UnitsKept == ASSUME UNCHANGED concurrent PROVE Loops!Units' = Loops!Units
  BY DEF Loops!Units

\* A step of a loop keeps the types.
LEMMA LoopsTurn ==
    ASSUME Bounds, Loops!TypeOK, NEW u \in Loops!Units, Loops!LoopStep(u)
    PROVE  Loops!TypeOK'
<1> USE DEF Bounds
<1>0. concurrent' = concurrent /\ Loops!Units' = Loops!Units
  <2>1. concurrent' = concurrent
    BY DEF Loops!LoopStep, Loops!CycleReturns, Loops!CycleRaises,
           Loops!LoopStops, Loops!CycleCancelled, Loops!CancelTakes,
           Loops!CancelSwallowed, Loops!ZombieReturns, Loops!ZombieEnds
  <2> QED BY <2>1, UnitsKept
<1>1. CASE Loops!CycleReturns(u)
  <2>1. errors' \in [Loops!Units -> 0..(MaxErrors + 1)]
    BY <1>1 DEF Loops!CycleReturns, Loops!TypeOK
  <2>2. quiet' \in BOOLEAN
    BY <1>1, Zenon DEF Loops!CycleReturns, Loops!TypeOK
  <2> QED BY <1>0, <1>1, <2>1, <2>2, Zenon DEF Loops!CycleReturns, Loops!TypeOK
<1>2. CASE Loops!CycleRaises(u)
  <2>1. errors' \in [Loops!Units -> 0..(MaxErrors + 1)]
    BY <1>2 DEF Loops!CycleRaises, Loops!TypeOK
  <2>2. loop' \in [Loops!Units -> {"running", "ended"}]
    BY <1>2 DEF Loops!CycleRaises, Loops!TypeOK
  <2> QED BY <1>0, <1>2, <2>1, <2>2 DEF Loops!CycleRaises, Loops!TypeOK
<1>3. CASE Loops!LoopStops(u)
  BY <1>0, <1>3 DEF Loops!LoopStops, Loops!TypeOK
<1>4. CASE Loops!CycleCancelled(u)
  BY <1>0, <1>4 DEF Loops!CycleCancelled, Loops!TypeOK
<1>5. CASE Loops!CancelTakes(u)
  <2>1. cancelled' \in [Loops!Units -> 0..MaxOld]
    BY <1>5 DEF Loops!CancelTakes, Loops!TypeOK
  <2> QED BY <1>0, <1>5, <2>1 DEF Loops!CancelTakes, Loops!TypeOK
<1>6. CASE Loops!CancelSwallowed(u)
  <2>1. cancelled' \in [Loops!Units -> 0..MaxOld] /\ zombies' \in [Loops!Units -> 0..MaxOld]
    BY <1>6 DEF Loops!CancelSwallowed, Loops!TypeOK
  <2> QED BY <1>0, <1>6, <2>1 DEF Loops!CancelSwallowed, Loops!TypeOK
<1>7. CASE Loops!ZombieReturns(u)
  BY <1>0, <1>7 DEF Loops!ZombieReturns, Loops!TypeOK, Loops!loops
<1>8. CASE Loops!ZombieEnds(u)
  <2>1. zombies' \in [Loops!Units -> 0..MaxOld]
    BY <1>8 DEF Loops!ZombieEnds, Loops!TypeOK
  <2> QED BY <1>0, <1>8, <2>1 DEF Loops!ZombieEnds, Loops!TypeOK
<1> QED
  BY <1>1, <1>2, <1>3, <1>4, <1>5, <1>6, <1>7, <1>8 DEF Loops!LoopStep

\* A step of main() keeps the types.
LEMMA MainTurns ==
    ASSUME Bounds, Loops!TypeOK, Loops!MainStep
    PROVE  Loops!TypeOK'
<1> USE DEF Bounds
<1>0. concurrent' = concurrent /\ Loops!Units' = Loops!Units
  BY UnitsKept DEF Loops!MainStep, Loops!Restart, Loops!SerialEnds, Loops!Stop, Loops!Close
<1>1. CASE Loops!Restart
  <2>1. cancelled' \in [Loops!Units -> 0..MaxOld]
    <3>1. \A u \in Loops!Units : cancelled[u] \in 0..MaxOld
      BY DEF Loops!TypeOK
    <3>2. \A u \in Loops!Units : u \notin Loops!Ended => cancelled[u] < MaxOld
      BY <1>1 DEF Loops!Restart
    <3>3. cancelled' = [u \in Loops!Units |-> cancelled[u] + (IF u \in Loops!Ended THEN 0 ELSE 1)]
      BY <1>1 DEF Loops!Restart
    <3> HIDE DEF Loops!Ended
    <3>4. \A u \in Loops!Units : cancelled[u] + (IF u \in Loops!Ended THEN 0 ELSE 1) \in 0..MaxOld
      BY <3>1, <3>2
    <3> QED BY <3>3, <3>4
  <2>2. CASE shutdown > 0
    BY <1>0, <1>1, <2>1, <2>2 DEF Loops!Restart, Loops!TypeOK
  <2>3. CASE ~(shutdown > 0)
    BY <1>0, <1>1, <2>1, <2>3 DEF Loops!Restart, Loops!TypeOK
  <2> QED BY <2>2, <2>3
<1>2. CASE Loops!SerialEnds
  BY <1>0, <1>2 DEF Loops!SerialEnds, Loops!TypeOK, Loops!loops
<1>3. CASE Loops!Stop
  BY <1>0, <1>3 DEF Loops!Stop, Loops!TypeOK, Loops!loops
<1>4. CASE Loops!Close
  BY <1>0, <1>4 DEF Loops!Close, Loops!TypeOK, Loops!loops
<1> QED BY <1>1, <1>2, <1>3, <1>4 DEF Loops!MainStep

\* The watchdogs, the threads, the signals and time keep the types.
LEMMA RestTurns ==
    ASSUME Bounds, Loops!TypeOK,
           \/ Loops!LoopWatches \/ Loops!ThreadStep \/ Loops!Signal
           \/ Loops!TimePasses \/ Loops!Hang \/ UNCHANGED Loops!vars
    PROVE  Loops!TypeOK'
<1>0. concurrent' = concurrent /\ Loops!Units' = Loops!Units /\ UNCHANGED Loops!loops
  BY UnitsKept
     DEF Loops!LoopWatches, Loops!ThreadStep, Loops!ThreadWatches,
         Loops!ThreadLeaves, Loops!ThreadExits, Loops!Signal,
         Loops!TimePasses, Loops!Hang, Loops!vars
<1>1. CASE Loops!LoopWatches
  BY <1>0, <1>1 DEF Loops!LoopWatches, Loops!TypeOK, Loops!loops
<1>2. CASE Loops!ThreadStep
  BY <1>0, <1>2
     DEF Loops!ThreadStep, Loops!ThreadWatches, Loops!ThreadLeaves,
         Loops!ThreadExits, Loops!TypeOK, Loops!loops
<1>3. CASE Loops!Signal
  <2>1. shutdown' \in 0..5 /\ main' \in {"waiting", "stopping", "closing", "exited"}
    BY <1>3 DEF Loops!Signal, Loops!TypeOK
  <2> QED BY <1>0, <1>3, <2>1 DEF Loops!Signal, Loops!TypeOK, Loops!loops
<1>4. CASE Loops!TimePasses \/ Loops!Hang
  BY <1>0, <1>4 DEF Loops!TimePasses, Loops!Hang, Loops!TypeOK, Loops!loops
<1>5. CASE UNCHANGED Loops!vars
  BY <1>0, <1>5 DEF Loops!vars, Loops!TypeOK, Loops!loops
<1> QED BY <1>1, <1>2, <1>3, <1>4, <1>5

\* Every variable has its type, for any batteries and limits: the count of
\* errors stops at its limit, and shutdown at the signal that ends the process
\* (main.py, fetch_loop).
THEOREM Supervised ==
    ASSUME Bounds
    PROVE  Loops!SafeSpec => []Loops!TypeOK
<1>0. Loops!Init => Loops!TypeOK
  BY LoopsInit
<1>1. Loops!TypeOK /\ [Loops!Next]_(Loops!vars) => Loops!TypeOK'
  BY LoopsTurn, MainTurns, RestTurns DEF Loops!Next
<1> QED
  BY <1>0, <1>1, PTL DEF Loops!SafeSpec

\* Who has left the loops, or watches the process end, was asked to.
Asked ==
    /\ concurrent /\ main # "waiting" => shutdown > 0
    /\ thread = "grace" => shutdown > 0

\* Every step keeps that, since no flag is ever taken back.
LEMMA AskedStep ==
    ASSUME Bounds, Loops!TypeOK, Asked, [Loops!Next]_(Loops!vars)
    PROVE  Asked'
<1>0. shutdown \in Nat
  BY DEF Loops!TypeOK
<1>1. ASSUME NEW u \in Loops!Units, Loops!LoopStep(u) PROVE Asked'
  <2>1. /\ UNCHANGED <<concurrent, shutdown, thread>>
        /\ main' = main \/ ~concurrent
    BY <1>1 DEF Loops!LoopStep, Loops!CycleReturns, Loops!CycleRaises,
       Loops!LoopStops, Loops!CycleCancelled, Loops!CancelTakes,
       Loops!CancelSwallowed, Loops!ZombieReturns, Loops!ZombieEnds, Loops!loops
  <2> QED BY <2>1 DEF Asked
<1>2. CASE Loops!MainStep
  BY <1>0, <1>2 DEF Loops!MainStep, Loops!Restart, Loops!SerialEnds, Loops!Stop,
     Loops!Close, Asked
<1>3. CASE Loops!LoopWatches \/ Loops!ThreadStep
  BY <1>0, <1>3 DEF Loops!LoopWatches, Loops!ThreadStep, Loops!ThreadWatches,
     Loops!ThreadLeaves, Loops!ThreadExits, Asked
<1>4. CASE Loops!Signal
  BY <1>0, <1>4 DEF Loops!Signal, Asked
<1>5. CASE Loops!TimePasses \/ Loops!Hang \/ UNCHANGED Loops!vars
  BY <1>5 DEF Loops!TimePasses, Loops!Hang, Loops!vars, Asked
<1> QED BY <1>1, <1>2, <1>3, <1>4, <1>5 DEF Loops!Next

\* With a loop per battery nothing but a signal, or silence and the watchdog,
\* asks the process to end, and it ends only when asked: no error of a loop
\* does it, and no CancelledError (main.py, fetch_loop, on_exit, bg_checks).
THEOREM EndsWhenAsked ==
    ASSUME Bounds
    PROVE  Loops!SafeSpec =>
               /\ [](concurrent /\ main = "exited" => shutdown > 0)
               /\ [][concurrent /\ shutdown = 0 /\ shutdown' # 0
                     => Loops!Signal \/ (Watchdog /\ quiet)]_(Loops!vars)
<1>1. Loops!Init => Asked
  BY DEF Loops!Init, Asked
<1>2. Asked => (concurrent /\ main = "exited" => shutdown > 0)
  BY DEF Asked
<1>3. Loops!TypeOK /\ Asked /\ [Loops!Next]_(Loops!vars) => Asked'
  BY AskedStep
<1>4. Loops!TypeOK /\ Asked /\ [Loops!Next]_(Loops!vars) =>
          [concurrent /\ shutdown = 0 /\ shutdown' # 0
           => Loops!Signal \/ (Watchdog /\ quiet)]_(Loops!vars)
  <2> SUFFICES ASSUME Loops!TypeOK, Asked, Loops!Next,
                      concurrent, shutdown = 0, shutdown' # 0
               PROVE  Loops!Signal \/ (Watchdog /\ quiet)
    BY DEF Loops!vars, Loops!loops
  <2>1. main = "waiting"
    BY DEF Asked
  <2>2. ~Loops!Stop
    BY <2>1 DEF Loops!Stop
  <2>3. ASSUME NEW u \in Loops!Units, Loops!LoopStep(u) PROVE shutdown' = shutdown
    BY <2>3 DEF Loops!LoopStep, Loops!CycleReturns, Loops!CycleRaises,
       Loops!LoopStops, Loops!CycleCancelled, Loops!CancelTakes,
       Loops!CancelSwallowed, Loops!ZombieReturns, Loops!ZombieEnds, Loops!loops
  <2>4. Loops!MainStep => shutdown' = shutdown
    BY <2>2 DEF Loops!MainStep, Loops!Restart, Loops!SerialEnds, Loops!Close
  <2>5. Loops!LoopWatches \/ Loops!ThreadWatches => Watchdog /\ quiet
    BY DEF Loops!LoopWatches, Loops!ThreadWatches
  <2>6. Loops!ThreadLeaves \/ Loops!ThreadExits \/ Loops!TimePasses \/ Loops!Hang
        => shutdown' = shutdown
    BY DEF Loops!ThreadLeaves, Loops!ThreadExits, Loops!TimePasses, Loops!Hang
  <2> QED BY <2>3, <2>4, <2>5, <2>6 DEF Loops!Next, Loops!ThreadStep
<1> QED BY <1>1, <1>2, <1>3, <1>4, Supervised, PTL DEF Loops!SafeSpec

\* Without concurrent_sampling there are no loops but the one, which ended for
\* a cause if it did.
Cause(u) == shutdown > 0 \/ (Watchdog /\ errors[u] > MaxErrors)

SerialInv == ~concurrent =>
    /\ \A u \in Loops!Units : cancelled[u] = 0 /\ zombies[u] = 0
    /\ main # "exited" => \A u \in Loops!Units : loop[u] = "ended" => Cause(u)
    /\ main \in {"stopping", "closing"} => \E u \in Loops!Units : loop[u] = "ended"

\* A step of the one loop ends it for a cause, or ends the process.
LEMMA SerialTurn ==
    ASSUME Bounds, Loops!TypeOK, SerialInv, ~concurrent,
           NEW u \in Loops!Units, Loops!LoopStep(u)
    PROVE  SerialInv'
<1>0. /\ loop \in [Loops!Units -> {"running", "ended"}]
      /\ errors \in [Loops!Units -> 0..(MaxErrors + 1)]
      /\ shutdown \in 0..5 /\ MaxErrors \in Nat
      /\ \A w \in Loops!Units : cancelled[w] = 0 /\ zombies[w] = 0
  BY DEF Loops!TypeOK, Bounds, SerialInv
<1>a. ASSUME concurrent' = concurrent PROVE Loops!Units' = Loops!Units
  BY <1>a, UnitsKept
<1>1. CASE Loops!CycleReturns(u)
  <2>1. /\ loop[u] = "running" /\ errors' = [errors EXCEPT ![u] = 0]
        /\ UNCHANGED <<concurrent, loop, cancelled, zombies, shutdown, main>>
    BY <1>1 DEF Loops!CycleReturns
  <2>2. \A w \in Loops!Units : loop[w] = "ended" => errors'[w] = errors[w]
    BY <1>0, <2>1
  <2> QED BY <1>a, <2>1, <2>2 DEF SerialInv, Cause
<1>2. CASE Loops!CycleRaises(u)
  <2>1. /\ loop[u] = "running" /\ UNCHANGED <<concurrent, cancelled, zombies, shutdown, main>>
        /\ loop'[u] = "ended" => Watchdog /\ errors'[u] > MaxErrors
        /\ \A w \in Loops!Units \ {u} : loop'[w] = loop[w] /\ errors'[w] = errors[w]
    BY <1>0, <1>2 DEF Loops!CycleRaises
  <2>2. main # "exited"
    BY <1>2 DEF Loops!CycleRaises, Loops!Alive
  <2>3. \A w \in Loops!Units : loop'[w] = "ended" => Cause(w)'
    BY <2>1, <2>2 DEF SerialInv, Cause
  <2>4. \A w \in Loops!Units : loop[w] = "ended" => loop'[w] = "ended"
    BY <2>1
  <2> QED BY <1>a, <2>1, <2>3, <2>4 DEF SerialInv
<1>3. CASE Loops!LoopStops(u)
  <2>1. shutdown > 0 /\ UNCHANGED <<concurrent, cancelled, zombies, shutdown, main>>
    BY <1>3 DEF Loops!LoopStops
  <2>2. \A w \in Loops!Units : loop[w] = "ended" => loop'[w] = "ended"
    BY <1>0, <1>3 DEF Loops!LoopStops
  <2> QED BY <1>a, <2>1, <2>2 DEF SerialInv, Cause
<1>4. CASE Loops!CycleCancelled(u)
  BY <1>a, <1>4 DEF Loops!CycleCancelled, SerialInv
<1>5. CASE Loops!ZombieReturns(u) \/ Loops!ZombieEnds(u) \/ Loops!CancelTakes(u)
           \/ Loops!CancelSwallowed(u)
  <2>1. ~(cancelled[u] > 0) /\ ~(zombies[u] > 0)
    <3>1. cancelled[u] = 0 /\ zombies[u] = 0
      BY <1>0
    <3> QED BY <3>1
  <2> QED BY <1>5, <2>1 DEF Loops!ZombieReturns, Loops!ZombieEnds, Loops!CancelTakes,
       Loops!CancelSwallowed
<1> QED BY <1>1, <1>2, <1>3, <1>4, <1>5 DEF Loops!LoopStep

\* Every step leaves the one loop alone.
LEMMA SerialStep ==
    ASSUME Bounds, Loops!TypeOK, SerialInv, [Loops!Next]_(Loops!vars)
    PROVE  SerialInv'
<1>0. shutdown \in 0..5 /\ concurrent \in BOOLEAN
  BY DEF Loops!TypeOK
<1>a. ASSUME concurrent' = concurrent PROVE Loops!Units' = Loops!Units
  BY <1>a, UnitsKept
<1>b. CASE concurrent
  <2>1. concurrent' = concurrent
    BY DEF Loops!Next, Loops!LoopStep, Loops!CycleReturns, Loops!CycleRaises,
           Loops!LoopStops, Loops!CycleCancelled, Loops!CancelTakes,
           Loops!CancelSwallowed, Loops!ZombieReturns, Loops!ZombieEnds,
           Loops!MainStep, Loops!Restart, Loops!SerialEnds, Loops!Stop, Loops!Close,
           Loops!LoopWatches, Loops!ThreadStep, Loops!ThreadWatches, Loops!ThreadLeaves,
           Loops!ThreadExits, Loops!Signal, Loops!TimePasses, Loops!Hang, Loops!vars
  <2> QED BY <1>b, <2>1 DEF SerialInv
<1>c. CASE ~concurrent
  <2>1. ASSUME NEW u \in Loops!Units, Loops!LoopStep(u) PROVE SerialInv'
    BY <1>c, <2>1, SerialTurn
  <2>2. CASE Loops!MainStep
    <3>1. /\ UNCHANGED <<concurrent, loop, errors, cancelled, zombies>>
          /\ main # "exited" /\ (shutdown > 0 => shutdown' > 0)
          /\ main' \in {"stopping", "closing"}
                 => main \in {"stopping", "closing"} \/ Loops!Ended # {}
      BY <1>0, <1>c, <2>2 DEF Loops!MainStep, Loops!Restart, Loops!SerialEnds, Loops!Stop,
         Loops!Close, Loops!Alive, Loops!loops
    <3>2. main' \in {"stopping", "closing"} => \E u \in Loops!Units : loop[u] = "ended"
      BY <1>c, <3>1 DEF SerialInv, Loops!Ended
    <3> QED BY <1>a, <1>c, <3>1, <3>2 DEF SerialInv, Cause
  <2>3. CASE Loops!LoopWatches \/ Loops!ThreadStep \/ Loops!Signal
    <3>1. /\ UNCHANGED <<concurrent, loop, errors, cancelled, zombies>>
          /\ main # "exited" /\ (shutdown > 0 => shutdown' > 0)
          /\ main' \in {main, "exited"}
      BY <1>0, <2>3 DEF Loops!LoopWatches, Loops!ThreadStep, Loops!ThreadWatches,
         Loops!ThreadLeaves, Loops!ThreadExits, Loops!Signal, Loops!Alive, Loops!loops
    <3> QED BY <1>a, <3>1 DEF SerialInv, Cause
  <2>4. CASE Loops!TimePasses \/ Loops!Hang \/ UNCHANGED Loops!vars
    <3>1. UNCHANGED <<concurrent, loop, errors, cancelled, zombies, main, shutdown>>
      BY <2>4 DEF Loops!TimePasses, Loops!Hang, Loops!vars, Loops!loops
    <3> QED BY <1>a, <3>1 DEF SerialInv, Cause
  <2> QED BY <2>1, <2>2, <2>3, <2>4 DEF Loops!Next
<1> QED BY <1>0, <1>b, <1>c

\* With one loop for all batteries no cancelled loop is ever left beside it, and
\* main() leaves it, storing the meters, only when asked to or, with watchdog,
\* after more errors in a row than it tolerates: no error short of that ends
\* it (main.py, fetch_loop; "watchdog stops the program on too many errors").
THEOREM SerialEndsForCause ==
    ASSUME Bounds
    PROVE  Loops!SafeSpec =>
               [](~concurrent =>
                     /\ \A u \in Loops!Units : cancelled[u] = 0 /\ zombies[u] = 0
                     /\ main \in {"stopping", "closing"} => \E u \in Loops!Units : Cause(u))
<1>1. Loops!Init => SerialInv
  BY DEF Loops!Init, SerialInv
<1>2. Loops!TypeOK /\ SerialInv /\ [Loops!Next]_(Loops!vars) => SerialInv'
  BY SerialStep
<1>3. SerialInv => (~concurrent =>
          /\ \A u \in Loops!Units : cancelled[u] = 0 /\ zombies[u] = 0
          /\ main \in {"stopping", "closing"} => \E u \in Loops!Units : Cause(u))
  BY DEF SerialInv
<1> QED BY <1>1, <1>2, <1>3, Supervised, PTL DEF Loops!SafeSpec

\* A loop that runs has not raised more often in a row than watchdog tolerates.
InTime == \A u \in Loops!Units : Watchdog /\ loop[u] = "running" => errors[u] <= MaxErrors

\* Every step keeps that: a loop is started with a count of zero.
LEMMA InTimeStep ==
    ASSUME Bounds, Loops!TypeOK, InTime, [Loops!Next]_(Loops!vars)
    PROVE  InTime'
<1>0. /\ loop \in [Loops!Units -> {"running", "ended"}]
      /\ errors \in [Loops!Units -> 0..(MaxErrors + 1)]
      /\ MaxErrors \in Nat
  BY DEF Loops!TypeOK, Bounds
<1>a. ASSUME concurrent' = concurrent PROVE Loops!Units' = Loops!Units
  BY <1>a, UnitsKept
<1>1. ASSUME NEW u \in Loops!Units, Loops!CycleReturns(u) PROVE InTime'
  <2>1. UNCHANGED <<concurrent, loop>> /\ errors' = [errors EXCEPT ![u] = 0]
    BY <1>1 DEF Loops!CycleReturns
  <2> QED BY <1>0, <1>a, <2>1 DEF InTime
<1>2. ASSUME NEW u \in Loops!Units, Loops!CycleRaises(u) PROVE InTime'
  <2>1. /\ UNCHANGED concurrent /\ errors'[u] \in 0..(MaxErrors + 1)
        /\ Watchdog /\ loop'[u] = "running" => ~(errors'[u] > MaxErrors)
        /\ \A w \in Loops!Units \ {u} : loop'[w] = loop[w] /\ errors'[w] = errors[w]
    BY <1>0, <1>2 DEF Loops!CycleRaises
  <2>2. Watchdog /\ loop'[u] = "running" => errors'[u] <= MaxErrors
    BY <1>0, <2>1
  <2> QED BY <1>a, <2>1, <2>2 DEF InTime
<1>3. ASSUME NEW u \in Loops!Units,
             Loops!LoopStops(u) \/ Loops!CycleCancelled(u) \/ Loops!CancelTakes(u)
             \/ Loops!CancelSwallowed(u) \/ Loops!ZombieReturns(u) \/ Loops!ZombieEnds(u)
      PROVE InTime'
  <2>1. /\ UNCHANGED <<concurrent, errors>>
        /\ \A w \in Loops!Units : loop'[w] = "running" => loop[w] = "running"
    BY <1>0, <1>3 DEF Loops!LoopStops, Loops!CycleCancelled, Loops!CancelTakes,
       Loops!CancelSwallowed, Loops!ZombieReturns, Loops!ZombieEnds, Loops!loops
  <2> QED BY <1>a, <2>1 DEF InTime
<1>4. CASE Loops!Restart
  <2>1. /\ UNCHANGED concurrent
        /\ \/ \A w \in Loops!Units : loop'[w] = "ended"
           \/ \A w \in Loops!Units : errors'[w] = 0
    BY <1>4 DEF Loops!Restart
  <2> QED BY <1>0, <1>a, <2>1 DEF InTime
<1>5. CASE Loops!SerialEnds \/ Loops!Stop \/ Loops!Close \/ Loops!LoopWatches
           \/ Loops!ThreadStep \/ Loops!Signal \/ Loops!TimePasses \/ Loops!Hang
           \/ UNCHANGED Loops!vars
  <2>1. UNCHANGED <<concurrent, loop, errors>>
    BY <1>5 DEF Loops!SerialEnds, Loops!Stop, Loops!Close, Loops!LoopWatches, Loops!ThreadStep,
       Loops!ThreadWatches, Loops!ThreadLeaves, Loops!ThreadExits, Loops!Signal,
       Loops!TimePasses, Loops!Hang, Loops!vars, Loops!loops
  <2> QED BY <1>a, <2>1 DEF InTime
<1> QED BY <1>1, <1>2, <1>3, <1>4, <1>5 DEF Loops!Next, Loops!LoopStep, Loops!MainStep

\* With watchdog no loop goes on after more than MaxErrors errors in a row,
\* whether it serves one battery or all and however often it was started anew
\* (max_errors of fetch_loop: "too many errors, abort").
THEOREM AbortsInTime ==
    ASSUME Bounds
    PROVE  Loops!SafeSpec => []InTime
<1>1. Loops!Init => InTime
  BY DEF Loops!Init, InTime, Bounds
<1>2. Loops!TypeOK /\ InTime /\ [Loops!Next]_(Loops!vars) => InTime'
  BY InTimeStep
<1> QED BY <1>1, <1>2, Supervised, PTL DEF Loops!SafeSpec

\* Once the process was asked to end, that is not taken back by the count of
\* signals or by main() setting the flag itself, and no loop is started again,
\* nor does one that ended run (while not shutdown, on_exit).
THEOREM NoneStartsAgain ==
    ASSUME Bounds
    PROVE  Loops!SafeSpec =>
               [][shutdown > 0 =>
                     /\ shutdown' > 0
                     /\ \A u \in Loops!Units :
                            loop'[u] = "running" => loop[u] = "running"]_(Loops!vars)
<1> DEFINE Kept == /\ shutdown' > 0
                   /\ \A u \in Loops!Units : loop'[u] = "running" => loop[u] = "running"
<1>1. ASSUME Loops!TypeOK, [Loops!Next]_(Loops!vars), shutdown > 0 PROVE Kept
  <2>0. loop \in [Loops!Units -> {"running", "ended"}] /\ shutdown \in 0..5
    BY <1>1 DEF Loops!TypeOK
  <2>1. ASSUME NEW u \in Loops!Units, Loops!LoopStep(u) PROVE Kept
    <3>1. UNCHANGED shutdown
      BY <2>1 DEF Loops!LoopStep, Loops!CycleReturns, Loops!CycleRaises, Loops!LoopStops,
         Loops!CycleCancelled, Loops!CancelTakes, Loops!CancelSwallowed,
         Loops!ZombieReturns, Loops!ZombieEnds
    <3>2. ~Loops!CycleReturns(u) /\ ~Loops!CycleRaises(u)
      <4>1. shutdown # 0
        BY <1>1, <2>0
      <4> QED BY <4>1 DEF Loops!CycleReturns, Loops!CycleRaises
    <3>3. loop' = loop \/ loop' = [loop EXCEPT ![u] = "ended"]
      BY <2>1, <3>2 DEF Loops!LoopStep, Loops!LoopStops,
         Loops!CycleCancelled, Loops!CancelTakes, Loops!CancelSwallowed,
         Loops!ZombieReturns, Loops!ZombieEnds, Loops!loops
    <3> QED BY <1>1, <2>0, <3>1, <3>3
  <2>2. CASE Loops!MainStep
    BY <1>1, <2>0, <2>2 DEF Loops!MainStep, Loops!Restart, Loops!SerialEnds, Loops!Stop,
       Loops!Close, Loops!loops
  <2>3. CASE Loops!LoopWatches \/ Loops!ThreadStep \/ Loops!Signal \/ Loops!TimePasses
             \/ Loops!Hang \/ UNCHANGED Loops!vars
    BY <1>1, <2>0, <2>3 DEF Loops!LoopWatches, Loops!ThreadStep, Loops!ThreadWatches,
       Loops!ThreadLeaves, Loops!ThreadExits, Loops!Signal, Loops!TimePasses, Loops!Hang,
       Loops!vars, Loops!loops
  <2> QED BY <1>1, <2>1, <2>2, <2>3 DEF Loops!Next
<1>2. Loops!TypeOK /\ [Loops!Next]_(Loops!vars) => [shutdown > 0 => Kept]_(Loops!vars)
  BY <1>1
<1> QED BY <1>2, Supervised, PTL DEF Loops!SafeSpec
=============================================================================
