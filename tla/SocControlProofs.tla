-------------------------- MODULE SocControlProofs --------------------------
(***************************************************************************)
(* Proofs about SocControl, for any thresholds and any number of restarts. *)
(***************************************************************************)
EXTENDS SocControl, TLAPS

USE SocAssumption

\* The calibration threshold is below the upper limit.
LEMMA LowMarkBelow == TypeOK => LowMark < ChargeStop /\ LowMark \in Int
BY DEF LowMark, TypeOK

\* The actions that change nothing but the battery's state of charge.
Flow == Charge \/ Drain

\* Every step keeps the types.
LEMMA TypeStep == TypeOK /\ [Next]_vars => TypeOK'
<1> SUFFICES ASSUME TypeOK, [Next]_vars PROVE TypeOK'
  OBVIOUS
<1> USE DEF battery, process, algorithm
<1>s. state \in States /\ \A b \in BOOLEAN : [state EXCEPT !.charging = b] \in States
  BY DEF TypeOK, States
<1>1. CASE Flow
  <2>1. soc' \in 0..Full
    BY <1>1 DEF Flow, Charge, Drain, TypeOK
  <2>2. UNCHANGED <<switch, start, up, boots, calm, pc, sample, state, saved, cmd, rested>>
    BY <1>1 DEF Flow, Charge, Drain
  <2> QED BY <2>1, <2>2 DEF TypeOK
<1>2. CASE UserSets
  BY <1>2, Zenon DEF UserSets, TypeOK
<1>3. CASE BecomesDue
  <2>1. state' \in States /\ saved' \subseteq States
    <3>1. \A s \in States, b \in BOOLEAN : [s EXCEPT !.due = b] \in States
      BY DEF States
    <3>2. state' = [state EXCEPT !.due = (state.due \/ up)] /\ (state.due \/ up) \in BOOLEAN
      BY <1>3, Zenon DEF BecomesDue
    <3>3. saved \subseteq States /\ saved' = {[s EXCEPT !.due = TRUE] : s \in saved}
      BY <1>3 DEF BecomesDue, TypeOK
    <3> QED BY <1>s, <3>1, <3>2, <3>3, Zenon
  <2> QED BY <1>3, <2>1 DEF BecomesDue, TypeOK
<1>4. CASE Fetch
  <2>1. [soc |-> soc, switch |-> switch] \in [soc : -1..Full, switch : BOOLEAN]
    BY DEF TypeOK
  <2> QED BY <1>4, <2>1 DEF Fetch, TypeOK
<1>5. ASSUME NEW c \in BOOLEAN, NEW d \in BOOLEAN, NEW b \in BOOLEAN, Decide(c, d, b)
      PROVE  TypeOK'
  <2>1. state' \in States /\ cmd' \in BOOLEAN /\ rested' \in BOOLEAN
    BY <1>5, Zenon DEF Decide, States
  <2> QED BY <1>5, <2>1, Zenon DEF Decide, TypeOK
<1>6. ASSUME NEW c \in BOOLEAN, NoResult(c)
      PROVE  TypeOK'
  <2>1. state' \in States /\ rested' \in BOOLEAN
    BY <1>s, <1>6, Zenon DEF NoResult
  <2> QED BY <1>6, <2>1, Zenon DEF NoResult, TypeOK
<1>7. CASE Calibrated \/ ChargeToCalibrate \/ ReachStop \/ ReachStart
  BY <1>5, <1>6, <1>7, Zenon DEF Calibrated, ChargeToCalibrate, ReachStop, ReachStart
<1>8. CASE NoTrigger
  <2>1. state.charging \in BOOLEAN
    BY DEF TypeOK, States
  <2> QED BY <1>6, <1>8, <2>1, Zenon DEF NoTrigger
<1>9. CASE Store
  BY <1>9, Zenon DEF Store, TypeOK
<1>10. CASE SwitchDone
  <2>1. switch' \in BOOLEAN /\ rested' \in BOOLEAN
    BY <1>10, Zenon DEF SwitchDone, TypeOK
  <2> QED BY <1>10, <2>1, Zenon DEF SwitchDone, TypeOK
<1>11. CASE SwitchFails \/ Stop
  BY <1>11, Zenon DEF SwitchFails, Stop, TypeOK
<1>12. CASE CrashStoring
  BY <1>12, Zenon DEF CrashStoring, TypeOK
<1>13. CASE Boot
  <2>1. state' \in States /\ rested' \in BOOLEAN
    <3>1. FreshState \in States /\ saved \subseteq States
      BY Zenon DEF FreshState, States, TypeOK
    <3>2. state' = FreshState \/ state' \in saved
      BY <1>13 DEF Boot
    <3>3. rested' \in BOOLEAN
      BY <1>13, Zenon DEF Boot
    <3> QED BY <3>1, <3>2, <3>3
  <2>2. sample' \in [soc : -1..Full, switch : BOOLEAN] /\ boots' \in Nat
    BY <1>13 DEF Boot, NoSample, TypeOK
  <2> QED BY <1>13, <2>1, <2>2, Zenon DEF Boot, TypeOK
<1>14. CASE UNCHANGED vars
  BY <1>14 DEF vars, TypeOK
<1> QED BY <1>1, <1>2, <1>3, <1>4, <1>7, <1>8, <1>9, <1>10, <1>11, <1>12, <1>13, <1>14
        DEF Next, Cycle, Flow

\* Every variable keeps its type, whatever the user, the link and the process do.
THEOREM TypeCorrect == SafeSpec => []TypeOK
<1>1. Init => TypeOK
  <2>1. FreshState \in States
    BY Zenon DEF FreshState, States
  <2>2. NoSample \in [soc : -1..Full, switch : BOOLEAN]
    BY DEF NoSample
  <2>3. Init => /\ soc \in 0..Full /\ switch \in BOOLEAN /\ boots \in Nat
                /\ start \in ChargeStarts
                /\ state \in States /\ saved \subseteq States
                /\ sample \in [soc : -1..Full, switch : BOOLEAN]
    BY <2>1, <2>2 DEF Init
  <2> QED BY <2>3, Zenon DEF Init, TypeOK
<1> QED BY <1>1, TypeStep, PTL DEF SafeSpec

-----------------------------------------------------------------------------
(* The user's override.  While the algorithm rests neither its state nor   *)
(* the state it would restart from says that it is charging.               *)

RestInv ==
    /\ rested => ~state.charging /\ \A s \in saved : ~s.charging
    /\ pc \in {"store", "switch"} /\ ~cmd => ~state.charging
    /\ pc = "switch" /\ ~cmd => \A s \in saved : ~s.charging
    /\ pc \in {"store", "switch"} /\ cmd => ~rested

\* Every step keeps the algorithm, at rest, from charging.
LEMMA RestStep == TypeOK /\ RestInv /\ [Next]_vars => RestInv'
<1> SUFFICES ASSUME TypeOK, RestInv, [Next]_vars PROVE RestInv'
  OBVIOUS
<1> USE DEF TypeOK, RestInv, battery, process, algorithm, States
<1>1. CASE Flow \/ UserSets \/ Fetch \/ UNCHANGED vars
  BY <1>1 DEF Flow, Charge, Drain, UserSets, Fetch, vars
<1>2. CASE BecomesDue
  BY <1>2 DEF BecomesDue
<1>3. CASE Calibrated \/ ChargeToCalibrate
  BY <1>3 DEF Calibrated, ChargeToCalibrate, Decide
<1>4. CASE ReachStop \/ ReachStart \/ NoTrigger
  BY <1>4, LowMarkBelow DEF ReachStop, ReachStart, NoTrigger, Decide, NoResult
<1>5. CASE Store \/ SwitchDone \/ SwitchFails
  BY <1>5 DEF Store, SwitchDone, SwitchFails
<1>6. CASE Stop \/ CrashStoring
  BY <1>6 DEF Stop, CrashStoring
<1>7. CASE Boot
  BY <1>7 DEF Boot
<1> QED BY <1>1, <1>2, <1>3, <1>4, <1>5, <1>6, <1>7 DEF Next, Cycle, Flow

\* What may end the rest OverrideKept speaks of, so that its history excuses no
\* more: a cycle that saw the battery at charge_start or with a calibration due,
\* and a start that finds no state file.
Trigger == pc = "update" /\ (state.due \/ sample.soc <= LowMark)
StartsAnew == ~up /\ saved = {}
RestEnds == [][rested /\ ~rested' => Trigger \/ StartsAnew]_vars

\* Having switched off, the algorithm does not switch off again before a
\* trigger to charge, through failed writes, crashes and restarts that find the
\* state file (create_algorithm); after a start without the file, which a crash
\* of store_algorithm_state can leave behind, nothing is said: the algorithm is
\* in its initial state and may switch off at charge_stop once more.  Nothing
\* else ends its rest.
THEOREM Override == SafeSpec => OverrideKept /\ RestEnds
<1>1. Init => RestInv
  BY DEF Init, RestInv
<1>2. RestInv /\ [Next]_vars
        => [pc = "update" /\ pc' = "store" /\ ~cmd' => ~rested \/ state.due]_vars
  BY DEF RestInv, Next, Cycle, Charge, Drain, UserSets, BecomesDue, Fetch, Calibrated,
         ChargeToCalibrate, ReachStop, ReachStart, NoTrigger, Decide, NoResult, Store,
         SwitchDone, SwitchFails, Stop, CrashStoring, Boot
<1>3. TypeOK /\ RestInv /\ [Next]_vars => [rested /\ ~rested' => Trigger \/ StartsAnew]_vars
  <2> SUFFICES ASSUME TypeOK, RestInv, Next, rested, ~rested'
               PROVE  Trigger \/ StartsAnew
    OBVIOUS
  <2>1. ~ \/ Flow \/ UserSets \/ BecomesDue \/ Fetch \/ Store \/ SwitchFails
          \/ Stop \/ CrashStoring
    BY DEF Flow, Charge, Drain, UserSets, BecomesDue, Fetch, Store, SwitchFails, Stop,
       CrashStoring, algorithm
  <2>2. CASE Calibrated \/ ChargeToCalibrate \/ ReachStop \/ ReachStart \/ NoTrigger
    <3>1. sample.soc \in Int /\ LowMark \in Int
      BY LowMarkBelow DEF TypeOK
    <3>2. ASSUME NEW b, NoResult(b) PROVE state.due \/ sample.soc <= LowMark
      <4>1. ~(~state.due /\ sample.soc > LowMark)
        BY <3>2, Zenon DEF NoResult
      <4> QED BY <3>1, <4>1
    <3>3. \A x, y : ~Decide(x, y, FALSE)
      BY DEF Decide
    <3> QED BY <2>2, <3>2, <3>3 DEF Calibrated, ChargeToCalibrate, ReachStop, ReachStart,
       NoTrigger, Trigger
  <2>3. CASE SwitchDone
    BY <2>3 DEF SwitchDone, RestInv, TypeOK
  <2>4. CASE Boot
    BY <2>4 DEF Boot, StartsAnew
  <2> QED BY <2>1, <2>2, <2>3, <2>4 DEF Next, Cycle, Flow
<1> QED BY <1>1, <1>2, <1>3, RestStep, TypeCorrect, PTL DEF SafeSpec, OverrideKept, RestEnds

-----------------------------------------------------------------------------
(* The limit, while only the algorithm sets the switch, its writes succeed *)
(* and the process stops cleanly.                                          *)

LimitInv ==
    /\ ~state.charging => ~switch \/ (pc \in {"store", "switch"} /\ ~cmd)
    /\ \A s \in saved : ~s.charging => ~switch \/ (pc = "switch" /\ ~cmd)
    /\ pc \in {"store", "switch"} => cmd = state.charging
    /\ pc = "switch" => saved = {state}
    /\ pc = "update" => sample.switch = switch
    /\ ~up => pc = "idle"
    /\ pc # "update" /\ sample.soc >= ChargeStop /\ ~state.due => ~state.charging

\* What disturbs once has disturbed for good.
LEMMA CalmStep == TypeOK /\ [Next]_vars /\ calm' => calm
BY DEF TypeOK, Next, Cycle, Charge, Drain, UserSets, BecomesDue, Fetch, Calibrated,
       ChargeToCalibrate, ReachStop, ReachStart, NoTrigger, Decide, NoResult, Store,
       SwitchDone, SwitchFails, Stop, CrashStoring, Boot, process, vars

\* Every step of a calm run keeps the switch off above the limit.
LEMMA LimitStep ==
    TypeOK /\ (calm => LimitInv) /\ [Next]_vars => (calm' => LimitInv')
<1> SUFFICES ASSUME TypeOK, LimitInv, [Next]_vars, calm' PROVE LimitInv'
  BY CalmStep
<1> USE DEF TypeOK, LimitInv, battery, process, algorithm, States
<1>0. ~UserSets /\ ~SwitchFails /\ ~CrashStoring
  BY Zenon DEF UserSets, SwitchFails, CrashStoring
<1>1. CASE Flow \/ Fetch \/ UNCHANGED vars
  <2>1. CASE Flow \/ UNCHANGED vars
    <3>1. UNCHANGED <<switch, up, pc, sample, state, saved, cmd>>
      BY <2>1, Zenon DEF Flow, Charge, Drain, vars
    <3> QED BY <3>1
  <2>2. CASE Fetch
    BY <2>2 DEF Fetch
  <2> QED BY <1>1, <2>1, <2>2
<1>2. CASE BecomesDue
  <2>1. /\ state' = [state EXCEPT !.due = @ \/ up]
        /\ saved' = {[s EXCEPT !.due = TRUE] : s \in saved}
        /\ UNCHANGED <<soc, switch, up, pc, sample, cmd>>
    BY <1>2 DEF BecomesDue
  <2>2. state'.charging = state.charging /\ (~state'.due => ~state.due)
    BY <2>1
  <2>3. \A s \in saved' : \E r \in saved : s.charging = r.charging
    BY <2>1
  <2>4. ASSUME pc = "switch" PROVE saved' = {state'}
    <3>1. up /\ saved = {state}
      BY <2>4
    <3>2. state' = [state EXCEPT !.due = TRUE]
      BY <2>1, <3>1
    <3> QED BY <2>1, <3>1, <3>2
  <2> QED BY <2>1, <2>2, <2>3, <2>4
<1>3. CASE Calibrated
  <2>1. /\ pc' = "store" /\ state' = [charging |-> FALSE, due |-> FALSE] /\ cmd' = FALSE
        /\ up /\ pc = "update" /\ UNCHANGED <<soc, switch, up, sample, saved>>
    BY <1>3 DEF Calibrated, Decide
  <2> QED BY <2>1
<1>4. CASE ChargeToCalibrate
  <2>1. /\ pc' = "store" /\ state' = [charging |-> TRUE, due |-> TRUE] /\ cmd' = TRUE
        /\ up /\ pc = "update" /\ UNCHANGED <<soc, switch, up, sample, saved>>
    BY <1>4 DEF ChargeToCalibrate, Decide
  <2> QED BY <2>1
<1>5. CASE ReachStop
  <2>1. CASE sample.switch
    <3>1. /\ pc' = "store" /\ state' = [charging |-> FALSE, due |-> FALSE] /\ cmd' = FALSE
          /\ up /\ pc = "update" /\ UNCHANGED <<soc, switch, up, sample, saved>>
      BY <1>5, <2>1 DEF ReachStop, Decide
    <3> QED BY <3>1
  <2>2. CASE ~sample.switch
    <3>1. /\ pc' = "idle" /\ state' = [state EXCEPT !.charging = FALSE]
          /\ up /\ pc = "update" /\ UNCHANGED <<soc, switch, up, sample, saved>>
      BY <1>5, <2>2 DEF ReachStop, NoResult
    <3> QED BY <2>2, <3>1
  <2> QED BY <2>1, <2>2
<1>6. CASE ReachStart
  <2>1. ~(sample.soc >= ChargeStop)
    BY <1>6, LowMarkBelow DEF ReachStart
  <2>2. CASE ~sample.switch
    <3>1. /\ pc' = "store" /\ state' = [charging |-> TRUE, due |-> FALSE] /\ cmd' = TRUE
          /\ up /\ pc = "update" /\ UNCHANGED <<soc, switch, up, sample, saved>>
      BY <1>6, <2>2 DEF ReachStart, Decide
    <3> QED BY <2>1, <3>1
  <2>3. CASE sample.switch
    <3>1. /\ pc' = "idle" /\ state' = [state EXCEPT !.charging = TRUE]
          /\ up /\ pc = "update" /\ UNCHANGED <<soc, switch, up, sample, saved>>
      BY <1>6, <2>3 DEF ReachStart, NoResult
    <3> QED BY <2>1, <3>1
  <2> QED BY <2>2, <2>3
<1>7. CASE NoTrigger
  <2>1. /\ pc' = "idle" /\ state' = state
        /\ up /\ pc = "update" /\ UNCHANGED <<soc, switch, up, sample, saved>>
    BY <1>7 DEF NoTrigger, NoResult
  <2>2. sample.soc >= ChargeStop /\ ~state.due => ~state.charging
    BY <1>7 DEF NoTrigger
  <2> QED BY <2>1, <2>2
<1>8. CASE Store
  BY <1>8 DEF Store
<1>9. CASE SwitchDone
  BY <1>9 DEF SwitchDone
<1>10. CASE Stop
  <2>1. pc = "idle" /\ UNCHANGED <<switch, pc, sample, state, saved, cmd>>
    BY <1>10, Zenon DEF Stop
  <2> QED BY <2>1
<1>11. CASE Boot
  BY <1>11 DEF Boot, FreshState, NoSample
<1> QED BY <1>0, <1>1, <1>2, <1>3, <1>4, <1>5, <1>6, <1>7, <1>8, <1>9, <1>10, <1>11
        DEF Next, Cycle, Flow

\* Once a cycle has seen charge_stop the switch is off, unless a calibration
\* is due, a user interfered, a write failed or the process died.
THEOREM Limit == SafeSpec => []StopsAtLimit
<1>1. Init => (calm => LimitInv)
  BY DEF Init, LimitInv, FreshState, NoSample
<1>2. TypeOK /\ (calm => LimitInv) => StopsAtLimit
  BY DEF TypeOK, LimitInv, StopsAtLimit
<1> QED BY <1>1, <1>2, LimitStep, TypeCorrect, PTL DEF SafeSpec
=============================================================================
