----------------------------- MODULE SocControl -----------------------------
(***************************************************************************)
(* The SoC charge algorithm (bmslib/algorithm.py) in its loop: the sampler *)
(* fetches the battery's state of charge and its charge switch, lets the   *)
(* algorithm decide, stores the algorithm's state if it decided anything,  *)
(* and then writes the switch (_sample_inner in bmslib/sampling.py).       *)
(*                                                                         *)
(* Around the loop the battery charges while the switch is on and is       *)
(* drained by its load; a user may set the switch too (over MQTT or with   *)
(* the vendor's app); a write to the BMS may fail; the process stops,      *)
(* crashes and starts again from bat_state_<bms>.json.                     *)
(*                                                                         *)
(* The state of charge is counted in units of the 0.2 % that update()      *)
(* keeps between charge_stop and charge_start.  Of the time since the last *)
(* calibration only "longer than calibration_interval" is kept.            *)
(*                                                                         *)
(* A definition commented "Faulty" is a variant of the one that follows it *)
(* with a plausible bug; a property of this module must tell them apart.   *)
(***************************************************************************)
EXTENDS Integers

CONSTANTS
    Full,         \* 100 %
    ChargeStop,   \* charge_stop
    ChargeStarts, \* values of charge_start, charge_stop if it was not given
    Calibrate,    \* whether there is a calibration interval
    UserActs,     \* whether a user sets the switch too
    MaxBoots      \* bound on the number of times the process starts

\* SocArgs asserts charge_stop >= charge_start.
ASSUME SocAssumption ==
    /\ Full \in Nat /\ ChargeStop \in 1..Full /\ ChargeStarts \subseteq 0..ChargeStop
    /\ MaxBoots \in Nat
    /\ Calibrate \in BOOLEAN /\ UserActs \in BOOLEAN

VARIABLES
    soc,      \* the battery's state of charge
    switch,   \* its charge switch
    start,    \* the charge_start of its options
    up,       \* whether the process runs
    boots,    \* starts so far
    calm,     \* history: no user, failed write or crash so far
    pc,       \* the sampler: "idle", "update", "store" or "switch"
    sample,   \* the sample last fetched in this life of the process
    state,    \* SocState: charging, and whether a calibration is due
    saved,    \* the state in the file: {} if absent or unreadable
    cmd,      \* BatterySwitches.charge, the value to write
    rested    \* history: switched off, and no trigger to charge seen since

battery == <<soc, switch, start>>
process == <<up, boots, calm>>
algorithm == <<state, cmd, rested>>
vars == <<battery, process, pc, sample, algorithm, saved>>

States == [charging : BOOLEAN, due : BOOLEAN]
FreshState == [charging |-> TRUE, due |-> FALSE]
NoSample == [soc |-> -1, switch |-> FALSE]

\* Faulty: nothing keeps charge_start below charge_stop.
LowMarkAtStart == start

LowMark == IF start < ChargeStop - 1 THEN start ELSE ChargeStop - 1

Init ==
    /\ soc \in 0..Full /\ switch \in BOOLEAN /\ start \in ChargeStarts
    /\ up = TRUE /\ boots = 1 /\ calm = TRUE
    /\ pc = "idle" /\ sample = NoSample
    /\ state = FreshState /\ saved = {}
    /\ cmd = FALSE /\ rested = FALSE

-----------------------------------------------------------------------------
(* The battery and its user.                                               *)

Charge ==
    /\ switch /\ soc < Full
    /\ soc' = soc + 1
    /\ UNCHANGED <<switch, start, process, pc, sample, algorithm, saved>>

Drain ==
    /\ soc > 0
    /\ soc' = soc - 1
    /\ UNCHANGED <<switch, start, process, pc, sample, algorithm, saved>>

UserSets ==
    /\ UserActs
    /\ switch' = ~switch /\ calm' = FALSE
    /\ UNCHANGED <<soc, start, up, boots, pc, sample, algorithm, saved>>

\* The calibration interval runs out, for the state in the file as well.
BecomesDue ==
    /\ Calibrate
    /\ state' = [state EXCEPT !.due = @ \/ up]
    /\ saved' = {[s EXCEPT !.due = TRUE] : s \in saved}
    /\ UNCHANGED <<battery, process, pc, sample, cmd, rested>>

-----------------------------------------------------------------------------
(* A sampling cycle: fetch, SocAlgorithm.update, store, set_switch.        *)

Fetch ==
    /\ up /\ pc = "idle"
    /\ sample' = [soc |-> soc, switch |-> switch]
    /\ pc' = "update"
    /\ UNCHANGED <<battery, process, algorithm, saved>>

\* update() returns a result: the switch is to be c.
Decide(charging, due, c) ==
    /\ state' = [charging |-> charging, due |-> due]
    /\ cmd' = c
    /\ rested' = (rested /\ ~c)
    /\ pc' = "store"
    /\ UNCHANGED <<battery, process, sample, saved>>

\* update() returns None.
NoResult(charging) ==
    /\ state' = [state EXCEPT !.charging = charging]
    /\ rested' = (rested /\ ~state.due /\ sample.soc > LowMark)
    /\ pc' = "idle"
    /\ UNCHANGED <<battery, process, sample, cmd, saved>>

Calibrated ==
    /\ up /\ pc = "update"
    /\ state.due /\ sample.soc = Full
    /\ Decide(FALSE, FALSE, FALSE)

ChargeToCalibrate ==
    /\ up /\ pc = "update"
    /\ state.due /\ sample.soc # Full /\ ~sample.switch
    /\ Decide(TRUE, TRUE, TRUE)

\* Faulty: beyond charge_stop only.
ReachStopLate ==
    /\ up /\ pc = "update"
    /\ ~state.due /\ state.charging /\ sample.soc > ChargeStop
    /\ IF sample.switch THEN Decide(FALSE, FALSE, FALSE) ELSE NoResult(FALSE)

ReachStop ==
    /\ up /\ pc = "update"
    /\ ~state.due /\ state.charging /\ sample.soc >= ChargeStop
    /\ IF sample.switch THEN Decide(FALSE, FALSE, FALSE) ELSE NoResult(FALSE)

ReachStart ==
    /\ up /\ pc = "update"
    /\ ~state.due /\ ~state.charging /\ sample.soc <= LowMark
    /\ IF sample.switch THEN NoResult(TRUE) ELSE Decide(TRUE, FALSE, TRUE)

NoTrigger ==
    /\ up /\ pc = "update"
    /\ \/ state.due /\ sample.soc # Full /\ sample.switch
       \/ ~state.due /\ state.charging /\ sample.soc < ChargeStop
       \/ ~state.due /\ ~state.charging /\ sample.soc > LowMark
    /\ NoResult(state.charging)

\* Faulty: last_calibration_time is left out.
StorePart ==
    /\ up /\ pc = "store"
    /\ saved' = {[charging |-> state.charging]}
    /\ pc' = "switch"
    /\ UNCHANGED <<battery, process, sample, algorithm>>

\* store_algorithm_state, before the switch is written.
Store ==
    /\ up /\ pc = "store"
    /\ saved' = {state}
    /\ pc' = "switch"
    /\ UNCHANGED <<battery, process, sample, algorithm>>

SwitchDone ==
    /\ up /\ pc = "switch"
    /\ switch' = cmd
    /\ rested' = ~cmd
    /\ pc' = "idle"
    /\ UNCHANGED <<soc, start, process, sample, state, cmd, saved>>

\* set_switch raises and the cycle ends; nothing undoes update().
SwitchFails ==
    /\ up /\ pc = "switch"
    /\ pc' = "idle" /\ calm' = FALSE
    /\ UNCHANGED <<battery, up, boots, sample, algorithm, saved>>

Cycle ==
    \/ Fetch
    \/ Calibrated \/ ChargeToCalibrate \/ ReachStop \/ ReachStart \/ NoTrigger
    \/ Store
    \/ SwitchDone \/ SwitchFails

-----------------------------------------------------------------------------
(* The life of the process.                                                *)

\* Between two cycles the process may have been stopped, elsewhere it died.
Stop ==
    /\ up
    /\ up' = FALSE /\ calm' = (calm /\ pc = "idle")
    /\ UNCHANGED <<battery, boots, pc, sample, algorithm, saved>>

\* The file is truncated before the new state is dumped into it.
CrashStoring ==
    /\ up /\ pc = "store"
    /\ up' = FALSE /\ calm' = FALSE
    /\ saved' = {}
    /\ UNCHANGED <<battery, boots, pc, sample, algorithm>>

\* Faulty: starts as if there was no file.
BootFresh ==
    /\ ~up /\ boots < MaxBoots
    /\ up' = TRUE /\ boots' = boots + 1
    /\ pc' = "idle" /\ sample' = NoSample
    /\ state' = FreshState
    /\ rested' = (rested /\ saved # {})
    /\ UNCHANGED <<battery, calm, cmd, saved>>

\* create_algorithm.  What the algorithm rested on is lost with the file.
Boot ==
    /\ ~up /\ boots < MaxBoots
    /\ up' = TRUE /\ boots' = boots + 1
    /\ pc' = "idle" /\ sample' = NoSample
    /\ state' \in IF saved = {} THEN {FreshState} ELSE saved
    /\ rested' = (rested /\ saved # {})
    /\ UNCHANGED <<battery, calm, cmd, saved>>

Next ==
    \/ Charge
    \/ Drain
    \/ UserSets
    \/ BecomesDue
    \/ Cycle
    \/ Stop
    \/ CrashStoring
    \/ Boot

SafeSpec == Init /\ [][Next]_vars

\* The fetch loop goes on, and a write that is tried again and again succeeds
\* now and then.
Spec == SafeSpec /\ WF_vars(Cycle) /\ SF_vars(SwitchDone)

-----------------------------------------------------------------------------
TypeOK ==
    /\ soc \in 0..Full /\ switch \in BOOLEAN /\ start \in ChargeStarts
    /\ up \in BOOLEAN /\ boots \in Nat /\ calm \in BOOLEAN
    /\ pc \in {"idle", "update", "store", "switch"}
    /\ sample \in [soc : -1..Full, switch : BOOLEAN]
    /\ state \in States /\ saved \subseteq States
    /\ cmd \in BOOLEAN /\ rested \in BOOLEAN

\* As long as nobody interferes, after a cycle that saw charge_stop reached the
\* charge switch is off, also across clean restarts, unless a calibration is
\* due: what the algorithm believes (state.charging) and what the battery does
\* do not drift apart.
StopsAtLimit ==
    calm /\ up /\ pc = "idle" /\ sample.soc >= ChargeStop /\ ~state.due => ~switch

\* doc/Algorithms.md: "The algorithm toggles switches at trigger points only,
\* so you can still use the BMS switches manually".  Once it switched off, it
\* does not switch off again, overriding the user, before it has seen the
\* battery at charge_start or a calibration fall due; crashes, failed writes
\* and restarts that find the file do not change that.
OverrideKept ==
    [][pc = "update" /\ pc' = "store" /\ ~cmd' => ~rested \/ state.due]_vars

\* doc/Algorithms.md, charge_stop: "at this SoC% the algorithm turns off the
\* charger to avoid charging beyond".
LimitEnforced ==
    (up /\ switch /\ soc >= ChargeStop /\ ~state.due)
        ~> (~up \/ ~switch \/ soc < ChargeStop \/ state.due)

\* ... where no write fails, nobody else sets the switch and no crash happens.
CalmEnforced == []calm => LimitEnforced
=============================================================================
