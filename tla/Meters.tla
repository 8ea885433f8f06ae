------------------------------- MODULE Meters -------------------------------
(***************************************************************************)
(* The energy meters of one BMS (Integrator in bmslib/pwmath.py, the       *)
(* sampling cycle of bmslib/sampling.py that feeds them) and their         *)
(* persistence (store_states in main.py, bmslib/store.py).                 *)
(*                                                                         *)
(* Two threads share the meters: the event loop, which runs the sampling   *)
(* loops and background_loop, and background_thread, which may be          *)
(* scheduled between any two statements of a cycle and reads one meter     *)
(* after another.  With concurrent_sampling a loop may outlive its         *)
(* cancellation and feed the same meters as its successor.  The process    *)
(* may stop cleanly or die, and starts again from the file.  Readings are  *)
(* kept doubled, so that the trapezoid dx * (y0 + y1) / 2 stays an integer.*)
(*                                                                         *)
(* A definition commented "Faulty" is a variant of the one that follows it *)
(* with a plausible bug; a property of this module must tell them apart.   *)
(***************************************************************************)
EXTENDS Integers

CONSTANTS
    Loops,      \* sampling loops of the BMS that may run at a time
    Concurrent, \* the starts with the concurrent_sampling option
    Powers,     \* power values a BMS reports; discharging is positive
    DxMax,      \* longest gap that is integrated over (dt_max_seconds)
    Invert,     \* the invert_current option
    MayCrash,   \* whether the process may die without a clean stop
    MaxTime,    \* bound on the clock
    MaxBoots    \* bound on the number of times the process starts

ASSUME MetersAssumption ==
    /\ Powers \subseteq Int /\ Concurrent \subseteq Nat
    /\ DxMax \in Nat /\ MaxTime \in Nat /\ MaxBoots \in Nat
    /\ Invert \in BOOLEAN /\ MayCrash \in BOOLEAN

VARIABLES
    now,        \* time.time(); an adjustment of the clock may set it back
    process,    \* "up", "stopping" (final store done) or "down"
    boots,      \* starts so far
    pc,         \* the loops: the next meter they feed, or "off"
    sample,     \* the samples of their cycles: time and power
    meter,      \* the integrators: last x, last y, doubled reading
    overlap,    \* history: whether cycles overlapped, see FeedCharge
    base,       \* history: the readings since which none did
    store,      \* background_thread: the next meter its snapshot reads
    snap,       \* ... and the snapshot so far
    file        \* bms_meter_states.json

vars == <<now, process, boots, pc, sample, meter, overlap, base, store, snap,
          file>>

MeterNames == {"charge", "discharge", "total"}
NoX == -1       \* math.nan: nothing was added since the start
Zero == [k \in MeterNames |-> 0]
Fresh(r) == [k \in MeterNames |-> [x |-> NoX, y |-> 0, sum |-> r[k]]]
Readings == [k \in MeterNames |-> meter[k].sum]
Moment == [t |-> 0, p |-> 0]

\* Loops with a cycle under way: they have a sample and meters left to feed.
UnderWay == {l \in Loops : pc[l] \in {"discharge", "total"}}

\* No loop is between the first two meters: nothing is awaited there, so
\* another coroutine finds all of them elsewhere.
Awaiting == \A l \in Loops : pc[l] # "discharge"

\* Loops that wait for fetch() or for the next period.
Fetching == {l \in Loops : pc[l] = "charge"}

\* Loops may outlive one another.
Concurrently == boots \in Concurrent

\* The first loop starts.
Starts(state) ==
    \E l \in Loops : state = [m \in Loops |-> IF m = l THEN "charge" ELSE "off"]

Init ==
    /\ now = 0
    /\ process = "up" /\ boots = 1
    /\ Starts(pc) /\ sample = [l \in Loops |-> Moment]
    /\ meter = Fresh(Zero)
    /\ overlap = "none" /\ base = Zero
    /\ store = "total" /\ snap = Zero
    /\ file = Zero

-----------------------------------------------------------------------------
(* Integrator.add_linear                                                   *)

Add(i, x, y) ==
    [x |-> x, y |-> y,
     sum |-> IF i.x # NoX /\ x - i.x <= DxMax THEN i.sum + (x - i.x) * (i.y + y) ELSE i.sum]

\* Faulty: integrates backwards.
AcceptsAll(i, x) == TRUE

\* add_linear raises if x went backwards.
Accepts(i, x) == i.x = NoX \/ x >= i.x

Feed(k, t, y) == meter' = [meter EXCEPT ![k] = Add(@, t, y)]

\* What each meter integrates; total is fed after invert_current.
ChargePower(p) == IF p < 0 THEN -p ELSE 0
DischargePower(p) == IF p > 0 THEN p ELSE 0
TotalPower(p) == IF Invert THEN -p ELSE p

-----------------------------------------------------------------------------
(* The sampling cycles                                                     *)

\* fetch() returned p; if the clock was set back the first meter raises and
\* the cycle ends there.  Nothing keeps a second loop from beginning while
\* another awaits the temperatures (overlap is "going"); the first cycle that
\* begins alone again puts the overlap in the "past".  A loop that shutdown
\* found waiting for its fetch finishes the cycle.
FeedCharge(l, p) ==
    /\ process # "down" /\ pc[l] = "charge" /\ Awaiting
    /\ Accepts(meter["charge"], now)
    /\ sample' = [sample EXCEPT ![l] = [t |-> now, p |-> p]]
    /\ Feed("charge", now, ChargePower(p))
    /\ pc' = [pc EXCEPT ![l] = "discharge"]
    /\ overlap' = IF UnderWay # {} THEN "going"
                  ELSE IF overlap = "going" THEN "past" ELSE overlap
    /\ UNCHANGED <<now, process, boots, base, store, snap, file>>

FeedDischarge(l) ==
    /\ process # "down" /\ pc[l] = "discharge"
    /\ Feed("discharge", sample[l].t, DischargePower(sample[l].p))
    /\ pc' = [pc EXCEPT ![l] = "total"]
    /\ UNCHANGED <<now, process, boots, sample, overlap, base, store, snap, file>>

\* The cycle of l ends; fetch_loop() looks for the shutdown.
Done(l) ==
    /\ pc' = [pc EXCEPT ![l] = IF process = "up" THEN "charge" ELSE "off"]
    /\ sample' = [sample EXCEPT ![l] = Moment]
    /\ UNCHANGED <<now, process, boots, store, snap, file>>

\* A cycle that ran alone after an overlap brings the meters in step again.
InStep ==
    /\ overlap' = IF overlap = "past" THEN "none" ELSE overlap
    /\ base' = IF overlap = "past" THEN [k \in MeterNames |-> meter'[k].sum]
               ELSE base

\* Faulty: reads the clock again after the temperatures were awaited.
FeedTotalLate(l) ==
    /\ process # "down" /\ pc[l] = "total" /\ Awaiting
    /\ Accepts(meter["total"], now)
    /\ Feed("total", now, TotalPower(sample[l].p))
    /\ Done(l) /\ InStep

\* After awaiting the temperatures; a stop does not await this cycle's end
\* (concurrent sampling) and cancelling it does not end it either, as
\* _fetch_temperatures_cached swallows the CancelledError.
FeedTotal(l) ==
    /\ process # "down" /\ pc[l] = "total" /\ Awaiting
    /\ Accepts(meter["total"], sample[l].t)
    /\ Feed("total", sample[l].t, TotalPower(sample[l].p))
    /\ Done(l) /\ InStep

\* Another loop has fed a later sample meanwhile: the meter raises, and this
\* sample was counted by two of the three.
TotalRaises(l) ==
    /\ process # "down" /\ pc[l] = "total" /\ Awaiting
    /\ ~Accepts(meter["total"], sample[l].t)
    /\ Done(l)
    /\ UNCHANGED <<meter, overlap, base>>

\* Loops that wait may end, by an error or by their cancellation; those that
\* swallow it go on.
Without(ended) == [l \in Loops |-> IF l \in ended THEN "off" ELSE pc[l]]

\* With concurrent_sampling main() cancels all loops when one has ended, does
\* not wait for them, and starts new ones.
Restart(l) ==
    /\ process = "up" /\ Concurrently /\ pc[l] = "off" /\ Awaiting
    /\ \E ended \in SUBSET Fetching : pc' = [Without(ended) EXCEPT ![l] = "charge"]
    /\ UNCHANGED <<now, process, boots, sample, meter, overlap, base, store,
                   snap, file>>

-----------------------------------------------------------------------------
(* store_states                                                            *)

\* By background_loop: a coroutine, so the loops are at an await (between
\* cycles or awaiting temperatures) and its snapshot is of one moment.
LoopStores ==
    /\ process # "down" /\ Awaiting
    /\ file' = Readings
    /\ UNCHANGED <<now, process, boots, pc, sample, meter, overlap, base,
                   store, snap>>

\* Faulty: a new snapshot for each meter.
ThreadReadsAnew ==
    /\ process = "up" \/ (process = "stopping" /\ store # "total")
    /\ store \in MeterNames
    /\ snap' = [k \in {store} |-> meter[k].sum]
    /\ store' = CASE store = "total" -> "discharge"
                  [] store = "discharge" -> "charge"
                  [] OTHER -> "write"
    /\ UNCHANGED <<now, process, boots, pc, sample, meter, overlap, base,
                   file>>

\* By background_thread: get_meter_state reads one meter after another.  No
\* snapshot begins after the shutdown, but one may be under way ...
ThreadReads ==
    /\ process = "up" \/ (process = "stopping" /\ store # "total")
    /\ store \in MeterNames
    /\ snap' = [snap EXCEPT ![store] = meter[store].sum]
    /\ store' = CASE store = "total" -> "discharge"
                  [] store = "discharge" -> "charge"
                  [] OTHER -> "write"
    /\ UNCHANGED <<now, process, boots, pc, sample, meter, overlap, base,
                   file>>

\* ... and store_meter_states takes the lock only to write what was read.
ThreadWrites ==
    /\ process # "down" /\ store = "write"
    /\ file' \in {snap, file}             \* the write may fail, bg_checks logs it
    /\ store' = "total" /\ snap' = Zero
    /\ UNCHANGED <<now, process, boots, pc, sample, meter, overlap, base>>

-----------------------------------------------------------------------------
(* The life of the process                                                 *)

\* main(), after the one loop ended, or after the loops were cancelled:
\* shutdown = True, store_states().
Stop ==
    /\ process = "up"
    /\ process' = "stopping"
    /\ IF Concurrently THEN Awaiting ELSE UnderWay = {}
    /\ \E ended \in IF Concurrently THEN SUBSET Fetching ELSE {Fetching} :
           pc' = Without(ended)
    /\ file' = Readings
    /\ UNCHANGED <<now, boots, sample, meter, overlap, base,
                   store, snap>>

\* The process ends, after a clean stop or at any time; the meters are left to
\* compare the file with.
Exit ==
    /\ process = "stopping" \/ (MayCrash /\ process = "up")
    /\ process' = "down"
    /\ pc' = [l \in Loops |-> "off"] /\ sample' = [l \in Loops |-> Moment]
    /\ store' = "total" /\ snap' = Zero
    /\ UNCHANGED <<now, boots, meter, overlap, base, file>>

\* load_meter_states, Integrator.restore
Boot ==
    /\ process = "down" /\ boots < MaxBoots
    /\ process' = "up" /\ boots' = boots + 1
    /\ meter' = Fresh(file)
    /\ overlap' = "none" /\ base' = file
    /\ Starts(pc')
    /\ store' = "total" /\ snap' = Zero
    /\ UNCHANGED <<now, sample, file>>

Tick ==
    /\ now < MaxTime
    /\ now' = now + 1
    /\ UNCHANGED <<process, boots, pc, sample, meter, overlap, base, store,
                   snap, file>>

SetBack ==
    /\ now > 0
    /\ now' = now - 1
    /\ UNCHANGED <<process, boots, pc, sample, meter, overlap, base, store,
                   snap, file>>

Next ==
    \/ \E l \in Loops, p \in Powers : FeedCharge(l, p)
    \/ \E l \in Loops : FeedDischarge(l)
    \/ \E l \in Loops : FeedTotal(l)
    \/ \E l \in Loops : TotalRaises(l)
    \/ \E l \in Loops : Restart(l)
    \/ LoopStores
    \/ ThreadReads
    \/ ThreadWrites
    \/ Stop
    \/ Exit
    \/ Boot
    \/ Tick
    \/ SetBack

Spec == Init /\ [][Next]_vars

-----------------------------------------------------------------------------
TypeOK ==
    /\ now \in Nat
    /\ process \in {"up", "stopping", "down"}
    /\ boots \in Nat
    /\ pc \in [Loops -> MeterNames \cup {"off"}]
    /\ sample \in [Loops -> [t : Nat, p : Int]]
    /\ meter \in [MeterNames -> [x : Nat \cup {NoX}, y : Int, sum : Int]]
    /\ overlap \in {"none", "going", "past"}
    /\ base \in [MeterNames -> Int]
    /\ store \in MeterNames \cup {"write"}
    /\ snap \in [MeterNames -> Int]
    /\ file \in [MeterNames -> Int]

Gain(k) == meter[k].sum - base[k]

\* Between cycles, whatever gaps, clock adjustments and restarts there were,
\* the total counted is the energy out less the energy in (the sign turned by
\* invert_current): the three meters integrate the same samples over the same
\* intervals.  A loop that outlived its cancellation (wait_for, main.py) may
\* upset that, but only while its cycles overlap with those of its successor:
\* it holds since the start, or since the end of the first cycle after that.
GainBalanced ==
    process # "down" /\ overlap = "none" /\ UnderWay = {} =>
        Gain("total") = IF Invert THEN Gain("charge") - Gain("discharge")
                                  ELSE Gain("discharge") - Gain("charge")

\* The file never holds more energy than was metered, in either direction:
\* a restart may lose some but counts none twice.
FileNotAhead ==
    \A k \in {"charge", "discharge"} : file[k] <= meter[k].sum
=============================================================================
