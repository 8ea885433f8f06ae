---------------------------- MODULE MetersProofs ----------------------------
(***************************************************************************)
(* Proofs about Meters, for any loops, powers and integration gap, any     *)
(* number of restarts and any run of the clock.                            *)
(*                                                                         *)
(* Order holds of any loops: what total was fed, charge was fed before.    *)
(* Balance is argued over the meters as they will stand once the one cycle *)
(* under way has fed them all: that value does not change while the cycle  *)
(* runs, so only its first step has to be looked at.                       *)
(***************************************************************************)
EXTENDS Meters, TLAPS

USE MetersAssumption

Meter == [x : Nat \cup {NoX}, y : Int, sum : Int]

\* What meter k integrates of a sample with power p.
PowerOf(k, p) == CASE k = "charge" -> ChargePower(p)
                   [] k = "discharge" -> DischargePower(p)
                   [] OTHER -> TotalPower(p)

\* Adding a reading to an integrator gives an integrator.
LEMMA AddType ==
    ASSUME NEW i \in Meter, NEW x \in Nat, NEW y \in Int
    PROVE  /\ Add(i, x, y) \in Meter
           /\ Add(i, x, y).x = x /\ Add(i, x, y).y = y
<1>1. (x - i.x) * (i.y + y) \in Int
  BY DEF Meter, NoX
<1> QED BY <1>1 DEF Add, Meter, NoX

\* The parts of a power are numbers, those of one direction not negative.
LEMMA PowerType ==
    ASSUME NEW p \in Powers
    PROVE  /\ ChargePower(p) \in Nat /\ DischargePower(p) \in Nat
           /\ TotalPower(p) \in Int /\ p \in Int
BY DEF ChargePower, DischargePower, TotalPower

-----------------------------------------------------------------------------
(* Types.  The power of a sample is one the BMS reports.                   *)

TypeInv == TypeOK /\ \A l \in UnderWay : sample[l].p \in Powers

\* Feeding a meter keeps the meters typed.
LEMMA FeedType ==
    ASSUME TypeOK, NEW k \in MeterNames, NEW t \in Nat, NEW y \in Int, Feed(k, t, y)
    PROVE  meter' \in [MeterNames -> Meter]
<1>1. meter[k] \in Meter
  BY DEF TypeOK, Meter
<1>2. Add(meter[k], t, y) \in Meter
  BY <1>1, AddType
<1> QED BY <1>2 DEF Feed, TypeOK, Meter

\* Meters loaded from a file are meters.
LEMMA FreshType ==
    ASSUME NEW r \in [MeterNames -> Int]
    PROVE  Fresh(r) \in [MeterNames -> Meter]
BY DEF Fresh, Meter, NoX

\* The sample of a cycle under way is one.
LEMMA SampleType ==
    ASSUME TypeInv, NEW l \in Loops, pc[l] \in {"discharge", "total"}
    PROVE  /\ sample[l].t \in Nat /\ sample[l].p \in Powers
           /\ \A k \in MeterNames : PowerOf(k, sample[l].p) \in Int
           /\ DischargePower(sample[l].p) \in Nat /\ TotalPower(sample[l].p) \in Int
<1>1. l \in UnderWay
  BY DEF UnderWay
<1>2. sample[l].t \in Nat /\ sample[l].p \in Powers
  BY <1>1 DEF TypeInv, TypeOK
<1> QED BY <1>2, PowerType DEF PowerOf

\* Ending loops, and starting one, keeps the loops typed and starts no cycle.
LEMMA LoopsType ==
    ASSUME TypeInv, NEW ended, NEW l \in Loops,
           pc' = Without(ended) \/ pc' = [Without(ended) EXCEPT ![l] = "charge"]
    PROVE  /\ pc' \in [Loops -> MeterNames \cup {"off"}]
           /\ \A m \in Loops : pc'[m] \in {"discharge", "total"} => pc'[m] = pc[m]
<1>1. Without(ended) \in [Loops -> MeterNames \cup {"off"}]
  BY DEF TypeInv, TypeOK, Without
<1>2. \A m \in Loops : Without(ended)[m] \in {"off", pc[m]}
  BY DEF Without
<1> QED BY <1>1, <1>2 DEF MeterNames

\* Every step keeps the types.
LEMMA TypeStep == TypeInv /\ [Next]_vars => TypeInv'
<1> SUFFICES ASSUME TypeInv, [Next]_vars PROVE TypeInv'
  OBVIOUS
<1> USE DEF MeterNames
<1>0. Readings \in [MeterNames -> Int]
  BY DEF TypeInv, TypeOK, Readings
<1>1. CASE \E l \in Loops, p \in Powers : FeedCharge(l, p)
  <2> PICK l \in Loops, p \in Powers : FeedCharge(l, p)
    BY <1>1
  <2>1. ChargePower(p) \in Int /\ p \in Int /\ now \in Nat
    BY PowerType DEF TypeInv, TypeOK
  <2>2. meter' \in [MeterNames -> Meter]
    BY <2>1, FeedType DEF FeedCharge, TypeInv, TypeOK
  <2>3. /\ pc' \in [Loops -> MeterNames \cup {"off"}]
        /\ sample' \in [Loops -> [t : Nat, p : Int]]
    BY <2>1 DEF FeedCharge, TypeInv, TypeOK
  <2>4. \A m \in UnderWay' : sample'[m].p \in Powers
    BY DEF FeedCharge, TypeInv, TypeOK, UnderWay
  <2> QED BY <2>2, <2>3, <2>4 DEF FeedCharge, TypeInv, TypeOK, Meter
<1>2. CASE \E l \in Loops : FeedDischarge(l)
  <2> PICK l \in Loops : FeedDischarge(l)
    BY <1>2
  <2>1. sample[l].p \in Powers /\ sample[l].t \in Nat /\ DischargePower(sample[l].p) \in Int
    BY SampleType DEF FeedDischarge
  <2>2. meter' \in [MeterNames -> Meter]
    BY <2>1, FeedType DEF FeedDischarge, TypeInv
  <2>3. \A m \in UnderWay' : sample'[m].p \in Powers
    BY <2>1 DEF FeedDischarge, TypeInv, TypeOK, UnderWay
  <2> QED BY <2>2, <2>3 DEF FeedDischarge, TypeInv, TypeOK, Meter
<1>3. CASE \E l \in Loops : FeedTotal(l) \/ TotalRaises(l)
  <2> PICK l \in Loops : FeedTotal(l) \/ TotalRaises(l)
    BY <1>3
  <2>1. sample[l].t \in Nat /\ TotalPower(sample[l].p) \in Int
    BY SampleType DEF FeedTotal, TotalRaises
  <2>2. meter' \in [MeterNames -> Meter]
    BY <2>1, FeedType DEF FeedTotal, TotalRaises, TypeInv, TypeOK, Meter
  <2> Done(l)
    BY DEF FeedTotal, TotalRaises
  <2>3. /\ pc' \in [Loops -> MeterNames \cup {"off"}]
        /\ sample' \in [Loops -> [t : Nat, p : Int]]
        /\ UNCHANGED <<now, process, boots, store, snap, file>>
    <3>1. Moment \in [t : Nat, p : Int]
      BY DEF Moment
    <3> QED BY <3>1 DEF Done, TypeInv, TypeOK
  <2>4. overlap' \in {"none", "going", "past"} /\ base' \in [MeterNames -> Int]
    BY <2>2 DEF FeedTotal, TotalRaises, InStep, TypeInv, TypeOK, Meter
  <2>5. \A m \in UnderWay' : sample'[m].p \in Powers
    BY DEF Done, TypeInv, TypeOK, UnderWay
  <2> QED BY <2>2, <2>3, <2>4, <2>5 DEF TypeInv, TypeOK, Meter
<1>4. CASE \E l \in Loops : Restart(l)
  <2> PICK l \in Loops : Restart(l)
    BY <1>4
  <2>1. PICK ended : pc' = [Without(ended) EXCEPT ![l] = "charge"]
    BY DEF Restart
  <2>2. /\ pc' \in [Loops -> MeterNames \cup {"off"}]
        /\ \A m \in Loops : pc'[m] \in {"discharge", "total"} => pc'[m] = pc[m]
    BY <2>1, LoopsType
  <2> QED BY <2>2 DEF Restart, TypeInv, TypeOK, UnderWay
<1>5. CASE LoopStores
  BY <1>0, <1>5 DEF LoopStores, TypeInv, TypeOK, UnderWay
<1>6. CASE ThreadReads
  BY <1>6 DEF ThreadReads, TypeInv, TypeOK, UnderWay
<1>7. CASE ThreadWrites
  BY <1>7 DEF ThreadWrites, TypeInv, TypeOK, Zero, UnderWay
<1>8. CASE Stop
  <2>1. PICK ended : pc' = Without(ended)
    BY <1>8 DEF Stop
  <2>2. /\ pc' \in [Loops -> MeterNames \cup {"off"}]
        /\ \A m \in Loops : pc'[m] \in {"discharge", "total"} => pc'[m] = pc[m]
    BY <2>1 DEF TypeInv, TypeOK, Without
  <2> QED BY <1>0, <1>8, <2>2 DEF Stop, TypeInv, TypeOK, UnderWay
<1>9. CASE Exit
  <2>1. pc' = [l \in Loops |-> "off"] /\ UnderWay' = {}
    BY <1>9 DEF Exit, UnderWay
  <2> QED BY <1>9, <2>1 DEF Exit, TypeInv, TypeOK, Moment, Zero
<1>10. CASE Boot
  <2>1. meter' \in [MeterNames -> Meter]
    BY <1>10, FreshType DEF Boot, TypeInv, TypeOK
  <2>2. pc' \in [Loops -> MeterNames \cup {"off"}] /\ UnderWay' = {}
    BY <1>10 DEF Boot, Starts, UnderWay
  <2> QED BY <1>10, <2>1, <2>2 DEF Boot, TypeInv, TypeOK, Meter, Moment, Zero
<1>11. CASE Tick \/ SetBack
  BY <1>11 DEF Tick, SetBack, TypeInv, TypeOK, UnderWay
<1>12. CASE UNCHANGED vars
  BY <1>12 DEF vars, TypeInv, TypeOK, UnderWay
<1> QED BY <1>1, <1>2, <1>3, <1>4, <1>5, <1>6, <1>7, <1>8, <1>9, <1>10, <1>11, <1>12 DEF Next

\* The types hold in every reachable state.
LEMMA TypeInvariant == Spec => []TypeInv
<1>1. ASSUME Init PROVE TypeInv
  <2>1. Zero \in [MeterNames -> Int]
    BY DEF Zero
  <2>2. meter \in [MeterNames -> Meter]
    BY <1>1, <2>1, FreshType DEF Init
  <2>3. pc \in [Loops -> MeterNames \cup {"off"}] /\ UnderWay = {}
    BY <1>1 DEF Init, Starts, UnderWay, MeterNames
  <2> QED BY <1>1, <2>1, <2>2, <2>3 DEF Init, TypeInv, TypeOK, Meter, Moment, MeterNames
<1> QED BY <1>1, TypeStep, PTL DEF Spec

\* Every variable keeps its type, whatever the bounds.
THEOREM TypeCorrect == Spec => []TypeOK
BY TypeInvariant, PTL DEF TypeInv

-----------------------------------------------------------------------------
(* Order.  However many loops there are, charge and discharge are fed the  *)
(* same samples, and total none that charge was not fed before.            *)

OrderInv == process # "down" =>
    /\ \A l, m \in Loops : pc[l] = "discharge" /\ pc[m] = "discharge" => l = m
    /\ \A l \in Loops : pc[l] = "discharge" =>
          /\ meter["charge"].x = sample[l].t
          /\ Accepts(meter["discharge"], sample[l].t)
    /\ Awaiting => meter["charge"].x = meter["discharge"].x
    /\ meter["total"].x <= meter["charge"].x
    /\ \A l \in Loops : pc[l] = "total" => sample[l].t <= meter["charge"].x

\* An integrator accepts what is not before its last reading.
LEMMA AcceptsFrom ==
    ASSUME NEW i \in Meter, NEW x \in Nat
    PROVE  Accepts(i, x) <=> i.x <= x
BY DEF Accepts, Meter, NoX

\* A step that neither feeds a meter nor begins or ends a cycle.
CyclesKept ==
    /\ UNCHANGED <<sample, meter, overlap, base>>
    /\ process' = process \/ (process = "up" /\ process' = "stopping")
    /\ \A l \in Loops : pc'[l] = pc[l]
                        \/ {pc[l], pc'[l]} \cap {"discharge", "total"} = {}

\* The steps that do more.
LEMMA KeptStep ==
    ASSUME TypeInv, [Next]_vars
    PROVE  \/ \E l \in Loops, p \in Powers : FeedCharge(l, p)
           \/ \E l \in Loops : FeedDischarge(l) \/ FeedTotal(l) \/ TotalRaises(l)
           \/ Boot \/ Exit \/ CyclesKept
<1>1. ASSUME NEW l \in Loops, Restart(l) PROVE CyclesKept
  <2>1. PICK ended \in SUBSET Fetching : pc' = [Without(ended) EXCEPT ![l] = "charge"]
    BY <1>1 DEF Restart
  <2>2. \A m \in Loops : \/ pc'[m] = pc[m]
                         \/ pc[m] \in {"charge", "off"} /\ pc'[m] \in {"charge", "off"}
    BY <1>1, <2>1 DEF Restart, Without, Fetching
  <2> QED BY <1>1, <2>2 DEF Restart, CyclesKept
<1>2. ASSUME Stop PROVE \A m \in Loops : pc'[m] # pc[m] => pc[m] = "charge" /\ pc'[m] = "off"
  <2>1. PICK ended \in SUBSET Fetching : pc' = Without(ended)
    BY <1>2 DEF Stop
  <2> QED BY <2>1 DEF Without, Fetching
<1>3. LoopStores \/ ThreadReads \/ ThreadWrites \/ Tick \/ SetBack \/ UNCHANGED vars
          => CyclesKept
  BY DEF LoopStores, ThreadReads, ThreadWrites, Tick, SetBack, vars, CyclesKept
<1>4. Stop => CyclesKept
  BY <1>2 DEF Stop, CyclesKept
<1> QED BY <1>1, <1>3, <1>4 DEF Next

\* Every step keeps the order.
LEMMA OrderStep == TypeInv /\ OrderInv /\ [Next]_vars => OrderInv'
<1> SUFFICES ASSUME TypeInv, OrderInv, [Next]_vars, process' # "down" PROVE OrderInv'
  BY DEF OrderInv
<1>m. /\ meter \in [MeterNames -> Meter] /\ now \in Nat
      /\ \A l \in Loops : sample[l].t \in Nat
  BY DEF TypeInv, TypeOK, Meter
<1>n. \A k \in MeterNames : meter[k] \in Meter /\ meter[k].x \in Int
  BY <1>m DEF Meter, NoX
<1>1. CASE \E l \in Loops, p \in Powers : FeedCharge(l, p)
  <2> PICK l \in Loops, p \in Powers : FeedCharge(l, p)
    BY <1>1
  <2>1. /\ process # "down" /\ Awaiting /\ pc[l] = "charge"
        /\ meter["charge"].x = meter["discharge"].x /\ meter["charge"].x <= now
    BY <1>m, <1>n, AcceptsFrom DEF FeedCharge, OrderInv, MeterNames
  <2>2. /\ \A m \in Loops : pc'[m] = IF m = l THEN "discharge" ELSE pc[m]
        /\ \A m \in Loops : m # l => sample'[m] = sample[m]
        /\ sample'[l].t = now
    BY DEF FeedCharge, TypeInv, TypeOK
  <2>3. /\ meter'["charge"].x = now
        /\ meter'["discharge"] = meter["discharge"] /\ meter'["total"] = meter["total"]
    BY <1>m DEF FeedCharge, Feed, Add, MeterNames
  <2>4. Accepts(meter'["discharge"], sample'[l].t)
    BY <1>m, <1>n, <2>1, <2>2, <2>3, AcceptsFrom DEF MeterNames
  <2>5. meter'["total"].x <= now
    BY <1>m, <1>n, <2>1, <2>3 DEF OrderInv, MeterNames
  <2>6. \A m \in Loops : pc[m] = "total" => sample[m].t <= now
    BY <1>m, <1>n, <2>1 DEF OrderInv, MeterNames
  <2>7. \A m \in Loops : pc'[m] = "discharge" => m = l
    BY <2>1, <2>2 DEF Awaiting
  <2>8. \A m \in Loops : pc'[m] = "total" => sample'[m].t <= meter'["charge"].x
    BY <2>2, <2>3, <2>6
  <2>9. ~Awaiting'
    BY <2>2 DEF Awaiting
  <2> QED BY <2>2, <2>3, <2>4, <2>5, <2>7, <2>8, <2>9 DEF OrderInv
<1>2. CASE \E l \in Loops : FeedDischarge(l)
  <2> PICK l \in Loops : FeedDischarge(l)
    BY <1>2
  <2>1. /\ process # "down" /\ pc[l] = "discharge" /\ UNCHANGED sample
        /\ meter["charge"].x = sample[l].t
    BY DEF FeedDischarge, OrderInv
  <2>2. \A m \in Loops : pc'[m] = IF m = l THEN "total" ELSE pc[m]
    BY DEF FeedDischarge, TypeInv, TypeOK
  <2>3. /\ meter'["discharge"].x = sample[l].t
        /\ meter'["charge"] = meter["charge"] /\ meter'["total"] = meter["total"]
    BY <1>m DEF FeedDischarge, Feed, Add, MeterNames
  <2>4. \A m \in Loops : pc'[m] # "discharge"
    BY <2>1, <2>2 DEF OrderInv
  <2>5. \A m \in Loops : pc'[m] = "total" => sample'[m].t <= meter'["charge"].x
    BY <1>m, <1>n, <2>1, <2>2, <2>3 DEF OrderInv
  <2> QED BY <2>1, <2>3, <2>4, <2>5 DEF OrderInv
<1>3. CASE \E l \in Loops : FeedTotal(l) \/ TotalRaises(l)
  <2> PICK l \in Loops : FeedTotal(l) \/ TotalRaises(l)
    BY <1>3
  <2>1. /\ process # "down" /\ Awaiting /\ pc[l] = "total" /\ Done(l)
        /\ sample[l].t <= meter["charge"].x
    BY DEF FeedTotal, TotalRaises, OrderInv
  <2>2. /\ \A m \in Loops : pc'[m] \in {"discharge", "total"} => pc'[m] = pc[m] /\ m # l
        /\ \A m \in Loops : m # l => sample'[m] = sample[m]
    BY <2>1 DEF Done, TypeInv, TypeOK
  <2>3. /\ meter'["charge"] = meter["charge"] /\ meter'["discharge"] = meter["discharge"]
        /\ meter'["total"].x \in {meter["total"].x, sample[l].t}
    BY <1>m DEF FeedTotal, TotalRaises, Feed, Add, MeterNames
  <2>4. meter'["total"].x <= meter'["charge"].x
    BY <2>1, <2>3 DEF OrderInv
  <2>5. \A m \in Loops : pc'[m] # "discharge"
    BY <2>1, <2>2 DEF Awaiting
  <2>6. meter["charge"].x = meter["discharge"].x
    BY <2>1 DEF OrderInv
  <2> QED BY <2>1, <2>2, <2>3, <2>4, <2>5, <2>6 DEF OrderInv
<1>4. CASE CyclesKept
  <2>1. /\ \A l \in Loops : pc'[l] = "discharge" <=> pc[l] = "discharge"
        /\ \A l \in Loops : pc'[l] = "total" <=> pc[l] = "total"
    BY <1>4 DEF CyclesKept
  <2>2. process # "down" /\ UNCHANGED <<sample, meter>> /\ Awaiting' = Awaiting
    BY <1>4, <2>1 DEF CyclesKept, Awaiting
  <2> QED BY <2>1, <2>2 DEF OrderInv, Accepts
<1>5. CASE Boot
  <2>1. \A l \in Loops : pc'[l] \notin {"discharge", "total"}
    BY <1>5 DEF Boot, Starts
  <2>2. \A k \in MeterNames : meter'[k].x = NoX
    BY <1>5 DEF Boot, Fresh
  <2> QED BY <2>1, <2>2 DEF OrderInv, MeterNames, NoX
<1>6. [Next]_vars => \/ \E l \in Loops, p \in Powers : FeedCharge(l, p)
                     \/ \E l \in Loops : FeedDischarge(l) \/ FeedTotal(l) \/ TotalRaises(l)
                     \/ Boot \/ Exit \/ CyclesKept
  BY KeptStep
<1>7. ~Exit
  BY DEF Exit
<1> QED BY <1>1, <1>2, <1>3, <1>4, <1>5, <1>6, <1>7

\* The order holds in every reachable state.
LEMMA OrderInvariant == Spec => []OrderInv
<1>1. ASSUME Init PROVE OrderInv
  <2>1. \A l \in Loops : pc[l] \notin {"discharge", "total"}
    BY <1>1 DEF Init, Starts
  <2>2. \A k \in MeterNames : meter[k].x = NoX
    BY <1>1 DEF Init, Fresh
  <2> QED BY <2>1, <2>2 DEF OrderInv, MeterNames, NoX
<1> QED BY <1>1, OrderStep, TypeInvariant, PTL DEF Spec

-----------------------------------------------------------------------------
(* Balance.                                                                *)

\* Whether the cycle of l has fed meter k already.
Fed(l, k) == \/ pc[l] = "discharge" /\ k = "charge"
             \/ pc[l] = "total" /\ k # "total"

\* Meter k as it stands when the cycle of l is complete.
Complete(l, k) ==
    IF Fed(l, k) THEN meter[k]
    ELSE Add(meter[k], sample[l].t, PowerOf(k, sample[l].p))

\* v is what the energy out and the energy in, c and d, make of the total.
Signed(v, c, d) == v = IF Invert THEN c - d ELSE d - c

\* Three integrators that were fed the same samples since readings b.
Agree(c, d, t, b) ==
    /\ c.x = d.x /\ t.x = d.x
    /\ Signed(t.y, c.y, d.y)
    /\ Signed(t.sum - b["total"], c.sum - b["charge"], d.sum - b["discharge"])

\* Without an overlap at most one cycle is under way and the meters agree when
\* it is complete; after one, the cycle under way feeds them all one sample.
BalanceInv == process # "down" =>
    /\ overlap # "going" => \A l, m \in UnderWay : l = m
    /\ overlap = "none" /\ UnderWay = {} =>
          Agree(meter["charge"], meter["discharge"], meter["total"], base)
    /\ overlap = "none" => \A l \in UnderWay :
          Agree(Complete(l, "charge"), Complete(l, "discharge"), Complete(l, "total"), base)
    /\ overlap = "past" => \A l \in UnderWay : \A k \in MeterNames :
          Complete(l, k).x = sample[l].t /\ Complete(l, k).y = PowerOf(k, sample[l].p)

\* The parts of a sample's power that the three meters integrate agree.
LEMMA PowerSigned ==
    ASSUME NEW p \in Powers
    PROVE  Signed(TotalPower(p), ChargePower(p), DischargePower(p))
BY DEF Signed, TotalPower, ChargePower, DischargePower

\* Feeding one more sample to integrators that agree keeps them in agreement:
\* the trapezoid is linear in the power.
LEMMA AgreeStep ==
    ASSUME NEW c \in Meter, NEW d \in Meter, NEW t \in Meter,
           NEW b \in [MeterNames -> Int], Agree(c, d, t, b),
           NEW x \in Nat, NEW p \in Powers
    PROVE  Agree(Add(c, x, ChargePower(p)), Add(d, x, DischargePower(p)),
                 Add(t, x, TotalPower(p)), b)
<1> DEFINE dx == x - d.x
           C == c.y + ChargePower(p)
           D == d.y + DischargePower(p)
           T == t.y + TotalPower(p)
<1>1. /\ ChargePower(p) \in Int /\ DischargePower(p) \in Int /\ TotalPower(p) \in Int
  BY PowerType
<1>2. /\ c.y \in Int /\ d.y \in Int /\ t.y \in Int
      /\ c.sum \in Int /\ d.sum \in Int /\ t.sum \in Int
      /\ d.x \in Int /\ c.x = d.x /\ t.x = d.x
      /\ b["total"] \in Int /\ b["charge"] \in Int /\ b["discharge"] \in Int
  BY DEF Meter, NoX, Agree, MeterNames
<1>3. dx \in Int /\ C \in Int /\ D \in Int /\ T \in Int
  BY <1>1, <1>2
<1>4. Signed(T, C, D)
  BY <1>1, <1>2, PowerSigned DEF Agree, Signed
<1>5. Signed(dx * T, dx * C, dx * D) /\ dx * T \in Int /\ dx * C \in Int /\ dx * D \in Int
  <2> HIDE DEF dx, C, D, T
  <2>1. dx * (C - D) = dx * C - dx * D /\ dx * (D - C) = dx * D - dx * C
    BY <1>3
  <2> QED BY <1>3, <1>4, <2>1 DEF Signed
<1>6. Signed(t.sum - b["total"], c.sum - b["charge"], d.sum - b["discharge"])
  BY DEF Agree
<1>7. Signed(t.sum + dx * T - b["total"], c.sum + dx * C - b["charge"],
             d.sum + dx * D - b["discharge"])
  <2> HIDE DEF dx, C, D, T
  <2> QED BY <1>2, <1>5, <1>6 DEF Signed
<1>8. CASE d.x # NoX /\ dx <= DxMax
  <2>1. /\ Add(c, x, ChargePower(p)) = [x |-> x, y |-> ChargePower(p), sum |-> c.sum + dx * C]
        /\ Add(d, x, DischargePower(p)) = [x |-> x, y |-> DischargePower(p), sum |-> d.sum + dx * D]
        /\ Add(t, x, TotalPower(p)) = [x |-> x, y |-> TotalPower(p), sum |-> t.sum + dx * T]
    BY <1>2, <1>8 DEF Add
  <2>2. Signed(TotalPower(p), ChargePower(p), DischargePower(p))
    BY PowerSigned
  <2>3. /\ dx * T \in Int /\ dx * C \in Int /\ dx * D \in Int
    BY <1>5
  <2> HIDE DEF dx, C, D, T
  <2> QED BY <1>1, <1>2, <1>7, <2>1, <2>2, <2>3 DEF Agree, Signed
<1>9. CASE ~(d.x # NoX /\ dx <= DxMax)
  <2>1. /\ Add(c, x, ChargePower(p)) = [x |-> x, y |-> ChargePower(p), sum |-> c.sum]
        /\ Add(d, x, DischargePower(p)) = [x |-> x, y |-> DischargePower(p), sum |-> d.sum]
        /\ Add(t, x, TotalPower(p)) = [x |-> x, y |-> TotalPower(p), sum |-> t.sum]
    BY <1>2, <1>9 DEF Add
  <2> QED BY <1>6, <2>1, PowerSigned DEF Agree
<1> QED BY <1>8, <1>9

\* A cycle that ran alone is never too late for total.
LEMMA AloneAccepted ==
    ASSUME TypeInv, OrderInv, BalanceInv, process # "down", overlap # "going",
           NEW l \in Loops, pc[l] = "total"
    PROVE  Accepts(meter["total"], sample[l].t)
<1> DEFINE c == meter["charge"].x
           t == sample[l].t
<1>1. l \in UnderWay
  BY DEF UnderWay
<1>2. meter["total"] \in Meter /\ meter["charge"] \in Meter /\ t \in Nat
  BY DEF TypeInv, TypeOK, Meter, MeterNames
<1>3. Complete(l, "charge") = meter["charge"] /\ Complete(l, "discharge") = meter["discharge"]
  BY DEF Complete, Fed
<1>4. Complete(l, "total").x = t
  BY <1>2 DEF Complete, Fed, Add
<1>5. c = t
  <2>1. CASE overlap = "none"
    <3>1. Agree(Complete(l, "charge"), Complete(l, "discharge"), Complete(l, "total"), base)
      BY <1>1, <2>1 DEF BalanceInv
    <3> QED BY <1>3, <1>4, <3>1 DEF Agree
  <2>2. CASE overlap = "past"
    BY <1>1, <1>3, <2>2 DEF BalanceInv, MeterNames
  <2> QED BY <2>1, <2>2 DEF TypeInv, TypeOK
<1>6. meter["total"].x <= c
  BY DEF OrderInv
<1> QED BY <1>2, <1>5, <1>6, AcceptsFrom

\* Every step keeps the three meters in agreement.
LEMMA BalanceStep == TypeInv /\ OrderInv /\ BalanceInv /\ [Next]_vars => BalanceInv'
<1> SUFFICES ASSUME TypeInv, OrderInv, BalanceInv, [Next]_vars, process' # "down"
             PROVE  BalanceInv'
  BY DEF BalanceInv
<1>m. /\ meter \in [MeterNames -> Meter] /\ base \in [MeterNames -> Int] /\ now \in Nat
      /\ \A k \in MeterNames : meter[k] \in Meter
  BY DEF TypeInv, TypeOK, Meter
<1>1. CASE \E l \in Loops, p \in Powers : FeedCharge(l, p)
  <2> PICK l \in Loops, p \in Powers : FeedCharge(l, p)
    BY <1>1
  <2>1. /\ process # "down" /\ pc[l] = "charge" /\ UNCHANGED base
        /\ pc'[l] = "discharge" /\ \A m \in Loops : m # l => pc'[m] = pc[m]
        /\ sample'[l] = [t |-> now, p |-> p]
        /\ overlap' = IF UnderWay # {} THEN "going"
                      ELSE IF overlap = "going" THEN "past" ELSE overlap
    BY DEF FeedCharge, TypeInv, TypeOK
  <2>2. meter' = [meter EXCEPT !["charge"] = Add(meter["charge"], now, ChargePower(p))]
    BY DEF FeedCharge, Feed
  <2>3. UnderWay' = UnderWay \cup {l}
    BY <2>1 DEF UnderWay
  <2>4. CASE UnderWay # {}
    BY <2>1, <2>4 DEF BalanceInv
  <2>5. CASE UnderWay = {}
    <3>1. UnderWay' = {l}
      BY <2>3, <2>5
    <3>2. /\ Complete(l, "charge")' = Add(meter["charge"], now, ChargePower(p))
          /\ Complete(l, "discharge")' = Add(meter["discharge"], now, DischargePower(p))
          /\ Complete(l, "total")' = Add(meter["total"], now, TotalPower(p))
      BY <1>m, <2>1, <2>2 DEF Complete, Fed, PowerOf, MeterNames
    <3>3. CASE overlap = "none"
      <4>1. Agree(meter["charge"], meter["discharge"], meter["total"], base)
        BY <2>1, <2>5, <3>3 DEF BalanceInv
      <4>2. Agree(Add(meter["charge"], now, ChargePower(p)),
                  Add(meter["discharge"], now, DischargePower(p)),
                  Add(meter["total"], now, TotalPower(p)), base)
        BY <1>m, <4>1, AgreeStep DEF MeterNames
      <4> QED BY <2>1, <2>5, <3>1, <3>2, <3>3, <4>2 DEF BalanceInv
    <3>4. CASE overlap # "none"
      <4>1. overlap' = "past"
        BY <2>1, <2>5, <3>4 DEF TypeInv, TypeOK
      <4>2. \A k \in MeterNames : /\ Complete(l, k)'.x = sample'[l].t
                                  /\ Complete(l, k)'.y = PowerOf(k, sample'[l].p)
        BY <2>1, <3>2 DEF Add, PowerOf, MeterNames
      <4> QED BY <3>1, <4>1, <4>2 DEF BalanceInv
    <3> QED BY <3>3, <3>4
  <2> QED BY <2>4, <2>5
<1>2. CASE \E l \in Loops : FeedDischarge(l)
  <2> PICK l \in Loops : FeedDischarge(l)
    BY <1>2
  <2>1. /\ process # "down" /\ pc[l] = "discharge" /\ UNCHANGED <<sample, base, overlap>>
        /\ pc'[l] = "total" /\ \A m \in Loops : m # l => pc'[m] = pc[m]
        /\ meter' = [meter EXCEPT !["discharge"] = Complete(l, "discharge")]
    BY DEF FeedDischarge, Feed, Complete, Fed, PowerOf, TypeInv, TypeOK
  <2>2. UnderWay' = UnderWay /\ l \in UnderWay
    BY <2>1 DEF UnderWay
  <2>3. \A k \in MeterNames : Complete(l, k)' = Complete(l, k)
    BY <1>m, <2>1 DEF Complete, Fed, MeterNames, PowerOf
  <2>4. CASE overlap = "going"
    BY <2>1, <2>4 DEF BalanceInv
  <2>5. CASE overlap # "going"
    <3>1. UnderWay = {l}
      BY <2>1, <2>2, <2>5 DEF BalanceInv
    <3>2. overlap = "none" =>
            Agree(Complete(l, "charge"), Complete(l, "discharge"), Complete(l, "total"), base)
      BY <2>1, <2>2 DEF BalanceInv
    <3>3. overlap = "past" => \A k \in MeterNames :
            Complete(l, k).x = sample[l].t /\ Complete(l, k).y = PowerOf(k, sample[l].p)
      BY <2>1, <2>2 DEF BalanceInv
    <3>4. overlap = "none" =>
            Agree(Complete(l, "charge")', Complete(l, "discharge")', Complete(l, "total")', base)
      BY <2>3, <3>2 DEF MeterNames
    <3> QED BY <2>1, <2>2, <2>3, <3>1, <3>3, <3>4 DEF BalanceInv
  <2> QED BY <2>4, <2>5
<1>3. CASE \E l \in Loops : FeedTotal(l)
  <2> PICK l \in Loops : FeedTotal(l)
    BY <1>3
  <2>1. /\ process # "down" /\ pc[l] = "total" /\ pc'[l] \in {"charge", "off"}
        /\ \A m \in Loops : m # l => pc'[m] = pc[m]
        /\ meter' = [meter EXCEPT !["total"] = Complete(l, "total")]
    BY DEF FeedTotal, Done, Feed, Complete, Fed, PowerOf, TypeInv, TypeOK
  <2>2. UnderWay' = UnderWay \ {l} /\ l \in UnderWay
    BY <2>1 DEF UnderWay
  <2>3. \A k \in MeterNames : meter'[k] = Complete(l, k)
    BY <1>m, <2>1 DEF Complete, Fed, MeterNames
  <2>4. CASE overlap = "going"
    BY <2>4 DEF FeedTotal, InStep, BalanceInv
  <2>5. CASE overlap = "none"
    <3>1. UnderWay' = {} /\ UNCHANGED <<overlap, base>>
      BY <2>1, <2>2, <2>5 DEF BalanceInv, FeedTotal, InStep
    <3>2. Agree(Complete(l, "charge"), Complete(l, "discharge"), Complete(l, "total"), base)
      BY <2>1, <2>2, <2>5 DEF BalanceInv
    <3>3. Agree(meter'["charge"], meter'["discharge"], meter'["total"], base')
      BY <2>3, <3>1, <3>2 DEF MeterNames
    <3> QED BY <2>5, <3>1, <3>3 DEF BalanceInv
  <2>6. CASE overlap = "past"
    <3>1. UnderWay' = {} /\ overlap' = "none"
      BY <2>1, <2>2, <2>6 DEF BalanceInv, FeedTotal, InStep
    <3>2. \A k \in MeterNames : base'[k] = meter'[k].sum
      BY <2>6 DEF FeedTotal, InStep
    <3>3. \A k \in MeterNames :
            meter'[k].x = sample[l].t /\ meter'[k].y = PowerOf(k, sample[l].p)
      BY <2>1, <2>2, <2>3, <2>6 DEF BalanceInv
    <3>4. sample[l].p \in Powers
      BY <2>1, SampleType
    <3>5. Signed(meter'["total"].y, meter'["charge"].y, meter'["discharge"].y)
      BY <3>3, <3>4, PowerSigned DEF PowerOf, MeterNames
    <3>6. \A k \in MeterNames : meter'[k].sum \in Int
      <4>1. TypeInv'
        BY TypeStep
      <4> QED BY <4>1 DEF TypeInv, TypeOK
    <3>7. Agree(meter'["charge"], meter'["discharge"], meter'["total"], base')
      BY <3>2, <3>3, <3>5, <3>6 DEF Agree, Signed, MeterNames
    <3> QED BY <3>1, <3>7 DEF BalanceInv
  <2> QED BY <2>4, <2>5, <2>6 DEF TypeInv, TypeOK
<1>4. CASE \E l \in Loops : TotalRaises(l)
  <2> PICK l \in Loops : TotalRaises(l)
    BY <1>4
  <2>1. overlap = "going"
    BY AloneAccepted DEF TotalRaises
  <2> QED BY <2>1 DEF TotalRaises, BalanceInv
<1>5. CASE CyclesKept
  <2>1. /\ process # "down" /\ UNCHANGED <<sample, meter, overlap, base>>
        /\ \A l \in Loops : pc'[l] = pc[l]
                            \/ {pc[l], pc'[l]} \cap {"discharge", "total"} = {}
    BY <1>5 DEF CyclesKept
  <2>2. UnderWay' = UnderWay /\ \A l \in UnderWay : pc'[l] = pc[l]
    BY <2>1 DEF UnderWay
  <2>3. \A l \in UnderWay : \A k \in MeterNames : Complete(l, k)' = Complete(l, k)
    BY <2>1, <2>2 DEF Complete, Fed, PowerOf
  <2>4. \A l \in UnderWay : /\ Complete(l, "charge")' = Complete(l, "charge")
                            /\ Complete(l, "discharge")' = Complete(l, "discharge")
                            /\ Complete(l, "total")' = Complete(l, "total")
    BY <2>3 DEF MeterNames
  <2> QED BY <2>1, <2>2, <2>3, <2>4 DEF BalanceInv
<1>6. CASE Boot
  <2>1. /\ UnderWay' = {} /\ overlap' = "none" /\ base' = file
        /\ \A k \in MeterNames : meter'[k] = [x |-> NoX, y |-> 0, sum |-> file[k]]
    BY <1>6 DEF Boot, Fresh, Starts, UnderWay
  <2>2. \A k \in MeterNames : file[k] \in Int
    BY DEF TypeInv, TypeOK
  <2> QED BY <2>1, <2>2 DEF BalanceInv, Agree, Signed, MeterNames
<1>7. ~Exit
  BY DEF Exit
<1> QED BY <1>1, <1>2, <1>3, <1>4, <1>5, <1>6, <1>7, KeptStep

\* The three meters agree in every reachable state.
LEMMA BalanceInvariant == Spec => []BalanceInv
<1>1. ASSUME Init PROVE BalanceInv
  <2>1. UnderWay = {} /\ overlap = "none"
    BY <1>1 DEF Init, Starts, UnderWay
  <2> QED BY <1>1, <2>1 DEF Init, BalanceInv, Fresh, Zero, Agree, Signed, MeterNames
<1> QED BY <1>1, BalanceStep, OrderInvariant, TypeInvariant, PTL DEF Spec

\* While no two cycles overlap, and again from the end of the first cycle that
\* ran alone after some did, the total counted is the energy out less the
\* energy in, for any loops, powers, gaps, restarts and clock adjustments.
THEOREM Balanced == Spec => []GainBalanced
<1>1. BalanceInv => GainBalanced
  BY DEF BalanceInv, GainBalanced, Agree, Signed, Gain
<1> QED BY <1>1, BalanceInvariant, PTL

-----------------------------------------------------------------------------
(* The file.  The two one-way meters never fall, so whatever was read from *)
(* them in this life of the process, and written at any later time, is not *)
(* ahead of them; a start makes them equal to the file.                    *)

OneWay == {"charge", "discharge"}

FileInv ==
    \A k \in OneWay : /\ 0 <= meter[k].y /\ 0 <= meter[k].sum
                     /\ snap[k] <= meter[k].sum
                     /\ 0 <= file[k] /\ file[k] <= meter[k].sum
                     /\ 0 <= snap[k]

\* A one-way meter that accepts a reading does not fall.
LEMMA AddGrows ==
    ASSUME NEW i \in Meter, NEW x \in Nat, NEW y \in Nat,
           Accepts(i, x), 0 <= i.y
    PROVE  i.sum <= Add(i, x, y).sum /\ Add(i, x, y).y = y
<1>1. CASE i.x # NoX /\ x - i.x <= DxMax
  <2>1. i.x \in Nat /\ x - i.x \in Nat /\ i.y + y \in Nat
    BY <1>1 DEF Accepts, Meter, NoX
  <2>2. \A a, b \in Nat : a * b \in Nat
    OBVIOUS
  <2>3. (x - i.x) * (i.y + y) \in Nat
    BY <2>1, <2>2
  <2>4. Add(i, x, y) = [x |-> x, y |-> y, sum |-> i.sum + (x - i.x) * (i.y + y)]
    BY <1>1 DEF Add
  <2>5. i.sum \in Int
    BY DEF Meter
  <2> QED BY <2>3, <2>4, <2>5
<1>2. CASE ~(i.x # NoX /\ x - i.x <= DxMax)
  BY <1>2 DEF Add, Meter
<1> QED BY <1>1, <1>2

\* Feeding one meter keeps FileInv.
LEMMA FileFed ==
    ASSUME TypeInv, FileInv, NEW k \in OneWay, NEW x \in Nat, NEW y \in Nat,
           Accepts(meter[k], x), Feed(k, x, y), UNCHANGED <<snap, file>>
    PROVE  FileInv'
<1>1. meter \in [MeterNames -> Meter] /\ k \in MeterNames /\ OneWay \subseteq MeterNames
  BY DEF TypeInv, TypeOK, Meter, MeterNames, OneWay
<1>2. meter[k] \in Meter
  BY <1>1
<1>3. meter[k].sum <= Add(meter[k], x, y).sum /\ Add(meter[k], x, y).y = y
  BY <1>2, AddGrows DEF FileInv
<1>4. meter'[k] = Add(meter[k], x, y) /\ \A j \in OneWay \ {k} : meter'[j] = meter[j]
  BY <1>1 DEF Feed
<1>5. meter'[k].sum \in Int /\ meter[k].sum \in Int
  <2>1. Add(meter[k], x, y) \in Meter
    BY <1>2, AddType
  <2> QED BY <1>2, <1>4, <2>1 DEF Meter
<1>6. snap[k] \in Int /\ file[k] \in Int
  BY <1>1 DEF TypeInv, TypeOK
<1>7. meter'[k].y = y /\ meter[k].sum <= meter'[k].sum
  BY <1>3, <1>4
<1>8. snap'[k] = snap[k] /\ file'[k] = file[k]
  OBVIOUS
<1>9. /\ 0 <= meter'[k].y /\ 0 <= meter'[k].sum /\ snap'[k] <= meter'[k].sum
      /\ 0 <= file'[k] /\ file'[k] <= meter'[k].sum /\ 0 <= snap'[k]
  BY <1>5, <1>6, <1>7, <1>8 DEF FileInv
<1>10. \A j \in OneWay \ {k} :
          /\ 0 <= meter'[j].y /\ 0 <= meter'[j].sum /\ snap'[j] <= meter'[j].sum
          /\ 0 <= file'[j] /\ file'[j] <= meter'[j].sum /\ 0 <= snap'[j]
  BY <1>4 DEF FileInv
<1> QED BY <1>9, <1>10 DEF FileInv

\* Every step keeps the file, and the snapshot to be stored, below the
\* meters.
LEMMA FileStep == TypeInv /\ OrderInv /\ FileInv /\ [Next]_vars => FileInv'
<1> SUFFICES ASSUME TypeInv, OrderInv, FileInv, [Next]_vars PROVE FileInv'
  OBVIOUS
<1>m. OneWay \subseteq MeterNames
  BY DEF OneWay, MeterNames
<1>n. \A k \in OneWay : Readings[k] = meter[k].sum
  BY <1>m DEF Readings
<1>1. CASE \E l \in Loops, p \in Powers : FeedCharge(l, p)
  <2> PICK l \in Loops, p \in Powers : FeedCharge(l, p)
    BY <1>1
  <2>1. ChargePower(p) \in Nat /\ now \in Nat
    BY PowerType DEF TypeInv, TypeOK
  <2> QED BY <2>1, FileFed DEF FeedCharge, OneWay
<1>2. CASE \E l \in Loops : FeedDischarge(l)
  <2> PICK l \in Loops : FeedDischarge(l)
    BY <1>2
  <2>1. sample[l].t \in Nat /\ DischargePower(sample[l].p) \in Nat
    BY SampleType DEF FeedDischarge
  <2>2. Accepts(meter["discharge"], sample[l].t)
    BY DEF FeedDischarge, OrderInv
  <2> QED BY <2>1, <2>2, FileFed DEF FeedDischarge, OneWay
<1>3. CASE \E l \in Loops : FeedTotal(l) \/ TotalRaises(l)
  <2> PICK l \in Loops : FeedTotal(l) \/ TotalRaises(l)
    BY <1>3
  <2>1. \A k \in OneWay : meter'[k] = meter[k]
    BY DEF FeedTotal, TotalRaises, Feed, OneWay, MeterNames, TypeInv, TypeOK
  <2> QED BY <2>1 DEF FeedTotal, TotalRaises, Done, FileInv
<1>4. CASE LoopStores \/ Stop
  <2>1. UNCHANGED <<meter, snap>> /\ file' = Readings
    BY <1>4 DEF LoopStores, Stop
  <2>2. \A k \in OneWay : meter[k].sum \in Int
    BY <1>m DEF TypeInv, TypeOK
  <2> QED BY <1>n, <2>1, <2>2 DEF FileInv
<1>5. CASE ThreadReads
  <2>1. UNCHANGED <<meter, file>>
    BY <1>5 DEF ThreadReads
  <2>2. \A k \in OneWay : snap'[k] = snap[k] \/ snap'[k] = meter[k].sum
    BY <1>5, <1>m DEF ThreadReads, TypeInv, TypeOK
  <2>3. \A k \in OneWay : meter[k].sum \in Int /\ snap[k] \in Int
    BY <1>m DEF TypeInv, TypeOK
  <2> QED BY <2>1, <2>2, <2>3 DEF FileInv
<1>6. CASE ThreadWrites
  <2>1. UNCHANGED meter /\ file' \in {snap, file} /\ \A k \in OneWay : snap'[k] = 0
    BY <1>6, <1>m DEF ThreadWrites, Zero
  <2>2. \A k \in OneWay : /\ snap[k] \in Int /\ file[k] \in Int
                          /\ file'[k] = snap[k] \/ file'[k] = file[k]
    BY <1>m, <2>1 DEF TypeInv, TypeOK
  <2> QED BY <2>1, <2>2 DEF FileInv
<1>7. CASE Boot
  <2>1. /\ UNCHANGED file
        /\ meter' = Fresh(file) /\ snap' = Zero
    BY <1>7 DEF Boot
  <2>2. \A k \in OneWay : file[k] \in Int /\ 0 <= file[k]
    BY <1>m DEF TypeInv, TypeOK, FileInv
  <2>3. \A k \in OneWay : meter'[k].y = 0 /\ meter'[k].sum = file[k] /\ snap'[k] = 0
    BY <1>m, <2>1 DEF Fresh, Zero
  <2> QED BY <2>1, <2>2, <2>3 DEF FileInv
<1>8. CASE (\E l \in Loops : Restart(l)) \/ Tick \/ SetBack \/ UNCHANGED vars
  BY <1>8 DEF Restart, Tick, SetBack, vars, FileInv
<1>9. CASE Exit
  <2>1. UNCHANGED <<meter, file>> /\ \A k \in OneWay : snap'[k] = 0
    BY <1>9, <1>m DEF Exit, Zero
  <2>2. \A k \in OneWay : meter[k].sum \in Int
    BY <1>m DEF TypeInv, TypeOK
  <2> QED BY <2>1, <2>2 DEF FileInv
<1> QED BY <1>1, <1>2, <1>3, <1>4, <1>5, <1>6, <1>7, <1>8, <1>9 DEF Next

\* The file never holds energy that was not metered: a restart, after a crash
\* at any point, counts nothing twice.
THEOREM NotAhead == Spec => []FileNotAhead
<1>1. Init => FileInv
  BY DEF Init, FileInv, Fresh, Zero, OneWay, MeterNames
<1>2. FileInv => FileNotAhead
  BY DEF FileInv, FileNotAhead, OneWay
<1> QED BY <1>1, <1>2, FileStep, TypeInvariant, OrderInvariant, PTL DEF Spec

Rises(k) == meter[k].sum <= meter'[k].sum

\* No step but a start makes a one-way meter fall.
LEMMA RiseStep ==
    ASSUME TypeInv, OrderInv, FileInv, [Next]_vars, ~Boot, NEW k \in OneWay
    PROVE  Rises(k)
<1> USE DEF Rises
<1>m. /\ meter \in [MeterNames -> Meter] /\ meter[k] \in Meter /\ meter[k].sum \in Int
      /\ \A j \in OneWay : meter[j] \in Meter
  BY DEF TypeInv, TypeOK, Meter, OneWay, MeterNames
<1>1. ASSUME NEW j \in OneWay, NEW x \in Nat, NEW y \in Nat,
             Accepts(meter[j], x), Feed(j, x, y)
      PROVE  meter[k].sum <= meter'[k].sum
  <2>1. CASE k = j
    <3>1. meter[k].sum <= Add(meter[k], x, y).sum
      BY <1>m, <1>1, <2>1, AddGrows DEF FileInv
    <3>2. meter'[k] = Add(meter[k], x, y)
      BY <1>m, <1>1, <2>1 DEF Feed, OneWay, MeterNames
    <3> QED BY <3>1, <3>2
  <2>2. CASE k # j
    <3>1. meter'[k] = meter[k]
      BY <1>m, <1>1, <2>2 DEF Feed, OneWay, MeterNames
    <3> QED BY <1>m, <3>1
  <2> QED BY <2>1, <2>2
<1>2. CASE \E l \in Loops, p \in Powers : FeedCharge(l, p)
  <2> PICK l \in Loops, p \in Powers : FeedCharge(l, p)
    BY <1>2
  <2>1. ChargePower(p) \in Nat /\ now \in Nat
    BY PowerType DEF TypeInv, TypeOK
  <2> QED BY <1>1, <2>1 DEF FeedCharge, OneWay
<1>3. CASE \E l \in Loops : FeedDischarge(l)
  <2> PICK l \in Loops : FeedDischarge(l)
    BY <1>3
  <2>1. sample[l].t \in Nat /\ DischargePower(sample[l].p) \in Nat
    BY SampleType DEF FeedDischarge
  <2>2. Accepts(meter["discharge"], sample[l].t)
    BY DEF FeedDischarge, OrderInv
  <2> QED BY <1>1, <2>1, <2>2 DEF FeedDischarge, OneWay
<1>4. CASE \E l \in Loops : FeedTotal(l) \/ TotalRaises(l)
  <2> PICK l \in Loops : FeedTotal(l) \/ TotalRaises(l)
    BY <1>4
  <2>1. meter'[k] = meter[k]
    BY DEF FeedTotal, TotalRaises, Feed, OneWay, MeterNames, TypeInv, TypeOK
  <2> QED BY <1>m, <2>1
<1>5. CASE UNCHANGED meter
  BY <1>m, <1>5
<1>6. (\E l \in Loops : Restart(l)) \/ LoopStores \/ ThreadReads \/ ThreadWrites \/ Stop
          \/ Exit \/ Tick \/ SetBack \/ UNCHANGED vars => UNCHANGED meter
  BY DEF Restart, LoopStores, ThreadReads, ThreadWrites, Stop, Exit, Tick, SetBack, vars
<1> QED BY <1>2, <1>3, <1>4, <1>5, <1>6 DEF Next

\* The meters of charged and discharged energy are "increasing only" (README):
\* they rise, though the clock may be set back and readings may be missed.
\* Only a start lowers them, to what the file holds.
THEOREM IncreasingOnly ==
    Spec => [][\A k \in OneWay : Rises(k) \/ (Boot /\ meter'[k].sum = file[k])]_vars
<1>1. Init => FileInv
  BY DEF Init, FileInv, Fresh, Zero, OneWay, MeterNames
<1>2. ASSUME TypeInv, OrderInv, FileInv, [Next]_vars, NEW k \in OneWay
      PROVE  Rises(k) \/ (Boot /\ meter'[k].sum = file[k])
  <2>1. CASE Boot
    BY <2>1 DEF Boot, Fresh, OneWay, MeterNames
  <2>2. CASE ~Boot
    BY <1>2, <2>2, RiseStep
  <2> QED BY <2>1, <2>2
<1>3. TypeInv /\ OrderInv /\ FileInv /\ [Next]_vars =>
          [\A k \in OneWay : Rises(k) \/ (Boot /\ meter'[k].sum = file[k])]_vars
  BY <1>2
<1> QED BY <1>1, <1>3, FileStep, TypeInvariant, OrderInvariant, PTL DEF Spec
=============================================================================
