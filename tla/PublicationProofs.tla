------------------------- MODULE PublicationProofs --------------------------
(***************************************************************************)
(* For all options, members and periods: what an average is made of, how   *)
(* old the data of a group can be that a sensor shows, which options keep  *)
(* the sensors available, and when an outage is forgotten.                 *)
(***************************************************************************)
EXTENDS Publication, FiniteSetTheorems, TLAPS

-----------------------------------------------------------------------------
(* Averages                                                                *)

\* The downsampler holds the samples since the last pop(), and perhaps the one
\* before; a cycle that publishes has just added one.
IWindow ==
    /\ since \in Nat
    /\ window \in {0..since - 1, 0..since}
    /\ pc = "publish" => since > 0

\* An interval of one element, from 0, is {0}.
LEMMA SingleSample ==
    ASSUME NEW n \in Nat, Cardinality(0..n) = 1
    PROVE  n = 0
  <1>1. Cardinality(0..n) = n - 0 + 1
    <2>1. 0 \in Int /\ n \in Int /\ 0 <= n
      OBVIOUS
    <2> QED BY <2>1, FS_Interval
  <1> QED BY <1>1

\* The samples in the downsampler grow older by one.
LEMMA Aged ==
    ASSUME NEW n \in Nat
    PROVE  {a + 1 : a \in 0..n - 1} \cup {0} = 0..n
  <1>1. ASSUME NEW x \in 0..n PROVE x \in {a + 1 : a \in 0..n - 1} \cup {0}
    <2>1. CASE x = 0
      BY <2>1
    <2>2. CASE x # 0
      <3>1. x - 1 \in 0..n - 1 /\ x = (x - 1) + 1
        BY <1>1, <2>2
      <3> QED BY <3>1
    <2> QED BY <2>1, <2>2
  <1>2. ASSUME NEW x \in {a + 1 : a \in 0..n - 1} \cup {0} PROVE x \in 0..n
    BY <1>2
  <1> QED BY <1>1, <1>2

\* The window holds no sample initially.
LEMMA WindowInit == Init => IWindow
  BY DEF Init, IWindow

\* Every step keeps the window to the samples since the last pop().
LEMMA WindowStep == IWindow /\ [Next]_vars => IWindow'
<1> SUFFICES ASSUME IWindow, [Next]_vars PROVE IWindow'
  OBVIOUS
<1>1. ASSUME UNCHANGED <<window, since>>, pc' = "publish" => pc = "publish"
      PROVE IWindow'
  BY <1>1 DEF IWindow
<1>2. ASSUME NEW jump \in BOOLEAN, NEW changed \in BOOLEAN, Fetches(jump, changed)
      PROVE IWindow'
  <2>1. window' = {a + 1 : a \in window} \cup {0} /\ since' = since + 1
    BY <1>2 DEF Fetches
  <2>2. CASE window = 0..since - 1
    <3>1. window' = 0..since' - 1
      BY <2>1, <2>2, Aged DEF IWindow
    <3> QED BY <2>1, <3>1 DEF IWindow
  <2>3. CASE window = 0..since
    <3>1. since + 1 \in Nat /\ since = (since + 1) - 1
      BY DEF IWindow
    <3>2. window' = 0..since'
      BY <2>1, <2>3, <3>1, Aged
    <3> QED BY <2>1, <3>1, <3>2 DEF IWindow
  <2> QED BY <2>2, <2>3 DEF IWindow
<1>3. CASE PublishSample
  <2>1. pc = "publish" /\ pc' = "detail" /\ since' = 0
        /\ window' = IF Cardinality(window) = 1 THEN window ELSE {}
    BY <1>3 DEF PublishSample, Pop
  <2>2. CASE Cardinality(window) = 1
    <3>1. PICK n \in Nat : window = 0..n
      BY <2>1 DEF IWindow
    <3>2. window' = 0..0
      BY <2>1, <2>2, <3>1, SingleSample
    <3> QED BY <2>1, <3>2 DEF IWindow
  <2>3. CASE Cardinality(window) # 1
    <3>1. window' = 0..since' - 1
      BY <2>1, <2>3
    <3> QED BY <2>1, <3>1 DEF IWindow
  <2> QED BY <2>2, <2>3
<1>4. CASE Wake \/ WakeLate \/ FetchRefused \/ FetchFails \/ SinkRaises \/ Skip
  BY <1>1, <1>4 DEF Wake, WakeLate, FetchRefused, FetchFails, SinkRaises, Skip,
                    samples
<1>5. CASE Answered \/ NotAnswered \/ Discover \/ Again \/ Leave \/ LeaveFails
  BY <1>1, <1>5 DEF Answered, NotAnswered, Details, Discover, Again, Leave,
                    LeaveFails, samples
<1>6. CASE \/ \E m \in Members : Update(m) \/ Dies(m) \/ Revives(m)
           \/ Drops \/ Reconnects \/ HubRestarts \/ Appears
  BY <1>1, <1>6 DEF Update, Dies, Revives, Drops, Reconnects, HubRestarts, Appears,
                    samples
<1>7. CASE UNCHANGED vars
  BY <1>1, <1>7 DEF vars, samples
<1> QED
  BY <1>2, <1>3, <1>4, <1>5, <1>6, <1>7 DEF Next, Cycle

\* An average is of all the samples since the previous publication and at most
\* one more, whatever the periods are and whichever cycles fail half-way
\* (sampling.py, Downsampler).
THEOREM AveragesAlways == Spec => []Averages
<1>1. IWindow => Averages
  BY DEF IWindow, Averages
<1> QED
  BY <1>1, WindowInit, WindowStep, PTL DEF Spec

-----------------------------------------------------------------------------
(* Groups                                                                  *)

\* The group has no sample older than is tolerated.
Recent == \A m \in Members : ages[m] <= Tolerated(opt)

\* Between fetch() and the end of the cycle the members' samples are as they
\* were fetched; the value shown grows old with its sensor.
IFresh ==
    /\ opt \in Options
    /\ shown \subseteq known
    /\ heard \in [Topics -> 0..Cap]
    /\ ages \in [Members -> -1..Cap] /\ stamp \in [Members -> -1..2 * Cap]
    /\ blended \in [Members -> -1..2 * Cap] /\ oldest \in [Members -> -1..2 * Cap]
    /\ opt.source = "bms" => \A m \in Members : ages[m] = NoSample
    /\ pc \in {"publish", "detail", "discover", "again"} => Recent
    /\ "value" \in shown /\ heard["value"] < Cap =>
           \A m \in Members : stamp[m] <= heard["value"] + Tolerated(opt)

\* What is tolerated is a number of units, at least the expiry, and not
\* beyond what is counted.
LEMMA ToleratedFacts ==
    ASSUME NEW o \in Options
    PROVE  /\ Expiry(o) \in Nat /\ Tolerated(o) \in Nat
           /\ Expiry(o) <= Tolerated(o) /\ Tolerated(o) < Cap /\ Cap \in Nat
  <1>1. o.sample \in Nat /\ o.publish \in Nat /\ o.expires \in Nat
    BY PublicationAssumption DEF OptionKinds
  <1>2. Half \in Nat /\ Cap \in Nat
    BY PublicationAssumption
  <1>3. Tolerated(o) < Cap
    BY PublicationAssumption
  <1>4. Expiry(o) \in Nat
    BY <1>1 DEF Expiry, Larger
  <1>5. Tolerated(o) \in Nat /\ Expiry(o) <= Tolerated(o)
    BY <1>2, <1>4 DEF Tolerated, MinExpiry, Larger
  <1> QED BY <1>2, <1>3, <1>4, <1>5

\* Nothing known or shown is too old initially.
LEMMA FreshInit == Init => IFresh
<1> SUFFICES ASSUME Init PROVE IFresh
  OBVIOUS
<1>1. Cap \in Nat
  BY PublicationAssumption
<1> QED
  BY <1>1 DEF Init, IFresh, NoSample

\* What was fetched is as old as the group's samples, or new.
LEMMA FetchedType ==
    ASSUME IFresh
    PROVE  /\ Fetched \in [Members -> -1..2 * Cap]
           /\ Recent => \A m \in Members : Fetched[m] <= Tolerated(opt)
<1>1. Tolerated(opt) \in Nat /\ Cap \in Nat
  BY ToleratedFacts DEF IFresh
<1>2. ASSUME NEW m \in Members
      PROVE  /\ Fetched[m] \in -1..2 * Cap
             /\ Recent => Fetched[m] <= Tolerated(opt)
  <2>1. Fetched[m] = IF opt.source = "group" THEN ages[m] ELSE 0
    BY DEF Fetched
  <2>2. ages[m] \in -1..Cap
    BY DEF IFresh
  <2> QED BY <1>1, <2>1, <2>2 DEF Recent
<1>3. Fetched = [m \in Members |-> Fetched[m]]
  BY DEF Fetched
<1> HIDE DEF Fetched
<1> QED BY <1>2, <1>3

\* Ages are counted up to their limit.
LEMMA AgingType ==
    ASSUME NEW limit \in Nat, NEW data \in [Members -> -1..limit], NEW t \in Nat
    PROVE  Aging(data, t, limit) \in [Members -> -1..limit]
  BY DEF Aging, Older, NoSample

\* A publication of anything but the value, or of the value of a group whose
\* samples are recent.
LEMMA PublishFresh ==
    ASSUME NEW topics, IFresh, Publish(topics), UNCHANGED <<opt, group, oldest>>,
           "value" \in topics => Recent,
           pc' \in {"publish", "detail", "discover", "again"} => Recent
    PROVE  IFresh'
<1> DEFINE out == IF client = "up" THEN {t \in topics : last[t] >= Half} ELSE {}
<1>1. /\ heard' = [t \in Topics |-> IF t \in out \cap known THEN 0 ELSE heard[t]]
      /\ shown' = shown \cup (out \cap known)
      /\ stamp' = IF "value" \in out \cap known THEN Fetched ELSE stamp
      /\ blended' = IF "value" \in out \cap known THEN oldest ELSE blended
      /\ known' = known
  BY DEF Publish
<1>2. out \subseteq topics
  OBVIOUS
<1> HIDE DEF out
<1>3. opt' = opt /\ ages' = ages /\ Tolerated(opt)' = Tolerated(opt) /\ Recent' = Recent
  BY DEF group, Recent, Tolerated, Expiry, MinExpiry, Larger
<1>4. Tolerated(opt) \in Nat /\ Cap \in Nat
  BY ToleratedFacts DEF IFresh
<1>5. heard' \in [Topics -> 0..Cap] /\ shown' \subseteq known'
  BY <1>1, <1>4 DEF IFresh
<1>6. /\ stamp' \in [Members -> -1..2 * Cap] /\ blended' \in [Members -> -1..2 * Cap]
      /\ oldest' \in [Members -> -1..2 * Cap]
  BY <1>1, FetchedType DEF IFresh
<1>7. ASSUME "value" \in shown', heard'["value"] < Cap
      PROVE \A m \in Members : stamp'[m] <= heard'["value"] + Tolerated(opt)
  <2>0. "value" \in Topics
    BY DEF Topics, Sampled
  <2>1. CASE "value" \in out \cap known
    <3>1. heard'["value"] = 0 /\ stamp' = Fetched
      BY <1>1, <2>0, <2>1
    <3>2. Recent
      BY <1>2, <2>1
    <3>3. ASSUME NEW m \in Members PROVE stamp'[m] <= heard'["value"] + Tolerated(opt)
      <4>1. Fetched[m] <= Tolerated(opt) /\ 0 + Tolerated(opt) = Tolerated(opt)
        BY <1>4, <3>2, FetchedType
      <4> QED BY <3>1, <4>1
    <3> QED BY <3>3
  <2>2. CASE "value" \notin out \cap known
    <3>1. heard'["value"] = heard["value"] /\ stamp' = stamp /\ "value" \in shown
      BY <1>1, <1>7, <2>0, <2>2
    <3> QED BY <1>7, <3>1 DEF IFresh
  <2> QED BY <2>1, <2>2
<1> QED
  BY <1>3, <1>5, <1>6, <1>7 DEF IFresh

\* Time passes for all ages alike.
LEMMA ElapseFresh ==
    ASSUME NEW t \in Nat, IFresh, Elapse(t), UNCHANGED <<opt, known, shown>>,
           pc' = "wake"
    PROVE  IFresh'
<1>1. opt \in Options /\ Tolerated(opt)' = Tolerated(opt) /\ Tolerated(opt) \in Nat
      /\ Tolerated(opt) < Cap /\ Cap \in Nat
  BY ToleratedFacts DEF IFresh, Tolerated, Expiry, MinExpiry, Larger
<1>2. heard' = [x \in Topics |-> Older(heard[x], t, Cap)] /\ "value" \in Topics
  BY DEF Elapse, Topics, Sampled
<1>3. heard' \in [Topics -> 0..Cap]
  BY <1>1, <1>2 DEF IFresh, Older
<1>4. ages' \in [Members -> -1..Cap]
  BY <1>1, AgingType DEF IFresh, Elapse
<1>5. /\ stamp' \in [Members -> -1..2 * Cap] /\ blended' \in [Members -> -1..2 * Cap]
      /\ oldest' \in [Members -> -1..2 * Cap]
  <2>1. 2 * Cap \in Nat
    BY <1>1
  <2> QED BY <2>1, AgingType DEF IFresh, Elapse
<1>6. opt'.source = "bms" => \A m \in Members : ages'[m] = NoSample
  BY DEF IFresh, Elapse, Aging
<1>7. ASSUME "value" \in shown', heard'["value"] < Cap, NEW m \in Members
      PROVE stamp'[m] <= heard'["value"] + Tolerated(opt)
  <2>1. heard["value"] \in 0..Cap /\ heard'["value"] = Older(heard["value"], t, Cap)
    BY <1>2 DEF IFresh
  <2>2. heard'["value"] = heard["value"] + t /\ heard["value"] < Cap
    BY <1>1, <1>7, <2>1 DEF Older
  <2>3. stamp[m] <= heard["value"] + Tolerated(opt) /\ stamp[m] \in -1..2 * Cap
    BY <1>7, <2>2 DEF IFresh
  <2>4. stamp'[m] = IF stamp[m] = NoSample THEN NoSample
                    ELSE Older(stamp[m], t, 2 * Cap)
    BY <1>7 DEF Elapse, Aging
  <2>5. stamp'[m] <= stamp[m] + t
    BY <1>1, <2>3, <2>4 DEF Older, NoSample
  <2>6. stamp'[m] \in -1..2 * Cap
    BY <1>5
  <2> QED BY <1>1, <2>1, <2>2, <2>3, <2>5, <2>6
<1> QED
  BY <1>1, <1>3, <1>4, <1>5, <1>6, <1>7 DEF IFresh

\* A fetch that is not refused is of recent samples.
LEMMA FetchedRecent ==
    ASSUME IFresh, ~Expired
    PROVE  Recent
<1>1. SUFFICES ASSUME NEW m \in Members PROVE ages[m] <= Tolerated(opt)
  BY DEF Recent
<1>2. ages[m] \in -1..Cap /\ Tolerated(opt) \in Nat /\ Cap \in Nat
  BY ToleratedFacts DEF IFresh
<1>3. CASE opt.source = "group"
  BY <1>2, <1>3 DEF Expired
<1>4. CASE opt.source = "bms"
  BY <1>2, <1>4 DEF IFresh, NoSample
<1>5. opt.source \in {"bms", "group"}
  BY PublicationAssumption DEF IFresh, OptionKinds
<1> QED BY <1>3, <1>4, <1>5

\* Every step keeps what a group knows and shows recent.
LEMMA FreshStep == IFresh /\ [Next]_vars => IFresh'
<1> SUFFICES ASSUME IFresh, [Next]_vars PROVE IFresh'
  OBVIOUS
<1>0. Step(opt) \in Nat /\ 2 * Step(opt) \in Nat
  BY PublicationAssumption DEF IFresh, Step, OptionKinds
<1>1. ASSUME UNCHANGED <<opt, known, shown, heard, stamp, blended, ages>>,
             oldest' \in [Members -> -1..2 * Cap],
             pc' \in {"publish", "detail", "discover", "again"} => Recent
      PROVE IFresh'
  <2>1. Tolerated(opt)' = Tolerated(opt) /\ Recent' = Recent
    BY <1>1 DEF Recent, Tolerated, Expiry, MinExpiry, Larger
  <2> QED BY <1>1, <2>1 DEF IFresh
<1>2. CASE Wake
  BY <1>0, <1>2, ElapseFresh DEF Wake
<1>3. CASE WakeLate
  BY <1>0, <1>3, ElapseFresh DEF WakeLate
<1>4. ASSUME NEW jump \in BOOLEAN, NEW changed \in BOOLEAN, Fetches(jump, changed)
      PROVE IFresh'
  <2>1. /\ UNCHANGED <<opt, known, shown, heard, stamp, blended, ages>> /\ ~Expired
        /\ oldest' = IF window = {} THEN Fetched ELSE oldest
    BY <1>4 DEF Fetches, group
  <2>2. Recent
    BY <2>1, FetchedRecent
  <2>3. oldest' \in [Members -> -1..2 * Cap]
    BY <2>1, FetchedType DEF IFresh
  <2> QED BY <1>1, <2>1, <2>2, <2>3
<1>5. CASE FetchRefused \/ FetchFails \/ SinkRaises \/ Leave \/ LeaveFails
  BY <1>1, <1>5 DEF FetchRefused, FetchFails, SinkRaises, Leave, LeaveFails, broker,
                    group, samples, IFresh
<1>6. CASE Skip
  <2>1. "value" \notin Meter
    BY DEF Meter
  <2> QED BY <1>6, <2>1, PublishFresh DEF Skip, samples
<1>7. CASE PublishSample
  BY <1>7, PublishFresh DEF PublishSample, IFresh
<1>8. CASE Answered \/ NotAnswered
  <2>1. PICK answered \in SUBSET {"cells"} : Details(answered)
    <3>1. {"cells"} \in SUBSET {"cells"} /\ {} \in SUBSET {"cells"}
      OBVIOUS
    <3> QED BY <1>8, <3>1 DEF Answered, NotAnswered
  <2>2. "value" \notin answered \cup Meter
    BY DEF Meter
  <2> QED BY <2>1, <2>2, PublishFresh DEF Details, IFresh, samples
<1>9. CASE Discover
  <2>1. Announce(carried) /\ UNCHANGED <<opt, group, oldest>> /\ Recent
    BY <1>9 DEF Discover, IFresh, samples
  <2> DEFINE out == IF client = "up" THEN {t \in carried : told[t] >= Half} ELSE {}
  <2>2. /\ known' = known \cup out
        /\ heard' = [t \in Topics |-> IF t \in out \ known THEN 0 ELSE heard[t]]
        /\ shown' = shown /\ stamp' = stamp /\ blended' = blended
    BY <2>1 DEF Announce
  <2> HIDE DEF out
  <2>3. Tolerated(opt)' = Tolerated(opt) /\ Recent' = Recent /\ Cap \in Nat
    BY <2>1, PublicationAssumption DEF Recent, Tolerated, Expiry, MinExpiry, Larger,
                                       group
  <2>4. heard' \in [Topics -> 0..Cap]
    BY <2>2, <2>3 DEF IFresh
  <2>5. "value" \in shown => heard'["value"] = heard["value"]
    BY <2>2 DEF IFresh, Topics, Sampled
  <2> QED BY <2>1, <2>2, <2>3, <2>4, <2>5 DEF IFresh, group
<1>10. CASE Again
  BY <1>10, PublishFresh DEF Again, IFresh, samples
<1>11. ASSUME NEW m \in Members, Update(m) PROVE IFresh'
  <2>1. /\ UNCHANGED <<opt, known, shown, heard, stamp, blended, oldest>>
        /\ pc' = "idle" /\ opt.source = "group" /\ ages' = [ages EXCEPT ![m] = 0]
    BY <1>11 DEF Update, broker, samples
  <2>2. Tolerated(opt)' = Tolerated(opt) /\ Cap \in Nat
    BY <2>1, PublicationAssumption DEF Tolerated, Expiry, MinExpiry, Larger
  <2>3. ages' \in [Members -> -1..Cap]
    BY <2>1, <2>2 DEF IFresh
  <2> QED BY <2>1, <2>2, <2>3 DEF IFresh
<1>12. CASE HubRestarts
  <2>1. shown' = {} /\ known' = {} /\ UNCHANGED <<opt, pc, heard, stamp, blended, oldest, ages>>
    BY <1>12 DEF HubRestarts, group, samples
  <2>2. Tolerated(opt)' = Tolerated(opt) /\ Recent' = Recent
    BY <2>1 DEF Recent, Tolerated, Expiry, MinExpiry, Larger
  <2> QED BY <2>1, <2>2 DEF IFresh
<1>13. CASE \/ \E m \in Members : Dies(m) \/ Revives(m)
            \/ Drops \/ Reconnects \/ Appears
  BY <1>1, <1>13 DEF Dies, Revives, Drops, Reconnects, Appears, broker, group, samples,
                     IFresh
<1>14. CASE UNCHANGED vars
  BY <1>1, <1>14 DEF vars, broker, group, samples, IFresh
<1> QED
  BY <1>2, <1>3, <1>4, <1>5, <1>6, <1>7, <1>8, <1>9, <1>10, <1>11, <1>12, <1>13,
     <1>14 DEF Next, Cycle

\* The newest sample in what a sensor of a group shows, until the sensor turns
\* unavailable, has no member's data older than twice what a sample may be,
\* however many members there are and whichever of them stop answering.  It
\* says nothing of the other samples in an average: those are the subject of
\* OutagesForgotten (group.py, sum_parallel; sampling.py, SampleExpiredError).
THEOREM FreshAlways == Spec => []Fresh
<1>1. IFresh => Fresh
  <2> SUFFICES ASSUME IFresh, opt.expires > 0, "value" \in shown,
                      heard["value"] <= Expiry(opt), NEW m \in Members
               PROVE stamp[m] <= 2 * Tolerated(opt)
    BY DEF Fresh
  <2>1. /\ Expiry(opt) \in Nat /\ Tolerated(opt) \in Nat /\ Cap \in Nat
        /\ Expiry(opt) <= Tolerated(opt) /\ Tolerated(opt) < Cap
    BY ToleratedFacts DEF IFresh
  <2>2. heard["value"] \in 0..Cap /\ stamp[m] \in -1..2 * Cap
    BY DEF IFresh, Topics, Sampled
  <2>3. stamp[m] <= heard["value"] + Tolerated(opt)
    BY <2>1, <2>2 DEF IFresh
  <2> QED BY <2>1, <2>2, <2>3
<1> QED
  BY <1>1, FreshInit, FreshStep, PTL DEF Spec

-----------------------------------------------------------------------------
(* Types                                                                   *)

\* The types of what IWindow and IFresh do not speak of.
Places == {"idle", "wake", "publish", "skip", "detail", "discover", "again",
           "leave"}
Period(p) == [on : BOOLEAN, since : -1..p]

IRest ==
    /\ pc \in Places /\ client \in {"off", "down", "up"}
    /\ last \in [Topics -> 0..Half] /\ told \in [Topics -> 0..Half]
    /\ known \subseteq Topics /\ carried \subseteq Topics
    /\ pub \in Period(opt.publish)
    /\ discov \in Period(DiscoverPeriod) /\ thirty \in Period(MeterPeriod)
    /\ dead \subseteq Members /\ quiet \in 0..Cap /\ faults \in 0..MaxFaults

\* The periods, bounds and options are numbers.
LEMMA Numbers ==
    ASSUME NEW o \in Options
    PROVE  /\ Half \in Nat /\ DiscoverPeriod \in Nat /\ MeterPeriod \in Nat
           /\ Cap \in Nat /\ MaxFaults \in Nat
           /\ o.publish \in Nat /\ o.sample \in Nat /\ Step(o) \in Nat
           /\ 2 * Step(o) \in Nat
  BY PublicationAssumption DEF OptionKinds, Step

\* A clock that runs up to its limit.
LEMMA OlderBounded ==
    ASSUME NEW limit \in Nat, NEW n \in 0..limit, NEW t \in Nat
    PROVE  Older(n, t, limit) \in 0..limit
  BY DEF Older

\* A period stays one when time goes by, and when it is set.
LEMMA PeriodKept ==
    ASSUME NEW p \in Nat, NEW s \in Period(p)
    PROVE  /\ SetTime(s, p) \in Period(p)
           /\ \A t \in Nat : Later(s, t, p) \in Period(p)
<1>1. s.on \in BOOLEAN /\ s.since \in -1..p /\ 0 \in -1..p
  BY DEF Period
<1>2. SetTime(s, p) \in Period(p)
  <2>1. CASE s.since = -1
    BY <1>1, <2>1 DEF SetTime, Period
  <2>2. CASE s.since # -1
    BY <1>1, <2>2 DEF SetTime, Period
  <2> QED BY <2>1, <2>2
<1>3. ASSUME NEW t \in Nat PROVE Later(s, t, p) \in Period(p)
  <2> DEFINE n == IF s.since = -1 THEN s.since ELSE Older(s.since, t, p)
  <2>1. n \in -1..p
    <3>1. CASE s.since = -1
      BY <1>1, <3>1
    <3>2. CASE s.since # -1
      <4>1. s.since \in 0..p
        BY <1>1, <3>2
      <4>2. Older(s.since, t, p) \in 0..p
        BY <1>3, <4>1, OlderBounded
      <4> QED BY <3>2, <4>2
    <3> QED BY <3>1, <3>2
  <2>2. Later(s, t, p) = [s EXCEPT !.since = n]
    BY DEF Later
  <2> HIDE DEF n
  <2> QED BY <2>1, <2>2 DEF Period
<1> QED BY <1>2, <1>3

\* The rest of the variables is typed initially.
LEMMA RestInit == Init => IRest
<1> SUFFICES ASSUME Init PROVE IRest
  OBVIOUS
<1>1. /\ Half \in Nat /\ Cap \in Nat /\ MaxFaults \in Nat
      /\ DiscoverPeriod \in Nat /\ MeterPeriod \in Nat /\ opt.publish \in Nat
  BY Numbers DEF Init
<1>2. \A p \in Nat : Signal \in Period(p)
  BY DEF Signal, Period
<1>3. dead \subseteq Members
  BY DEF Init
<1> QED BY <1>1, <1>2, <1>3 DEF Init, IRest, Places

\* Time passes.
LEMMA ElapseRest ==
    ASSUME NEW t \in Nat, opt \in Options, IRest, Elapse(t)
    PROVE  /\ last' \in [Topics -> 0..Half] /\ told' \in [Topics -> 0..Half]
           /\ pub' \in Period(opt.publish)
           /\ discov' \in Period(DiscoverPeriod)
           /\ thirty' \in Period(MeterPeriod)
<1>1. /\ Half \in Nat /\ opt.publish \in Nat
      /\ DiscoverPeriod \in Nat /\ MeterPeriod \in Nat
  BY Numbers
<1>2. /\ \A x \in Topics : Older(last[x], t, Half) \in 0..Half
      /\ \A x \in Topics : Older(told[x], t, Half) \in 0..Half
  BY <1>1, OlderBounded DEF IRest
<1>3. last' \in [Topics -> 0..Half] /\ told' \in [Topics -> 0..Half]
  BY <1>2 DEF Elapse
<1> QED BY <1>1, <1>3, PeriodKept DEF Elapse, IRest

\* Every step keeps the rest of the variables typed.
LEMMA RestStep == IFresh /\ IRest /\ [Next]_vars => IRest'
<1> SUFFICES ASSUME IFresh, IRest, [Next]_vars PROVE IRest'
  OBVIOUS
<1>0. /\ opt \in Options /\ Half \in Nat /\ Cap \in Nat /\ MaxFaults \in Nat
      /\ DiscoverPeriod \in Nat /\ MeterPeriod \in Nat
      /\ opt.publish \in Nat /\ Step(opt) \in Nat /\ 2 * Step(opt) \in Nat
  BY Numbers DEF IFresh
<1>1. ASSUME Fault \/ NoFault
      PROVE  quiet' \in 0..Cap /\ faults' \in 0..MaxFaults
  BY <1>0, <1>1 DEF Fault, NoFault, IRest
<1>2. ASSUME NEW topics, Publish(topics)
      PROVE  /\ UNCHANGED <<client, known, told>>
             /\ last' \in [Topics -> 0..Half]
  BY <1>0, <1>2 DEF Publish, IRest
<1>3. CASE Wake
  <2>1. /\ Elapse(Step(opt)) /\ pc' = "wake"
        /\ UNCHANGED <<opt, client, known, carried, dead, faults>>
        /\ quiet' = Older(quiet, Step(opt), Cap)
    BY <1>3 DEF Wake
  <2>2. quiet' \in 0..Cap
    BY <1>0, <2>1, OlderBounded DEF IRest
  <2> QED BY <1>0, <2>1, <2>2, ElapseRest DEF IRest, Places
<1>4. CASE WakeLate
  <2>1. /\ Elapse(2 * Step(opt)) /\ Fault /\ pc' = "wake"
        /\ UNCHANGED <<opt, client, known, carried, dead>>
    BY <1>4 DEF WakeLate
  <2> QED BY <1>0, <1>1, <2>1, ElapseRest DEF IRest, Places
<1>5. ASSUME NEW jump \in BOOLEAN, NEW changed \in BOOLEAN,
             Fetches(jump, changed)
      PROVE IRest'
  <2>1. /\ NoFault /\ pc' \in Places
        /\ last' \in [Topics -> 0..Half]
        /\ UNCHANGED <<opt, client, told, known, carried, pub, discov, thirty,
                       dead>>
    BY <1>0, <1>5 DEF Fetches, IRest, Places, periods, group
  <2> QED BY <1>1, <2>1 DEF IRest
<1>6. CASE FetchRefused \/ FetchFails \/ SinkRaises \/ LeaveFails
  <2>1. /\ pc' \in Places
        /\ UNCHANGED <<opt, client, last, told, known, carried, pub, discov,
                       thirty, dead>>
    BY <1>6 DEF FetchRefused, FetchFails, SinkRaises, LeaveFails, Places,
       broker, periods, group
  <2>2. quiet' \in 0..Cap /\ faults' \in 0..MaxFaults
    BY <1>0, <1>1, <1>6 DEF FetchRefused, FetchFails, SinkRaises, LeaveFails,
       IRest
  <2> QED BY <2>1, <2>2 DEF IRest
<1>7. CASE Skip \/ PublishSample \/ Again
  <2>1. /\ \E topics : Publish(topics)
        /\ NoFault /\ pc' \in Places
        /\ UNCHANGED <<opt, carried, pub, discov, thirty, dead>>
    BY <1>7 DEF Skip, PublishSample, Again, Places, periods, group
  <2> QED BY <1>1, <1>2, <2>1 DEF IRest
<1>8. ASSUME NEW answered, answered \subseteq {"cells"}, Details(answered),
             Fault \/ NoFault
      PROVE  IRest'
  <2>1. /\ \E topics : Publish(topics)
        /\ pc' \in Places /\ carried' \subseteq Topics
        /\ UNCHANGED <<opt, pub, discov, thirty, dead>>
    BY <1>8 DEF Details, Places, periods, group, Topics, Sampled
  <2> QED BY <1>1, <1>2, <1>8, <2>1 DEF IRest
<1>9. CASE Discover
  <2>1. /\ Announce(carried) /\ NoFault /\ pc' \in Places
        /\ UNCHANGED <<opt, carried, pub, discov, thirty, dead>>
    BY <1>9 DEF Discover, Places, periods, group
  <2>2. /\ UNCHANGED <<client, last>> /\ told' \in [Topics -> 0..Half]
        /\ known' \subseteq Topics
    BY <1>0, <2>1 DEF Announce, IRest
  <2> QED BY <1>1, <2>1, <2>2 DEF IRest
<1>10. CASE Leave
  <2>1. /\ NoFault /\ pc' \in Places
        /\ UNCHANGED <<opt, client, last, told, known, carried, dead>>
    BY <1>10 DEF Leave, Places, broker, group
  <2>2. /\ pub' \in Period(opt.publish) /\ discov' \in Period(DiscoverPeriod)
        /\ thirty' \in Period(MeterPeriod)
    BY <1>0, <1>10, PeriodKept DEF Leave, IRest
  <2> QED BY <1>1, <2>1, <2>2 DEF IRest
<1>11. ASSUME NEW m \in Members, Update(m) \/ Dies(m) \/ Revives(m)
       PROVE IRest'
  <2>1. /\ (Fault \/ NoFault) /\ dead' \subseteq Members
        /\ UNCHANGED <<opt, pc, client, last, told, known, carried, pub,
                       discov, thirty>>
    BY <1>11 DEF Update, Dies, Revives, broker, periods, IRest
  <2> QED BY <1>1, <2>1 DEF IRest
<1>12. CASE Drops \/ Reconnects \/ HubRestarts \/ Appears
  <2>1. /\ client' \in {"off", "down", "up"} /\ known' \subseteq Topics
        /\ carried' \subseteq Topics
        /\ UNCHANGED <<opt, pc, last, told, pub, discov, thirty, dead>>
    BY <1>12 DEF Drops, Reconnects, HubRestarts, Appears, broker, periods,
       group, IRest, Topics, Sampled
  <2>2. quiet' \in 0..Cap /\ faults' \in 0..MaxFaults
    BY <1>0, <1>1, <1>12 DEF Drops, Reconnects, HubRestarts, Appears, IRest
  <2> QED BY <2>1, <2>2 DEF IRest
<1>13. CASE UNCHANGED vars
  BY <1>13 DEF vars, broker, periods, samples, group, IRest
<1>14. Answered => Details({"cells"}) /\ NoFault
  BY DEF Answered
<1>15. NotAnswered => Details({}) /\ Fault
  BY DEF NotAnswered
<1> QED
  BY <1>3, <1>4, <1>5, <1>6, <1>7, <1>8, <1>9, <1>10, <1>11, <1>12, <1>13,
     <1>14, <1>15 DEF Next, Cycle

\* Every variable keeps its type: TypeOK of Publication, for all options,
\* members and periods.
THEOREM TypeCorrect == Spec => []TypeOK
<1>1. IWindow => window \subseteq Nat /\ IsFiniteSet(window) /\ since \in Nat
  <2> SUFFICES ASSUME IWindow
               PROVE  window \subseteq Nat /\ IsFiniteSet(window)
    BY DEF IWindow
  <2>1. since \in Int /\ since - 1 \in Int /\ 0 \in Int
    BY DEF IWindow
  <2>2. IsFiniteSet(0..since) /\ IsFiniteSet(0..since - 1)
    BY <2>1, FS_Interval
  <2> QED BY <2>2 DEF IWindow
<1>2. IWindow /\ IFresh /\ IRest => TypeOK
  BY <1>1 DEF IFresh, IRest, TypeOK, Places, Period
<1> QED
  BY <1>2, WindowInit, WindowStep, FreshInit, FreshStep, RestInit, RestStep, PTL
     DEF Spec

-----------------------------------------------------------------------------
(* Expiry                                                                  *)

\* A publication comes within j cycles, for a signal p at a place of the cycle;
\* ahead: that of this cycle is still to come.  A signal that is off is set at
\* the end of the cycle in which the period is over.
FromStart(p) == IF p.since = -1 THEN 0 ELSE p.since
Comes(o, p, place, ahead, j) ==
    \/ p.on /\ ahead
    \/ p.on /\ place = "idle" /\ j >= 1
    \/ /\ j >= 1 /\ (place = "idle" => j >= 2)
       /\ FromStart(p) + (j - 1) * Step(o) >= o.publish

Ahead(t, place) == place \in {"wake", "publish"} \/ (t = "cells" /\ place = "detail")

\* n + 1 cycles are enough, whatever the signal is.
LEMMA ComesAtLast ==
    ASSUME NEW o \in Options, NEW p \in Period(o.publish),
           NEW n \in 1..Cap, n * Step(o) >= o.publish, NEW place, NEW ahead
    PROVE  Comes(o, p, place, ahead, n + 1)
<1>1. /\ n \in Nat /\ n + 1 >= 2 /\ (n + 1) - 1 = n
      /\ o.publish \in Nat /\ Step(o) \in Nat
  BY Numbers
<1>2. FromStart(p) \in Nat
  BY <1>1 DEF FromStart, Period
<1>3. FromStart(p) + n * Step(o) >= o.publish
  <2> DEFINE k == n * Step(o)
  <2>1. k \in Nat /\ k >= o.publish
    BY <1>1
  <2> HIDE DEF k
  <2>2. FromStart(p) + k >= o.publish
    BY <1>1, <1>2, <2>1
  <2> QED BY <2>2 DEF k
<1> QED BY <1>1, <1>3 DEF Comes

\* Once the loop wakes up it is one cycle less.
LEMMA ComesAwake ==
    ASSUME NEW o \in Options, NEW p \in Period(o.publish), NEW j \in Nat,
           p.since = -1 => p.on, Comes(o, p, "idle", FALSE, j)
    PROVE  j >= 1 /\ Comes(o, Later(p, Step(o), o.publish), "wake", TRUE, j - 1)
<1> DEFINE q == Later(p, Step(o), o.publish)
<1>1. q.on = p.on
  BY DEF Later, Period
<1>2. CASE p.on
  BY <1>1, <1>2 DEF Comes
<1>3. CASE ~p.on
  <2>1. /\ j >= 2 /\ p.since \in 0..o.publish /\ o.publish \in Nat
        /\ Step(o) \in Nat
    BY <1>3, Numbers DEF Comes, Period
  <2>2. q.since = Older(p.since, Step(o), o.publish)
    BY <2>1 DEF Later, Period
  <2> DEFINE k == (j - 2) * Step(o)
  <2>3. k \in Nat /\ (j - 1) * Step(o) = k + Step(o) /\ (j - 1) - 1 = j - 2
    BY <2>1
  <2> HIDE DEF k
  <2>4. p.since + k + Step(o) >= o.publish
    BY <1>3, <2>1, <2>3 DEF Comes, FromStart
  <2>5. q.since \in Nat /\ q.since + k >= o.publish
    BY <2>1, <2>2, <2>3, <2>4 DEF Older
  <2>6. FromStart(q) = q.since
    BY <2>5 DEF FromStart
  <2> HIDE DEF q
  <2> QED BY <2>1, <2>3, <2>5, <2>6 DEF Comes, k, q
<1> QED BY <1>2, <1>3

\* The end of the cycle sets the signal and changes nothing about it.
LEMMA ComesSet ==
    ASSUME NEW o \in Options, NEW p \in Period(o.publish), NEW j \in Nat,
           NEW place, place # "idle", Comes(o, p, place, FALSE, j)
    PROVE  Comes(o, SetTime(p, o.publish), "idle", FALSE, j)
<1> DEFINE q == SetTime(p, o.publish)
           k == (j - 1) * Step(o)
<1>1. /\ j >= 1 /\ FromStart(p) + k >= o.publish
      /\ o.publish \in Nat /\ Step(o) \in Nat /\ p.since \in -1..o.publish
  BY Numbers DEF Comes, Period
<1>2. k \in Nat /\ (j = 1 => k = 0)
  BY <1>1
<1> HIDE DEF k
<1>3. CASE q.on
  BY <1>1, <1>3 DEF Comes
<1>4. CASE ~q.on
  <2>1. FromStart(p) < o.publish /\ FromStart(q) = FromStart(p)
    <3>1. CASE p.since = -1
      <4>1. q = [on |-> 0 >= o.publish, since |-> 0]
        BY <3>1 DEF SetTime
      <4> HIDE DEF q
      <4>2. ~(0 >= o.publish) /\ q.since = 0
        BY <1>4, <4>1, Zenon
      <4> QED BY <1>1, <3>1, <4>2 DEF FromStart
    <3>2. CASE p.since # -1
      BY <1>1, <1>4, <3>2 DEF SetTime, FromStart, Period
    <3> QED BY <3>1, <3>2
  <2>2. j >= 2
    BY <1>1, <1>2, <2>1 DEF FromStart
  <2> HIDE DEF q
  <2> QED BY <1>1, <2>1, <2>2 DEF Comes, k, q
<1> QED BY <1>3, <1>4

\* A signal is off only after it was set once, and a cycle that publishes
\* nothing has a signal that is off.
ISignal == (pub.since = -1 => pub.on) /\ (pc = "skip" => ~pub.on)

\* What is held back was told as late as it was published, ...
ITold == \A t \in known : last[t] < Half => heard[t] <= last[t]

\* ... and that was a number of cycles ago.
ICycles ==
    \A t \in Topics : heard[t] < Half =>
        \E i \in Nat : heard[t] = i * Step(opt)

\* Sensor t will be told in time.
Waited(t) == IF heard[t] < quiet THEN heard[t] ELSE quiet
Soon(t, n, m) ==
    \E j \in 0..n + 1 :
        /\ Comes(opt, pub, pc, Ahead(t, pc), j)
        /\ Waited(t) + j * Step(opt) <= (m + n + 1) * Step(opt)

\* So will every sensor, unless it is a fault that kept it from being told.
AllSoon(n, m) ==
    client = "up" =>
        \A t \in (known \cap carried) \ {"meter"} : Soon(t, n, m)
ISoon ==
    Fits(opt) => \E n \in 1..Cap, m \in 0..Cap :
                     InTime(opt, n, m) /\ AllSoon(n, m)

\* The numbers of a state.
LEMMA StateNumbers ==
    ASSUME IFresh, IRest
    PROVE  /\ opt \in Options /\ Step(opt) \in Nat /\ opt.publish \in Nat
           /\ Half \in Nat /\ Cap \in Nat /\ quiet \in 0..Cap
           /\ pub \in Period(opt.publish)
           /\ \A t \in Topics : heard[t] \in 0..Cap /\ last[t] \in 0..Half
           /\ known \subseteq Topics /\ carried \subseteq Topics
  BY Numbers DEF IFresh, IRest

\* A sensor was told long enough ago, or not at all, only if something was
\* wrong less than its expiry ago.
LEMMA SoonAlive ==
    ASSUME IFresh, IRest, ISoon, Fits(opt)
    PROVE  KeepsAlive
<1> SUFFICES ASSUME client = "up", quiet > Expiry(opt),
                    NEW t \in (known \cap carried) \ {"meter"}
             PROVE  heard[t] <= Expiry(opt)
  BY DEF KeepsAlive
<1>1. PICK n \in 1..Cap, m \in 0..Cap : InTime(opt, n, m) /\ AllSoon(n, m)
  BY DEF ISoon
<1>2. PICK j \in 0..n + 1 : Waited(t) + j * Step(opt) <= (m + n + 1) * Step(opt)
  BY <1>1 DEF AllSoon, Soon
<1> DEFINE k == j * Step(opt)
           e == (m + n + 1) * Step(opt)
<1>3. /\ k \in Nat /\ e \in Nat /\ e <= Expiry(opt) /\ Waited(t) + k <= e
      /\ heard[t] \in Nat /\ quiet \in Nat /\ Expiry(opt) \in Nat
  BY <1>1, <1>2, StateNumbers, ToleratedFacts DEF InTime, IFresh
<1> HIDE DEF k, e
<1> QED BY <1>3 DEF Waited

\* A publication that is held back was one m cycles ago at most.
LEMMA HeldBack ==
    ASSUME NEW s \in Nat, NEW i \in Nat, NEW m \in Nat, Half \in Nat,
           i * s < Half, (m + 1) * s >= Half
    PROVE  i * s <= m * s
<1>1. CASE i <= m
  <2>1. (m - i) \in Nat /\ m * s = i * s + (m - i) * s
    BY <1>1
  <2> DEFINE d == (m - i) * s
             u == i * s
  <2>2. d \in Nat /\ u \in Nat
    BY <2>1
  <2> HIDE DEF d, u
  <2>3. u <= u + d
    BY <2>2
  <2> QED BY <2>1, <2>3 DEF d, u
<1>2. CASE i > m
  <2>1. i - (m + 1) \in Nat /\ i * s = (m + 1) * s + (i - (m + 1)) * s
    BY <1>2
  <2> DEFINE d == (i - (m + 1)) * s
             u == (m + 1) * s
             w == i * s
  <2>2. d \in Nat /\ u \in Nat /\ w = u + d /\ w < Half /\ u >= Half
    BY <2>1
  <2> HIDE DEF d, u, w
  <2> QED BY <2>2
<1> QED BY <1>1, <1>2

\* A publication tells the sensors what it does not hold back.
LEMMA PublishTells ==
    ASSUME IFresh, IRest, NEW topics \in SUBSET Topics, Publish(topics)
    PROVE  /\ client' = client /\ known' = known
           /\ \A t \in Topics :
                  \/ /\ last'[t] = 0 /\ heard'[t] \in {0, heard[t]}
                     /\ t \in known => heard'[t] = 0
                  \/ last'[t] = last[t] /\ heard'[t] = heard[t]
           /\ client = "up" => \A t \in topics \cap known :
                  heard'[t] = 0 \/ (last[t] < Half /\ heard'[t] = heard[t])
<1> DEFINE out == IF client = "up" THEN {t \in topics : last[t] >= Half} ELSE {}
<1>1. /\ last' = [t \in Topics |-> IF t \in out THEN 0 ELSE last[t]]
      /\ heard' = [t \in Topics |-> IF t \in out \cap known THEN 0 ELSE heard[t]]
      /\ client' = client /\ known' = known
  BY DEF Publish
<1>2. client = "up" => \A t \in topics : t \in out \/ last[t] < Half
  BY StateNumbers
<1> HIDE DEF out
<1>3. \A t \in topics : t \in Topics
  OBVIOUS
<1> QED BY <1>1, <1>2, <1>3

\* An announcement creates the sensors that were not known.
LEMMA AnnounceTells ==
    ASSUME IFresh, IRest, Announce(carried)
    PROVE  /\ client' = client /\ last' = last
           /\ \A t \in Topics :
                  \/ heard'[t] = heard[t] /\ (t \in known' => t \in known)
                  \/ heard'[t] = 0
<1> DEFINE out == IF client = "up" THEN {t \in carried : told[t] >= Half} ELSE {}
<1>1. /\ known' = known \cup out /\ client' = client /\ last' = last
      /\ heard' = [t \in Topics |-> IF t \in out \ known THEN 0 ELSE heard[t]]
  BY DEF Announce
<1> HIDE DEF out
<1> QED BY <1>1

\* What a step does to what was published and heard.
LEMMA StepKinds ==
    ASSUME IFresh, IRest, [Next]_vars
    PROVE  /\ opt' = opt
           /\ \/ UNCHANGED <<last, heard, known>>
              \/ known' = known /\ \E d \in {Step(opt), 2 * Step(opt)} : Elapse(d)
              \/ \E topics \in SUBSET Topics : Publish(topics)
              \/ Announce(carried)
              \/ /\ UNCHANGED <<heard, known>>
                 /\ last' = last \/ last' = [t \in Topics |-> Half]
              \/ known' = {} /\ heard' = heard
<1>0. carried \subseteq Topics /\ Meter \subseteq Topics
  BY DEF IRest, Meter, Topics
<1>1. CASE Wake \/ WakeLate
  BY <1>1 DEF Wake, WakeLate
<1>2. CASE \E jump, changed \in BOOLEAN : Fetches(jump, changed)
  BY <1>2 DEF Fetches
<1>3. CASE FetchRefused \/ FetchFails \/ SinkRaises \/ Leave \/ LeaveFails
  BY <1>3 DEF FetchRefused, FetchFails, SinkRaises, Leave, LeaveFails, broker
<1>4. CASE Skip \/ PublishSample \/ Again
  BY <1>0, <1>4 DEF Skip, PublishSample, Again
<1>5. ASSUME NEW answered \in SUBSET {"cells"}, Details(answered)
      PROVE  opt' = opt /\ \E topics \in SUBSET Topics : Publish(topics)
  <2>1. answered \cup Meter \in SUBSET Topics
    BY <1>0 DEF Topics
  <2> QED BY <1>5, <2>1 DEF Details
<1>6. CASE Answered \/ NotAnswered
  BY <1>5, <1>6 DEF Answered, NotAnswered
<1>7. CASE Discover \/ HubRestarts
  BY <1>7 DEF Discover, HubRestarts
<1>8. CASE \/ \E m \in Members : Update(m) \/ Dies(m) \/ Revives(m)
           \/ Drops \/ Reconnects \/ Appears
  BY <1>8 DEF Update, Dies, Revives, Drops, Reconnects, Appears, broker
<1>9. CASE UNCHANGED vars
  BY <1>9 DEF vars, broker
<1> QED BY <1>1, <1>2, <1>3, <1>4, <1>6, <1>7, <1>8, <1>9 DEF Next, Cycle

\* Every step keeps what is held back told.
LEMMA ToldStep ==
    ASSUME IFresh, IRest, ITold, [Next]_vars
    PROVE  ITold'
<1>0. /\ Half \in Nat /\ Cap \in Nat /\ Step(opt) \in Nat /\ known \subseteq Topics
      /\ \A t \in Topics : heard[t] \in Nat /\ last[t] \in Nat
  BY StateNumbers
<1>1. known' \subseteq Topics
  BY RestStep DEF IRest
<1>2. CASE UNCHANGED <<last, heard, known>>
  BY <1>2 DEF ITold
<1>3. ASSUME known' = known, NEW d \in {Step(opt), 2 * Step(opt)}, Elapse(d)
      PROVE  ITold'
  <2>1. d \in Nat
    BY <1>0
  <2>2. /\ last' = [t \in Topics |-> Older(last[t], d, Half)]
        /\ heard' = [t \in Topics |-> Older(heard[t], d, Cap)]
    BY <1>3 DEF Elapse
  <2>3. ASSUME NEW t \in known, last'[t] < Half PROVE heard'[t] <= last'[t]
    <3>1. /\ last'[t] = Older(last[t], d, Half)
          /\ heard'[t] = Older(heard[t], d, Cap)
      BY <1>0, <2>2
    <3>2. last[t] + d < Half /\ last'[t] = last[t] + d
      BY <1>0, <2>1, <2>3, <3>1 DEF Older
    <3>3. heard[t] <= last[t]
      BY <1>0, <2>1, <3>2 DEF ITold
    <3> QED BY <1>0, <2>1, <3>1, <3>2, <3>3 DEF Older
  <2> QED BY <1>3, <2>3 DEF ITold
<1>4. ASSUME NEW topics \in SUBSET Topics, Publish(topics) PROVE ITold'
  <2>1. ASSUME NEW t \in known', last'[t] < Half PROVE heard'[t] <= last'[t]
    BY <1>0, <1>4, <2>1, PublishTells DEF ITold
  <2> QED BY <2>1 DEF ITold
<1>5. CASE Announce(carried)
  <2>1. ASSUME NEW t \in known', last'[t] < Half PROVE heard'[t] <= last'[t]
    BY <1>0, <1>1, <1>5, <2>1, AnnounceTells DEF ITold
  <2> QED BY <2>1 DEF ITold
<1>6. CASE UNCHANGED <<heard, known>> /\ last' = [t \in Topics |-> Half]
  BY <1>0, <1>6 DEF ITold
<1>7. CASE known' = {}
  BY <1>7 DEF ITold
<1> QED BY <1>2, <1>3, <1>4, <1>5, <1>6, <1>7, StepKinds

\* Time goes by in cycles.
LEMMA CyclesStep ==
    ASSUME IFresh, IRest, ICycles, [Next]_vars
    PROVE  ICycles'
<1>0. /\ Half \in Nat /\ Cap \in Nat /\ Step(opt) \in Nat
      /\ \A t \in Topics : heard[t] \in Nat
  BY StateNumbers
<1>1. opt' = opt /\ Step(opt)' = Step(opt)
  BY StepKinds DEF Step
<1>2. ASSUME \A t \in Topics : heard'[t] \in {0, heard[t]} PROVE ICycles'
  <2>1. 0 = 0 * Step(opt) /\ 0 \in Nat
    BY <1>0
  <2> QED BY <1>1, <1>2, <2>1 DEF ICycles
<1>3. ASSUME NEW d \in {Step(opt), 2 * Step(opt)}, Elapse(d) PROVE ICycles'
  <2>1. PICK c \in {1, 2} : d = c * Step(opt)
    BY <1>0
  <2>2. heard' = [t \in Topics |-> Older(heard[t], d, Cap)]
    BY <1>3 DEF Elapse
  <2>3. ASSUME NEW t \in Topics, heard'[t] < Half
        PROVE  \E i \in Nat : heard'[t] = i * Step(opt)
    <3>0. Half <= Cap
      BY <1>0, PublicationAssumption, ToleratedFacts DEF IFresh, Tolerated, MinExpiry, Larger
    <3>1. heard'[t] = Older(heard[t], d, Cap) /\ d \in Nat
      BY <1>0, <2>2
    <3>2. heard'[t] = heard[t] + d /\ heard[t] < Half
      BY <1>0, <2>3, <3>0, <3>1 DEF Older
    <3>3. PICK i \in Nat : heard[t] = i * Step(opt)
      BY <3>2 DEF ICycles
    <3>4. heard'[t] = (i + c) * Step(opt) /\ i + c \in Nat
      BY <1>0, <2>1, <3>2, <3>3
    <3> QED BY <3>4
  <2> QED BY <1>1, <2>3 DEF ICycles
<1>4. CASE heard' = heard
  BY <1>2, <1>4
<1>5. ASSUME NEW topics \in SUBSET Topics, Publish(topics) PROVE ICycles'
  BY <1>2, <1>5, PublishTells
<1>6. CASE Announce(carried)
  BY <1>2, <1>6, AnnounceTells
<1> QED BY <1>2, <1>3, <1>4, <1>5, <1>6, StepKinds

\* Every step keeps what the signal says of the cycle.
LEMMA SignalStep ==
    ASSUME IFresh, IRest, ISignal, [Next]_vars
    PROVE  ISignal'
<1>0. /\ opt.publish \in Nat /\ Step(opt) \in Nat /\ 2 * Step(opt) \in Nat
      /\ pub \in Period(opt.publish)
  BY StateNumbers
<1>1. ASSUME pub' = pub, pc' = "skip" => pc = "skip" PROVE ISignal'
  BY <1>1 DEF ISignal
<1>2. CASE Wake \/ WakeLate
  <2>1. PICK d \in Nat : pub' = Later(pub, d, opt.publish)
    BY <1>0, <1>2 DEF Wake, WakeLate, Elapse
  <2>2. pub'.on = pub.on /\ (pub'.since = -1 => pub.since = -1)
    BY <1>0, <2>1 DEF Later, Period, Older
  <2>3. pc' = "wake"
    BY <1>2 DEF Wake, WakeLate
  <2> QED BY <2>2, <2>3 DEF ISignal
<1>3. ASSUME NEW jump \in BOOLEAN, NEW changed \in BOOLEAN, Fetches(jump, changed)
      PROVE  ISignal'
  <2>1. pub' = pub /\ (pc' = "skip" => ~Due(jump))
    BY <1>3 DEF Fetches, periods
  <2> QED BY <2>1 DEF ISignal, Due
<1>4. CASE Leave
  <2>1. pub' = SetTime(pub, opt.publish) /\ pc' = "idle"
    BY <1>4 DEF Leave
  <2>2. pub'.since = -1 => pub'.on
    BY <1>0, <2>1 DEF SetTime, Period
  <2> QED BY <2>1, <2>2 DEF ISignal
<1>5. CASE \/ FetchRefused \/ FetchFails \/ SinkRaises \/ Skip \/ PublishSample
           \/ Discover \/ Again \/ LeaveFails
  BY <1>1, <1>5 DEF FetchRefused, FetchFails, SinkRaises, Skip, PublishSample,
                    Discover, Again, LeaveFails, periods
<1>6. ASSUME NEW answered, Details(answered) PROVE ISignal'
  BY <1>1, <1>6 DEF Details, periods
<1>7. CASE \/ \E m \in Members : Update(m) \/ Dies(m) \/ Revives(m)
           \/ Drops \/ Reconnects \/ HubRestarts \/ Appears
  BY <1>1, <1>7 DEF Update, Dies, Revives, Drops, Reconnects, HubRestarts,
                    Appears, periods
<1>8. CASE UNCHANGED vars
  BY <1>1, <1>8 DEF vars, periods
<1> QED
  BY <1>2, <1>3, <1>4, <1>5, <1>6, <1>7, <1>8
     DEF Next, Cycle, Answered, NotAnswered

\* The numbers of the state after a step.
LEMMA NextNumbers ==
    ASSUME IFresh', IRest', opt' = opt
    PROVE  /\ opt \in Options /\ Step(opt) \in Nat /\ Step(opt)' = Step(opt)
           /\ quiet' \in Nat /\ pub' \in Period(opt.publish)
           /\ \A t \in Topics : heard'[t] \in Nat
  BY Numbers DEF IFresh, IRest, Step

\* A sensor that was told lately, or waits only since a fault, is told in time.
LEMMA SoonNow ==
    ASSUME IFresh', IRest', opt' = opt, NEW n \in 1..Cap, NEW m \in 0..Cap,
           InTime(opt, n, m), NEW t \in Topics,
           heard'[t] <= m * Step(opt) \/ quiet' = 0
    PROVE  Soon(t, n, m)'
<1>1. n \in Nat /\ m \in Nat /\ n + 1 \in 0..n + 1
  BY Numbers, NextNumbers
<1>2. Comes(opt, pub', pc', Ahead(t, pc'), n + 1)
  BY NextNumbers, ComesAtLast DEF InTime
<1> DEFINE h == m * Step(opt)
           k == (n + 1) * Step(opt)
           e == (m + n + 1) * Step(opt)
<1>3. h \in Nat /\ k \in Nat /\ e = h + k
  BY <1>1, NextNumbers
<1>4. Waited(t)' <= h
  BY <1>3, NextNumbers DEF Waited
<1>5. Waited(t)' \in Nat
  BY NextNumbers DEF Waited
<1> HIDE DEF h, k, e
<1>6. Waited(t)' + k <= e
  BY <1>3, <1>4, <1>5
<1> QED BY <1>1, <1>2, <1>6, NextNumbers DEF Soon, k, e

\* One that waits no longer than before, for the same publication, still is.
LEMMA SoonStill ==
    ASSUME IFresh, IRest, IFresh', IRest', opt' = opt,
           NEW n \in 1..Cap, NEW m \in 0..Cap, NEW t \in Topics, Soon(t, n, m),
           heard'[t] \in {0, heard[t]}, quiet' = quiet,
           \A j \in Nat : Comes(opt, pub, pc, Ahead(t, pc), j)
                          => Comes(opt, pub', pc', Ahead(t, pc'), j)
    PROVE  Soon(t, n, m)'
<1>1. PICK j \in 0..n + 1 :
          /\ Comes(opt, pub, pc, Ahead(t, pc), j)
          /\ Waited(t) + j * Step(opt) <= (m + n + 1) * Step(opt)
  BY DEF Soon
<1> DEFINE k == j * Step(opt)
           e == (m + n + 1) * Step(opt)
<1>2. k \in Nat /\ e \in Nat /\ Waited(t) + k <= e /\ j \in Nat
  BY <1>1, NextNumbers, Numbers
<1> HIDE DEF k, e
<1>3. Waited(t)' + k <= e
  BY <1>2, StateNumbers, NextNumbers DEF Waited
<1> QED BY <1>1, <1>2, <1>3, NextNumbers DEF Soon, k, e

\* A cycle later, one that waits is a cycle nearer to its publication.
LEMMA SoonWake ==
    ASSUME IFresh, IRest, ISignal, IFresh', IRest', Wake,
           NEW n \in 1..Cap, NEW m \in 0..Cap, NEW t \in Topics, Soon(t, n, m)
    PROVE  Soon(t, n, m)'
<1>1. PICK j \in 0..n + 1 :
          /\ Comes(opt, pub, pc, Ahead(t, pc), j)
          /\ Waited(t) + j * Step(opt) <= (m + n + 1) * Step(opt)
  BY DEF Soon
<1>2. /\ pc = "idle" /\ pc' = "wake" /\ opt' = opt
      /\ heard' = [x \in Topics |-> Older(heard[x], Step(opt), Cap)]
      /\ pub' = Later(pub, Step(opt), opt.publish)
      /\ quiet' = Older(quiet, Step(opt), Cap)
  BY DEF Wake, Elapse
<1>3. Ahead(t, pc) = FALSE /\ Ahead(t, pc') = TRUE
  BY <1>2 DEF Ahead
<1>4. j \in Nat /\ n \in Nat /\ m \in Nat
  BY <1>1, StateNumbers
<1>5. /\ j >= 1 /\ j - 1 \in 0..n + 1
      /\ Comes(opt, pub', pc', Ahead(t, pc'), j - 1)
  <2>1. Comes(opt, pub, "idle", FALSE, j)
    BY <1>1, <1>2, <1>3
  <2>2. /\ j >= 1
        /\ Comes(opt, Later(pub, Step(opt), opt.publish), "wake", TRUE, j - 1)
    BY <1>4, <2>1, ComesAwake, StateNumbers DEF ISignal
  <2>3. Comes(opt, pub', pc', Ahead(t, pc'), j - 1)
    BY <1>2, <1>3, <2>2
  <2> QED BY <1>1, <1>4, <2>2, <2>3
<1> DEFINE k == (j - 1) * Step(opt)
           e == (m + n + 1) * Step(opt)
<1>6. k \in Nat /\ e \in Nat /\ j * Step(opt) = k + Step(opt)
  BY <1>4, <1>5, StateNumbers
<1> HIDE DEF k, e
<1>7. Waited(t)' <= Waited(t) + Step(opt)
  <2>1. /\ heard'[t] <= heard[t] + Step(opt)
        /\ quiet' <= quiet + Step(opt)
    BY <1>2, StateNumbers DEF Older
  <2>2. /\ heard[t] \in Nat /\ quiet \in Nat /\ Step(opt) \in Nat
        /\ heard'[t] \in Nat /\ quiet' \in Nat
    BY <1>2, StateNumbers, NextNumbers
  <2>3. Waited(t)' = IF heard'[t] < quiet' THEN heard'[t] ELSE quiet'
    BY DEF Waited
  <2> QED BY <2>1, <2>2, <2>3 DEF Waited
<1>8. Waited(t) + (k + Step(opt)) <= e
  BY <1>1, <1>6 DEF e
<1>9. Waited(t)' + k <= e
  BY <1>6, <1>7, <1>8, <1>2, StateNumbers, NextNumbers DEF Waited
<1> QED BY <1>2, <1>5, <1>9, NextNumbers DEF Soon, k, e

\* A publication tells the sensor, or has told it a few cycles ago.
LEMMA SoonTold ==
    ASSUME IFresh, IRest, ITold, ICycles, IFresh', IRest', opt' = opt,
           NEW n \in 1..Cap, NEW m \in 0..Cap, InTime(opt, n, m),
           NEW topics \in SUBSET Topics, Publish(topics), client = "up",
           NEW t \in topics \cap known
    PROVE  Soon(t, n, m)'
<1>1. /\ t \in Topics /\ m \in Nat /\ Step(opt) \in Nat /\ Half \in Nat
      /\ heard[t] \in Nat /\ last[t] \in Nat
  BY StateNumbers
<1>2. heard'[t] <= m * Step(opt)
  <2>1. CASE heard'[t] = 0
    <3>1. m * Step(opt) \in Nat
      BY <1>1
    <3> QED BY <2>1, <3>1
  <2>2. CASE last[t] < Half /\ heard'[t] = heard[t]
    <3>1. heard[t] < Half
      BY <1>1, <2>2 DEF ITold
    <3>2. PICK i \in Nat : heard[t] = i * Step(opt)
      BY <1>1, <3>1 DEF ICycles
    <3> QED BY <1>1, <2>2, <3>1, <3>2, HeldBack DEF InTime
  <2> QED BY <2>1, <2>2, PublishTells
<1> QED BY <1>1, <1>2, SoonNow

\* Every step keeps a sensor to be told in time; a fault is the excuse for
\* one that now has to wait for the publication after the next.
LEMMA SoonStep ==
    ASSUME IFresh, IRest, ISignal, ITold, ICycles, IFresh', IRest', [Next]_vars,
           NEW n \in 1..Cap, NEW m \in 0..Cap, InTime(opt, n, m), AllSoon(n, m)
    PROVE  AllSoon(n, m)'
<1> SUFFICES ASSUME client' = "up", NEW t \in (known' \cap carried') \ {"meter"}
             PROVE  Soon(t, n, m)'
  BY DEF AllSoon
<1>0. opt' = opt /\ t \in Topics /\ heard[t] \in Nat
  BY StepKinds, StateNumbers DEF IRest
<1>1. CASE quiet' = 0
  BY <1>0, <1>1, SoonNow
<1>2. ASSUME client = "up", t \in known \cap carried PROVE Soon(t, n, m)
  BY <1>2 DEF AllSoon
<1>3. CASE Wake
  BY <1>0, <1>2, <1>3, SoonWake DEF Wake
<1>4. ASSUME NEW jump \in BOOLEAN, NEW changed \in BOOLEAN, Fetches(jump, changed)
      PROVE  Soon(t, n, m)'
  <2>1. /\ pc = "wake" /\ pc' = IF Due(jump) THEN "publish" ELSE "skip"
        /\ UNCHANGED <<pub, heard, quiet, client, known, carried>>
    BY <1>4 DEF Fetches, periods, NoFault
  <2>2. \A j \in Nat : Comes(opt, pub, pc, Ahead(t, pc), j)
                       => Comes(opt, pub', pc', Ahead(t, pc'), j)
    <3>1. CASE Due(jump)
      BY <2>1, <3>1 DEF Comes, Ahead
    <3>2. CASE ~Due(jump)
      BY <2>1, <3>2 DEF Comes, Ahead, Due
    <3> QED BY <3>1, <3>2
  <2> QED BY <1>0, <1>2, <2>1, <2>2, SoonStill
<1>5. ASSUME NEW topics \in SUBSET Topics, Publish(topics), t \in carried,
             pub' = pub, quiet' = quiet, pc # "idle", pc' # "idle",
             t \in topics \/ (Ahead(t, pc) => Ahead(t, pc'))
      PROVE  Soon(t, n, m)'
  <2>1. client = "up" /\ t \in known /\ heard'[t] \in {0, heard[t]}
    BY <1>0, <1>5, PublishTells
  <2>2. CASE t \in topics
    BY <1>0, <1>5, <2>1, <2>2, SoonTold
  <2>3. CASE Ahead(t, pc) => Ahead(t, pc')
    <3>1. \A j \in Nat : Comes(opt, pub, pc, Ahead(t, pc), j)
                         => Comes(opt, pub', pc', Ahead(t, pc'), j)
      BY <1>5, <2>3 DEF Comes
    <3> QED BY <1>0, <1>2, <1>5, <2>1, <3>1, SoonStill
  <2> QED BY <1>5, <2>2, <2>3
<1>6. CASE Skip
  <2>1. /\ Publish(Meter) /\ Meter \in SUBSET Topics /\ pc = "skip" /\ pc' = "leave"
        /\ UNCHANGED <<pub, quiet, carried>>
    BY <1>6 DEF Skip, Meter, Topics, periods, NoFault
  <2> QED BY <1>5, <2>1 DEF Ahead
<1>7. CASE PublishSample
  <2>1. /\ Publish(Sampled \cap carried) /\ pc = "publish" /\ pc' = "detail"
        /\ UNCHANGED <<pub, quiet, carried>>
    BY <1>7 DEF PublishSample, periods, NoFault
  <2>2. t \in Sampled \cap carried \/ t = "cells"
    BY <1>0, <2>1 DEF Topics
  <2>3. Sampled \cap carried \in SUBSET Topics
    BY DEF Topics
  <2> QED BY <1>5, <2>1, <2>2, <2>3 DEF Ahead
<1>8. CASE Answered
  <2>1. /\ Publish({"cells"} \cup Meter) /\ {"cells"} \cup Meter \in SUBSET Topics
        /\ pc = "detail" /\ pc' \in {"discover", "leave"}
        /\ carried' = (carried \cap Sampled) \cup {"cells", "meter"}
        /\ UNCHANGED <<pub, quiet>>
    BY <1>8 DEF Answered, Details, Meter, Topics, periods, NoFault
  <2>2. client = "up" /\ t \in known /\ heard'[t] \in {0, heard[t]}
    BY <1>0, <2>1, PublishTells
  <2>3. CASE t = "cells"
    BY <1>0, <2>1, <2>2, <2>3, SoonTold
  <2>4. CASE t # "cells"
    <3>1. t \in carried
      BY <2>1, <2>4
    <3> QED BY <1>5, <2>1, <2>4, <3>1 DEF Ahead
  <2> QED BY <2>3, <2>4
<1>9. CASE Discover
  <2>1. /\ Announce(carried) /\ pc = "discover" /\ pc' \in {"again", "leave"}
        /\ UNCHANGED <<pub, quiet, carried>>
    BY <1>9 DEF Discover, periods, NoFault
  <2>2. CASE heard'[t] = 0
    <3>1. 0 <= m * Step(opt)
      <4>1. m \in Nat /\ Step(opt) \in Nat
        BY StateNumbers
      <4> QED BY <4>1
    <3> QED BY <1>0, <2>2, <3>1, SoonNow
  <2>3. CASE heard'[t] = heard[t] /\ t \in known
    <3>1. \A j \in Nat : Comes(opt, pub, pc, Ahead(t, pc), j)
                         => Comes(opt, pub', pc', Ahead(t, pc'), j)
      BY <2>1 DEF Comes, Ahead
    <3>2. client = "up" /\ t \in carried
      BY <2>1, AnnounceTells
    <3> QED BY <1>0, <1>2, <2>1, <2>3, <3>1, <3>2, SoonStill
  <2> QED BY <1>0, <2>1, <2>2, <2>3, AnnounceTells
<1>10. CASE Again
  <2>1. /\ Publish(Sampled \cap carried) /\ pc = "again" /\ pc' = "leave"
        /\ UNCHANGED <<pub, quiet, carried>> /\ Sampled \cap carried \in SUBSET Topics
    BY <1>10 DEF Again, periods, NoFault, Topics
  <2> QED BY <1>5, <2>1 DEF Ahead
<1>11. CASE Leave
  <2>1. /\ pc = "leave" /\ pc' = "idle" /\ pub' = SetTime(pub, opt.publish)
        /\ UNCHANGED <<client, known, heard, quiet, carried>>
    BY <1>11 DEF Leave, broker, NoFault
  <2>2. Ahead(t, pc) = FALSE /\ Ahead(t, pc') = FALSE
    BY <2>1 DEF Ahead
  <2>3. \A j \in Nat : Comes(opt, pub, pc, Ahead(t, pc), j)
                       => Comes(opt, pub', pc', Ahead(t, pc'), j)
    BY <2>1, <2>2, ComesSet, StateNumbers
  <2> QED BY <1>0, <1>2, <2>1, <2>3, SoonStill
<1>12. ASSUME UNCHANGED <<client, known, heard, quiet, carried, pub, pc>>
       PROVE  Soon(t, n, m)'
  BY <1>0, <1>2, <1>12, SoonStill
<1>13. CASE UNCHANGED vars \/ \E x \in Members : Update(x) \/ Revives(x)
  BY <1>12, <1>13 DEF Update, Revives, vars, broker, periods, NoFault
<1>14. CASE WakeLate \/ FetchRefused \/ FetchFails \/ SinkRaises \/ NotAnswered
  BY <1>1, <1>14 DEF WakeLate, FetchRefused, FetchFails, SinkRaises, NotAnswered, Fault
<1>15. CASE \/ LeaveFails \/ Drops \/ Reconnects \/ HubRestarts \/ Appears
            \/ \E x \in Members : Dies(x)
  BY <1>1, <1>15 DEF LeaveFails, Drops, Reconnects, HubRestarts, Appears, Dies, Fault
<1> QED
  BY <1>3, <1>4, <1>6, <1>7, <1>8, <1>9, <1>10, <1>11, <1>13, <1>14, <1>15
     DEF Next, Cycle

\* Initially nothing is known, and nothing was published.
LEMMA AliveInit ==
    ASSUME Init, IFresh, IRest
    PROVE  ISignal /\ ITold /\ ICycles /\ ISoon
<1>1. ISignal /\ ITold
  BY DEF Init, ISignal, ITold, Signal
<1>2. ICycles
  <2>1. 0 \in Nat /\ 0 = 0 * Step(opt)
    BY StateNumbers
  <2> QED BY <2>1 DEF Init, ICycles
<1>3. ISoon
  BY DEF Init, ISoon, AllSoon, Fits
<1> QED BY <1>1, <1>2, <1>3

\* Every step keeps what it takes for the sensors to be told in time.
LEMMA AliveStep ==
    ASSUME IFresh, IRest, ISignal, ITold, ICycles, ISoon, IFresh', IRest', [Next]_vars
    PROVE  ISignal' /\ ITold' /\ ICycles' /\ ISoon'
<1>1. ISignal' /\ ITold' /\ ICycles'
  BY SignalStep, ToldStep, CyclesStep
<1>2. ISoon'
  <2>1. opt' = opt /\ Fits(opt)' = Fits(opt)
    BY StepKinds DEF Fits, InTime, Step, Expiry, Larger
  <2>2. \A n, m : InTime(opt, n, m)' = InTime(opt, n, m)
    BY <2>1 DEF InTime, Step, Expiry, Larger
  <2> QED BY <2>1, <2>2, SoonStep DEF ISoon
<1> QED BY <1>1, <1>2

\* While options fit, no sensor turns unavailable that its device could have
\* kept alive, whatever else goes on, for any options, periods and number of
\* faults (mqtt_util.py, mqtt_single_out; sampling.py, PeriodicBoolSignal).
THEOREM AliveAlways == Spec => [](Fits(opt) => KeepsAlive)
<1> DEFINE IInv == IFresh /\ IRest /\ ISignal /\ ITold /\ ICycles /\ ISoon
<1>1. Init => IInv
  BY AliveInit, FreshInit, RestInit
<1>2. IInv /\ [Next]_vars => IInv'
  <2> SUFFICES ASSUME IInv, [Next]_vars PROVE IInv'
    OBVIOUS
  <2>1. IFresh' /\ IRest'
    BY FreshStep, RestStep
  <2> QED BY <2>1, AliveStep
<1>3. IInv => (Fits(opt) => KeepsAlive)
  BY SoonAlive
<1> QED BY <1>1, <1>2, <1>3, PTL DEF Spec

-----------------------------------------------------------------------------
(* Outages                                                                 *)

\* By how much a sample is older than one may be, or how long ago the last
\* fault was: the excuse of an older one.
Stale(age) ==
    IF age - Tolerated(opt) < quiet THEN age - Tolerated(opt) ELSE quiet

\* The samples in the downsampler will be popped before they are stale by more
\* than n + 1 cycles, ...
PopSoon(n) ==
    window # {} =>
        \E j \in 0..n + 1 :
            /\ Comes(opt, pub, pc, Ahead("value", pc), j)
            /\ \A m \in Members :
                   Stale(oldest[m]) + j * Step(opt) <= (n + 1) * Step(opt)

\* ... those that were popped are not, until the cycle has published them, ...
Popped(n) ==
    pc \in {"detail", "discover", "again"} =>
        \A m \in Members : Stale(oldest[m]) <= (n + 1) * Step(opt)

\* ... and those in the average shown were not when it was told.
Blends(n) ==
    "value" \in shown =>
        \A m \in Members :
            Stale(blended[m]) <= (n + 1) * Step(opt) + heard["value"]

\* A sample that is popped alone was fetched in this cycle.
Alone ==
    pc = "publish" /\ Cardinality(window) = 1 =>
        \A m \in Members : oldest[m] <= Tolerated(opt)

\* A publication comes every n cycles.
Every(n) == n \in 1..Cap /\ n * Step(opt) >= opt.publish

IOutage ==
    /\ "value" \in carried /\ Alone
    /\ \A n \in Nat : Every(n) => PopSoon(n) /\ Popped(n) /\ Blends(n)

\* The ages are numbers, and so is how stale they are.
LEMMA StaleNumbers ==
    ASSUME IFresh, IRest, NEW m \in Members
    PROVE  /\ oldest[m] \in Int /\ blended[m] \in Int
           /\ Stale(oldest[m]) \in Int /\ Stale(blended[m]) \in Int
           /\ Stale(oldest[m]) <= quiet /\ Stale(blended[m]) <= quiet
           /\ heard["value"] \in 0..Cap /\ quiet \in 0..Cap
<1>1. /\ Tolerated(opt) \in Nat /\ quiet \in 0..Cap /\ Cap \in Nat
      /\ heard["value"] \in 0..Cap
  BY ToleratedFacts, StateNumbers DEF IFresh, Topics, Sampled
<1>2. oldest[m] \in -1..2 * Cap /\ blended[m] \in -1..2 * Cap
  BY DEF IFresh
<1> QED BY <1>1, <1>2 DEF Stale

\* A fault excuses what is old, and so does that nothing in the downsampler is.
LEMMA PopSoonNow ==
    ASSUME IFresh', IRest', opt' = opt, NEW n \in Nat, Every(n),
           quiet' = 0 \/ \A m \in Members : oldest'[m] <= Tolerated(opt)
    PROVE  PopSoon(n)'
<1>1. n + 1 \in 0..n + 1 /\ Step(opt) \in Nat
  BY NextNumbers
<1>2. Comes(opt, pub', pc', Ahead("value", pc'), n + 1)
  BY NextNumbers, ComesAtLast DEF Every
<1>3. Tolerated(opt)' = Tolerated(opt)
  BY DEF Tolerated, Expiry, MinExpiry, Larger
<1>4. ASSUME NEW m \in Members
      PROVE  Stale(oldest[m])' + (n + 1) * Step(opt) <= (n + 1) * Step(opt)
  <2>1. Tolerated(opt) \in Nat /\ quiet' \in Nat /\ oldest'[m] \in -1..2 * Cap
    BY NextNumbers, ToleratedFacts DEF IFresh
  <2>2. Stale(oldest[m])' =
          IF oldest'[m] - Tolerated(opt) < quiet' THEN oldest'[m] - Tolerated(opt)
          ELSE quiet'
    BY <1>3 DEF Stale
  <2>3. Cap \in Nat
    BY Numbers, NextNumbers
  <2>4. Stale(oldest[m])' \in Int /\ Stale(oldest[m])' <= 0
    BY <2>1, <2>2, <2>3
  <2> DEFINE k == (n + 1) * Step(opt)
  <2>5. k \in Nat
    BY <1>1
  <2> HIDE DEF k
  <2>6. Stale(oldest[m])' + k <= k
    BY <2>4, <2>5
  <2> QED BY <2>6 DEF k
<1>5. Step(opt)' = Step(opt)
  BY DEF Step
<1> QED BY <1>1, <1>2, <1>4, <1>5 DEF PopSoon

\* What a step leaves as old as it was, and as soon to be published.
LEMMA PopSoonStill ==
    ASSUME UNCHANGED <<opt, oldest, quiet>>, window' \in {window, {}},
           NEW n \in Nat, PopSoon(n),
           \A j \in Nat : Comes(opt, pub, pc, Ahead("value", pc), j)
                          => Comes(opt, pub', pc', Ahead("value", pc'), j)
    PROVE  PopSoon(n)'
<1>1. Step(opt)' = Step(opt) /\ \A m : Stale(oldest[m])' = Stale(oldest[m])
  BY DEF Step, Stale, Tolerated, Expiry, MinExpiry, Larger
<1> QED BY <1>1 DEF PopSoon

\* Time passes for samples alike; it may be counted no further.
LEMMA StaleLater ==
    ASSUME IFresh, IRest, IFresh', IRest', Wake, NEW m \in Members
    PROVE  /\ Stale(oldest[m])' \in Int
           /\ Stale(oldest[m])' <= Stale(oldest[m]) + Step(opt)
           /\ Stale(blended[m])' \in Int
           /\ Stale(blended[m])' <= Stale(blended[m]) + Step(opt)
           /\ Stale(blended[m])' <= Cap
<1>1. /\ opt' = opt /\ quiet' = Older(quiet, Step(opt), Cap)
      /\ oldest' = Aging(oldest, Step(opt), 2 * Cap)
      /\ blended' = Aging(blended, Step(opt), 2 * Cap)
  BY DEF Wake, Elapse
<1>2. /\ Tolerated(opt) \in Nat /\ Step(opt) \in Nat /\ quiet \in 0..Cap /\ Cap \in Nat
      /\ Tolerated(opt)' = Tolerated(opt)
  BY <1>1, ToleratedFacts, StateNumbers DEF IFresh, Tolerated, Expiry, MinExpiry, Larger
<1>3. oldest[m] \in -1..2 * Cap /\ blended[m] \in -1..2 * Cap
  BY DEF IFresh
<1>4. /\ oldest'[m] \in Int /\ oldest'[m] <= oldest[m] + Step(opt)
      /\ blended'[m] \in Int /\ blended'[m] <= blended[m] + Step(opt)
  BY <1>1, <1>2, <1>3 DEF Aging, Older, NoSample
<1>5. quiet' \in 0..Cap /\ quiet' <= quiet + Step(opt)
  BY <1>1, <1>2 DEF Older
<1>6. /\ Stale(oldest[m])' =
            IF oldest'[m] - Tolerated(opt) < quiet' THEN oldest'[m] - Tolerated(opt)
            ELSE quiet'
      /\ Stale(blended[m])' =
            IF blended'[m] - Tolerated(opt) < quiet' THEN blended'[m] - Tolerated(opt)
            ELSE quiet'
  BY <1>2 DEF Stale
<1> QED BY <1>2, <1>3, <1>4, <1>5, <1>6 DEF Stale

\* A cycle later the downsampler is a cycle nearer to its pop().
LEMMA PopSoonWake ==
    ASSUME IFresh, IRest, ISignal, IFresh', IRest', Wake, NEW n \in Nat, PopSoon(n)
    PROVE  PopSoon(n)'
<1> SUFFICES ASSUME window # {} PROVE PopSoon(n)'
  BY DEF Wake, PopSoon
<1>1. PICK j \in 0..n + 1 :
          /\ Comes(opt, pub, pc, Ahead("value", pc), j)
          /\ \A m \in Members :
                 Stale(oldest[m]) + j * Step(opt) <= (n + 1) * Step(opt)
  BY DEF PopSoon
<1>2. /\ pc = "idle" /\ pc' = "wake" /\ opt' = opt /\ Step(opt)' = Step(opt)
      /\ pub' = Later(pub, Step(opt), opt.publish)
  BY DEF Wake, Elapse, Step
<1>3. Ahead("value", pc) = FALSE /\ Ahead("value", pc') = TRUE
  BY <1>2 DEF Ahead
<1>4. /\ j \in Nat /\ j >= 1 /\ j - 1 \in 0..n + 1
      /\ Comes(opt, pub', pc', Ahead("value", pc'), j - 1)
  <2>0. j \in Nat
    OBVIOUS
  <2>1. Comes(opt, pub, "idle", FALSE, j)
    BY <1>1, <1>2, <1>3
  <2>2. /\ j >= 1
        /\ Comes(opt, Later(pub, Step(opt), opt.publish), "wake", TRUE, j - 1)
    BY <2>0, <2>1, ComesAwake, StateNumbers DEF ISignal
  <2>3. Comes(opt, pub', pc', Ahead("value", pc'), j - 1)
    BY <1>2, <1>3, <2>2
  <2> QED BY <2>0, <2>2, <2>3
<1>5. ASSUME NEW m \in Members
      PROVE  Stale(oldest[m])' + (j - 1) * Step(opt) <= (n + 1) * Step(opt)
  <2> DEFINE k == (j - 1) * Step(opt)
             e == (n + 1) * Step(opt)
  <2>1. k \in Nat /\ e \in Nat /\ j * Step(opt) = k + Step(opt) /\ Step(opt) \in Nat
    BY <1>4, StateNumbers
  <2>2. Stale(oldest[m]) + j * Step(opt) <= e
    BY <1>1
  <2> HIDE DEF k, e
  <2>3. Stale(oldest[m])' + k <= e
    BY <2>1, <2>2, StaleLater, StaleNumbers
  <2> QED BY <2>3 DEF k, e
<1> QED BY <1>2, <1>4, <1>5 DEF PopSoon

\* Every step keeps the downsampler to be popped soon.
LEMMA PopSoonStep ==
    ASSUME IFresh, IRest, ISignal, IWindow, IFresh', IRest', [Next]_vars, Alone,
           NEW n \in Nat, Every(n), PopSoon(n)
    PROVE  PopSoon(n)'
<1>0. opt' = opt
  BY StepKinds
<1>1. CASE quiet' = 0
  BY <1>0, <1>1, PopSoonNow
<1>2. CASE Wake
  BY <1>2, PopSoonWake
<1>3. ASSUME NEW jump \in BOOLEAN, NEW changed \in BOOLEAN, Fetches(jump, changed)
      PROVE  PopSoon(n)'
  <2>1. /\ pc = "wake" /\ pc' = IF Due(jump) THEN "publish" ELSE "skip"
        /\ oldest' = IF window = {} THEN Fetched ELSE oldest
        /\ UNCHANGED <<pub, quiet, ages>>
    BY <1>3 DEF Fetches, periods, group, NoFault
  <2>2. CASE window = {}
    <3>1. Recent
      BY <1>3, FetchedRecent DEF Fetches
    <3>2. \A m \in Members : oldest'[m] <= Tolerated(opt)
      BY <2>1, <2>2, <3>1, FetchedType
    <3> QED BY <1>0, <3>2, PopSoonNow
  <2>3. CASE window # {}
    <3>1. \A j \in Nat : Comes(opt, pub, pc, Ahead("value", pc), j)
                         => Comes(opt, pub', pc', Ahead("value", pc'), j)
      <4>1. CASE Due(jump)
        BY <2>1, <4>1 DEF Comes, Ahead
      <4>2. CASE ~Due(jump)
        BY <2>1, <4>2 DEF Comes, Ahead, Due
      <4> QED BY <4>1, <4>2
    <3>2. PICK j \in 0..n + 1 :
              /\ Comes(opt, pub, pc, Ahead("value", pc), j)
              /\ \A m \in Members :
                     Stale(oldest[m]) + j * Step(opt) <= (n + 1) * Step(opt)
      BY <2>3 DEF PopSoon
    <3>3. \A m : Stale(oldest[m])' = Stale(oldest[m])
      BY <1>0, <2>1, <2>3 DEF Stale, Tolerated, Expiry, MinExpiry, Larger
    <3>4. Step(opt)' = Step(opt)
      BY <1>0 DEF Step
    <3>5. j \in Nat
      OBVIOUS
    <3> QED BY <1>0, <3>1, <3>2, <3>3, <3>4, <3>5 DEF PopSoon
  <2> QED BY <2>2, <2>3
<1>4. CASE PublishSample
  <2>1. /\ pc = "publish" /\ oldest' = oldest
        /\ window' = IF Cardinality(window) = 1 THEN window ELSE {}
    BY <1>4 DEF PublishSample, Pop
  <2>2. CASE Cardinality(window) = 1
    BY <1>0, <2>1, <2>2, PopSoonNow DEF Alone
  <2>3. CASE Cardinality(window) # 1
    BY <2>1, <2>3 DEF PopSoon
  <2> QED BY <2>2, <2>3
<1>5. CASE Leave
  <2>1. /\ pc = "leave" /\ pc' = "idle" /\ pub' = SetTime(pub, opt.publish)
        /\ UNCHANGED <<oldest, quiet, window>>
    BY <1>5 DEF Leave, samples, NoFault
  <2>2. Ahead("value", pc) = FALSE /\ Ahead("value", pc') = FALSE
    BY <2>1 DEF Ahead
  <2>3. \A j \in Nat : Comes(opt, pub, pc, Ahead("value", pc), j)
                       => Comes(opt, pub', pc', Ahead("value", pc'), j)
    BY <2>1, <2>2, ComesSet, StateNumbers
  <2> QED BY <1>0, <2>1, <2>3, PopSoonStill
<1>6. ASSUME UNCHANGED <<oldest, quiet, window, pub>>,
             pc' = pc \/ pc \in {"skip", "detail", "discover", "again"},
             pc' \in {"detail", "discover", "again", "leave"} \/ pc' = pc
      PROVE  PopSoon(n)'
  <2>1. \A j \in Nat : Comes(opt, pub, pc, Ahead("value", pc), j)
                       => Comes(opt, pub', pc', Ahead("value", pc'), j)
    <3>1. CASE pc' = pc
      BY <1>6, <3>1
    <3>2. CASE pc' # pc
      <4>1. pc # "idle" /\ pc' # "idle" /\ ~Ahead("value", pc)
        BY <1>6, <3>2 DEF Ahead
      <4> QED BY <1>6, <4>1 DEF Comes
    <3> QED BY <3>1, <3>2
  <2> QED BY <1>0, <1>6, <2>1, PopSoonStill
<1>7. CASE Skip \/ Answered \/ Discover \/ Again
  <2>1. /\ UNCHANGED <<oldest, quiet, window, pub>>
        /\ pc \in {"skip", "detail", "discover", "again"}
        /\ pc' \in {"detail", "discover", "again", "leave"}
    BY <1>7 DEF Skip, Answered, Details, Discover, Again, samples, periods, NoFault
  <2> QED BY <1>6, <2>1
<1>8. CASE UNCHANGED vars \/ \E x \in Members : Update(x) \/ Revives(x)
  BY <1>6, <1>8 DEF Update, Revives, vars, periods, samples, NoFault
<1>9. CASE WakeLate \/ FetchRefused \/ FetchFails \/ SinkRaises \/ NotAnswered
  BY <1>1, <1>9 DEF WakeLate, FetchRefused, FetchFails, SinkRaises, NotAnswered, Fault
<1>10. CASE \/ LeaveFails \/ Drops \/ Reconnects \/ HubRestarts \/ Appears
            \/ \E x \in Members : Dies(x)
  BY <1>1, <1>10 DEF LeaveFails, Drops, Reconnects, HubRestarts, Appears, Dies, Fault
<1> QED
  BY <1>2, <1>3, <1>4, <1>5, <1>7, <1>8, <1>9, <1>10 DEF Next, Cycle

\* A cycle that published has popped what was not stale.
LEMMA PoppedStep ==
    ASSUME IFresh, IRest, IWindow, IFresh', IRest', [Next]_vars,
           NEW n \in Nat, PopSoon(n), Popped(n)
    PROVE  Popped(n)'
<1>0. opt' = opt /\ Step(opt) \in Nat
  BY StepKinds, StateNumbers
<1>1. ASSUME oldest' = oldest, quiet' \in {0, quiet},
             pc' \in {"detail", "discover", "again"} =>
                 \A m \in Members : Stale(oldest[m]) <= (n + 1) * Step(opt)
      PROVE  Popped(n)'
  <2> SUFFICES ASSUME pc' \in {"detail", "discover", "again"}, NEW m \in Members
               PROVE  Stale(oldest[m])' <= (n + 1) * Step(opt)'
    BY DEF Popped
  <2> DEFINE k == (n + 1) * Step(opt)
  <2>1. k \in Nat /\ Step(opt)' = Step(opt)
    BY <1>0 DEF Step
  <2>2. Stale(oldest[m])' = IF quiet' = quiet THEN Stale(oldest[m])
                            ELSE IF oldest[m] - Tolerated(opt) < 0
                                 THEN oldest[m] - Tolerated(opt) ELSE 0
    BY <1>0, <1>1 DEF Stale, Tolerated, Expiry, MinExpiry, Larger
  <2>3. oldest[m] \in Int /\ Tolerated(opt) \in Nat
    BY StaleNumbers, ToleratedFacts DEF IFresh
  <2>4. Stale(oldest[m]) <= k
    BY <1>1
  <2> HIDE DEF k
  <2>5. Stale(oldest[m])' <= k
    BY <2>1, <2>2, <2>3, <2>4
  <2> QED BY <2>1, <2>5 DEF k
<1>2. CASE PublishSample
  <2>1. /\ pc = "publish" /\ oldest' = oldest /\ quiet' = quiet
    BY <1>2 DEF PublishSample, NoFault
  <2>2. window # {}
    <3>1. since \in Nat /\ since > 0 /\ 0 \in 0..since - 1 /\ 0 \in 0..since
      BY <2>1 DEF IWindow
    <3> QED BY <3>1 DEF IWindow
  <2>3. PICK j \in 0..n + 1 : \A m \in Members :
            Stale(oldest[m]) + j * Step(opt) <= (n + 1) * Step(opt)
    BY <2>2 DEF PopSoon
  <2>4. ASSUME NEW m \in Members PROVE Stale(oldest[m]) <= (n + 1) * Step(opt)
    <3> DEFINE k == (n + 1) * Step(opt)
               i == j * Step(opt)
    <3>1. i \in Nat /\ k \in Nat /\ Stale(oldest[m]) + i <= k
      BY <1>0, <2>3
    <3> HIDE DEF i, k
    <3>2. Stale(oldest[m]) <= k
      BY <3>1, StaleNumbers
    <3> QED BY <3>2 DEF k
  <2> QED BY <1>1, <2>1, <2>4
<1>3. ASSUME NEW answered, Details(answered), quiet' \in {0, quiet} PROVE Popped(n)'
  BY <1>1, <1>3 DEF Details, samples, Popped
<1>4. CASE Answered \/ NotAnswered
  BY <1>3, <1>4 DEF Answered, NotAnswered, Fault, NoFault
<1>5. CASE Discover \/ Again \/ Skip \/ Leave
  BY <1>1, <1>5 DEF Discover, Again, Skip, Leave, samples, Popped, NoFault
<1>6. CASE Wake \/ WakeLate \/ FetchFails \/ FetchRefused \/ SinkRaises \/ LeaveFails
  BY <1>6 DEF Wake, WakeLate, FetchFails, FetchRefused, SinkRaises, LeaveFails, Popped
<1>7. CASE \E jump, changed \in BOOLEAN : Fetches(jump, changed)
  BY <1>7 DEF Fetches, Popped
<1>8. CASE \/ UNCHANGED vars \/ Drops \/ Reconnects \/ HubRestarts \/ Appears
           \/ \E x \in Members : Update(x) \/ Dies(x) \/ Revives(x)
  <2>1. oldest' = oldest /\ pc' = pc /\ quiet' \in {0, quiet}
    BY <1>8 DEF Drops, Reconnects, HubRestarts, Appears, Update, Dies, Revives,
                vars, samples, Fault, NoFault
  <2> QED BY <1>1, <2>1 DEF Popped
<1> QED
  BY <1>2, <1>4, <1>5, <1>6, <1>7, <1>8 DEF Next, Cycle

\* A publication tells the value of what was popped, or leaves it as it was.
LEMMA ValueTold ==
    ASSUME NEW topics, Publish(topics)
    PROVE  \/ /\ "value" \in topics /\ heard'["value"] = 0 /\ blended' = oldest
           \/ /\ heard'["value"] = heard["value"] /\ blended' = blended
              /\ "value" \in shown' => "value" \in shown
<1> DEFINE out == IF client = "up" THEN {t \in topics : last[t] >= Half} ELSE {}
<1>1. /\ heard' = [t \in Topics |-> IF t \in out \cap known THEN 0 ELSE heard[t]]
      /\ shown' = shown \cup (out \cap known)
      /\ blended' = IF "value" \in out \cap known THEN oldest ELSE blended
  BY DEF Publish
<1>2. out \subseteq topics /\ "value" \in Topics
  BY DEF Topics, Sampled
<1> HIDE DEF out
<1> QED BY <1>1, <1>2

\* Every step keeps the average shown of samples that were not stale when it
\* was told.
LEMMA BlendsStep ==
    ASSUME IFresh, IRest, IFresh', IRest', [Next]_vars,
           NEW n \in Nat, Popped(n), Popped(n)', Blends(n)
    PROVE  Blends(n)'
<1> DEFINE k == (n + 1) * Step(opt)
<1>0. opt' = opt /\ Step(opt) \in Nat /\ k \in Nat /\ Step(opt)' = Step(opt)
  BY StepKinds, StateNumbers DEF Step
<1>1. ASSUME \A m \in Members : "value" \in shown' =>
                 Stale(blended[m])' <= k + heard'["value"]
      PROVE  Blends(n)'
  BY <1>0, <1>1 DEF Blends
<1>2. \A m \in Members : Stale(blended[m]) \in Int /\ Stale(oldest[m]) \in Int
  BY StaleNumbers
<1>3. heard["value"] \in 0..Cap /\ heard'["value"] \in 0..Cap /\ Cap \in Nat
  BY Numbers DEF IFresh, Topics, Sampled
<1>4. "value" \in shown => \A m \in Members : Stale(blended[m]) <= k + heard["value"]
  BY DEF Blends
<1>5. pc \in {"detail", "discover", "again"} =>
          \A m \in Members : Stale(oldest[m]) <= k
  BY DEF Popped
<1>6. pc' \in {"detail", "discover", "again"} =>
          \A m \in Members : Stale(oldest[m])' <= k
  BY <1>0 DEF Popped
<1> HIDE DEF k
<1>7. CASE quiet' = 0
  <2>1. ASSUME NEW m \in Members PROVE Stale(blended[m])' <= k + heard'["value"]
    <3>1. blended'[m] \in -1..2 * Cap /\ Tolerated(opt)' \in Nat
      BY <1>0, ToleratedFacts DEF IFresh
    <3>2. Stale(blended[m])' = IF blended'[m] - Tolerated(opt)' < quiet'
                               THEN blended'[m] - Tolerated(opt)' ELSE quiet'
      BY DEF Stale
    <3>3. Stale(blended[m])' <= 0 /\ Stale(blended[m])' \in Int
      BY <1>3, <1>7, <3>1, <3>2
    <3> QED BY <1>0, <1>3, <3>3
  <2> QED BY <1>1, <2>1
<1>8. CASE Wake
  <2>1. /\ shown' = shown
        /\ heard' = [x \in Topics |-> Older(heard[x], Step(opt), Cap)]
    BY <1>8 DEF Wake, Elapse
  <2>2. heard'["value"] = Cap \/ heard'["value"] = heard["value"] + Step(opt)
    BY <2>1 DEF Older, Topics, Sampled
  <2>3. ASSUME NEW m \in Members, "value" \in shown'
        PROVE  Stale(blended[m])' <= k + heard'["value"]
    <3>1. /\ Stale(blended[m])' <= Stale(blended[m]) + Step(opt)
          /\ Stale(blended[m])' \in Int /\ Stale(blended[m])' <= Cap
      BY <1>8, StaleLater
    <3>2. Stale(blended[m]) <= k + heard["value"] /\ Stale(blended[m]) \in Int
      BY <1>2, <1>4, <2>1, <2>3
    <3> QED BY <1>0, <1>3, <2>2, <3>1, <3>2
  <2> QED BY <1>1, <2>3
<1>9. ASSUME quiet' = quiet, blended' = blended, "value" \in shown' => "value" \in shown,
             "value" \in shown => heard'["value"] = heard["value"]
      PROVE  Blends(n)'
  <2>1. \A m \in Members : Stale(blended[m])' = Stale(blended[m])
    BY <1>0, <1>9 DEF Stale, Tolerated, Expiry, MinExpiry, Larger
  <2> QED BY <1>1, <1>4, <1>9, <2>1
<1>10. ASSUME NEW topics, Publish(topics), quiet' = quiet,
              "value" \in topics => \A m \in Members : Stale(oldest[m]) <= k
       PROVE  Blends(n)'
  <2>1. CASE "value" \in topics /\ heard'["value"] = 0 /\ blended' = oldest
    <3>1. \A m \in Members : Stale(blended[m])' = Stale(oldest[m])
      BY <1>0, <1>10, <2>1 DEF Stale, Tolerated, Expiry, MinExpiry, Larger
    <3>2. \A m \in Members : Stale(blended[m])' <= k + heard'["value"]
      BY <1>0, <1>2, <1>10, <2>1, <3>1
    <3> QED BY <1>1, <3>2
  <2>2. CASE /\ heard'["value"] = heard["value"] /\ blended' = blended
             /\ "value" \in shown' => "value" \in shown
    BY <1>9, <1>10, <2>2
  <2> QED BY <1>10, <2>1, <2>2, ValueTold
<1>11. CASE PublishSample
  <2>1. /\ Publish(Sampled \cap carried) /\ pc' = "detail"
        /\ UNCHANGED <<quiet, oldest>>
    BY <1>11 DEF PublishSample, NoFault
  <2>2. \A m \in Members : Stale(oldest[m])' = Stale(oldest[m])
    BY <1>0, <2>1 DEF Stale, Tolerated, Expiry, MinExpiry, Larger
  <2> QED BY <1>6, <1>10, <2>1, <2>2
<1>12. CASE Again
  BY <1>5, <1>10, <1>12 DEF Again, NoFault
<1>13. CASE Skip \/ Answered
  <2>1. \E topics : Publish(topics) /\ "value" \notin topics
    <3>1. "value" \notin Meter /\ "value" \notin {"cells"} \cup Meter
      BY DEF Meter
    <3> QED BY <1>13, <3>1 DEF Skip, Answered, Details
  <2>2. quiet' = quiet
    BY <1>13 DEF Skip, Answered, NoFault
  <2> QED BY <1>10, <2>1, <2>2
<1>14. CASE Discover
  <2>1. /\ shown' = shown /\ blended' = blended /\ quiet' = quiet
        /\ "value" \in shown => heard'["value"] = heard["value"]
    BY <1>14 DEF Discover, Announce, NoFault, IFresh, Topics, Sampled
  <2> QED BY <1>9, <2>1
<1>15. CASE \/ UNCHANGED vars \/ Leave \/ \E jump, changed \in BOOLEAN : Fetches(jump, changed)
            \/ \E x \in Members : Update(x) \/ Revives(x)
  <2>1. UNCHANGED <<shown, blended, quiet, heard>>
    BY <1>15 DEF vars, Leave, Fetches, Update, Revives, broker, NoFault
  <2> QED BY <1>9, <2>1
<1>16. CASE WakeLate \/ FetchRefused \/ FetchFails \/ SinkRaises \/ NotAnswered
  BY <1>7, <1>16 DEF WakeLate, FetchRefused, FetchFails, SinkRaises, NotAnswered, Fault
<1>17. CASE \/ LeaveFails \/ Drops \/ Reconnects \/ HubRestarts \/ Appears
            \/ \E x \in Members : Dies(x)
  BY <1>7, <1>17 DEF LeaveFails, Drops, Reconnects, HubRestarts, Appears, Dies, Fault
<1> QED
  BY <1>8, <1>11, <1>12, <1>13, <1>14, <1>15, <1>16, <1>17 DEF Next, Cycle

\* Every step keeps the value carried, and a sample that is popped alone new.
LEMMA AloneStep ==
    ASSUME IFresh, IWindow, IWindow', [Next]_vars, "value" \in carried, Alone
    PROVE  "value" \in carried' /\ Alone'
<1>0. ASSUME carried' = carried, pc' # "publish" PROVE "value" \in carried' /\ Alone'
  BY <1>0 DEF Alone
<1>1. ASSUME NEW jump \in BOOLEAN, NEW changed \in BOOLEAN, Fetches(jump, changed)
      PROVE  "value" \in carried' /\ Alone'
  <2>1. /\ window' = {a + 1 : a \in window} \cup {0} /\ ~Expired
        /\ oldest' = IF window = {} THEN Fetched ELSE oldest
        /\ UNCHANGED <<opt, carried>>
    BY <1>1 DEF Fetches
  <2>2. ASSUME Cardinality(window') = 1 PROVE window = {}
    <3>1. PICK i \in Nat : window' = 0..i
      <4>1. 0 \in window' /\ since' \in Nat
        BY <2>1 DEF IWindow
      <4>2. CASE window' = 0..since'
        BY <4>1, <4>2
      <4>3. CASE window' = 0..since' - 1
        <5>1. 0 \in 0..since' - 1
          BY <4>1, <4>3, Zenon
        <5>2. ASSUME NEW k \in Nat, 0 \in 0..k - 1 PROVE k - 1 \in Nat
          BY <5>2
        <5>3. since' - 1 \in Nat
          BY <4>1, <5>1, <5>2
        <5> QED BY <4>3, <5>3
      <4> QED BY <4>2, <4>3 DEF IWindow
    <3>2. window' = 0..0
      BY <2>2, <3>1, SingleSample
    <3>3. ASSUME NEW a \in window PROVE FALSE
      <4>1. a + 1 \in 0..0
        BY <2>1, <3>2
      <4>2. a \in 0..since - 1 \/ a \in 0..since
        BY DEF IWindow
      <4>3. a \in Nat
        BY <4>2 DEF IWindow
      <4> QED BY <4>1, <4>3
    <3> QED BY <3>3
  <2>3. \A m \in Members : Fetched[m] <= Tolerated(opt)
    BY <2>1, FetchedRecent, FetchedType
  <2>4. Tolerated(opt)' = Tolerated(opt)
    BY <2>1 DEF Tolerated, Expiry, MinExpiry, Larger
  <2> QED BY <2>1, <2>2, <2>3, <2>4 DEF Alone
<1>2. CASE Wake \/ WakeLate \/ FetchFails \/ FetchRefused \/ SinkRaises \/ LeaveFails
  BY <1>0, <1>2 DEF Wake, WakeLate, FetchFails, FetchRefused, SinkRaises, LeaveFails
<1>3. CASE Skip \/ PublishSample \/ Discover \/ Again \/ Leave
  BY <1>0, <1>3 DEF Skip, PublishSample, Discover, Again, Leave
<1>4. CASE Answered \/ NotAnswered
  BY <1>4 DEF Answered, NotAnswered, Details, Alone, Sampled
<1>5. CASE \/ UNCHANGED vars \/ Drops \/ Reconnects \/ HubRestarts \/ Appears
           \/ \E x \in Members : Update(x) \/ Dies(x) \/ Revives(x)
  <2>1. UNCHANGED <<opt, pc, window, oldest>> /\ "value" \in carried'
    BY <1>5 DEF Drops, Reconnects, HubRestarts, Appears, Update, Dies, Revives,
                vars, samples
  <2> QED BY <2>1 DEF Alone, Tolerated, Expiry, MinExpiry, Larger
<1> QED
  BY <1>1, <1>2, <1>3, <1>4, <1>5 DEF Next, Cycle

\* After an outage of any length, of the device, a member or the broker, and
\* for any options that fit: once nothing was wrong for twice the expiry, no
\* sample in the average a sensor shows is older than that and the age a
\* sample may have (sampling.py, Downsampler and SampleExpiredError).
THEOREM OutagesForgotten == Spec => [](Fits(opt) => OutageForgotten)
<1> DEFINE IInv == /\ IFresh /\ IRest /\ ISignal /\ ITold /\ ICycles /\ ISoon
                   /\ IWindow /\ IOutage
<1>1. Init => IInv
  <2> SUFFICES ASSUME Init PROVE IInv
    OBVIOUS
  <2>1. IFresh /\ IRest /\ IWindow
    BY FreshInit, RestInit, WindowInit
  <2>2. IOutage
    BY DEF Init, IOutage, Alone, PopSoon, Popped, Blends, Topics, Sampled
  <2> QED BY <2>1, <2>2, AliveInit
<1>2. IInv /\ [Next]_vars => IInv'
  <2> SUFFICES ASSUME IInv, [Next]_vars PROVE IInv'
    OBVIOUS
  <2>1. IFresh' /\ IRest' /\ IWindow'
    BY FreshStep, RestStep, WindowStep
  <2>2. opt' = opt
    BY StepKinds
  <2>3. ISignal' /\ ITold' /\ ICycles' /\ ISoon'
    BY <2>1, AliveStep
  <2>4. "value" \in carried' /\ Alone'
    BY <2>1, AloneStep DEF IOutage
  <2>5. ASSUME NEW n \in Nat, Every(n)' PROVE PopSoon(n)' /\ Popped(n)' /\ Blends(n)'
    <3>1. Every(n)
      BY <2>2, <2>5 DEF Every, Step
    <3>2. PopSoon(n) /\ Popped(n) /\ Blends(n)
      BY <3>1 DEF IOutage
    <3>3. PopSoon(n)' /\ Popped(n)'
      BY <2>1, <3>1, <3>2, PopSoonStep, PoppedStep DEF IOutage
    <3> QED BY <2>1, <3>2, <3>3, BlendsStep
  <2>6. IOutage'
    BY <2>4, <2>5 DEF IOutage
  <2> QED BY <2>1, <2>3, <2>6
<1>3. IInv => (Fits(opt) => OutageForgotten)
  <2> SUFFICES ASSUME IInv, Fits(opt), opt.expires > 0, client = "up",
                      "value" \in shown, quiet > 2 * Expiry(opt), NEW x \in Members
               PROVE  blended[x] <= 2 * Expiry(opt) + Tolerated(opt)
    BY DEF OutageForgotten
  <2>1. PICK n \in 1..Cap, m \in 0..Cap : InTime(opt, n, m)
    BY DEF Fits
  <2>2. n \in Nat /\ m \in Nat /\ Step(opt) \in Nat
    BY StateNumbers
  <2> DEFINE k == (n + 1) * Step(opt)
             h == m * Step(opt)
  <2>3. k \in Nat /\ h \in Nat /\ h + k <= Expiry(opt)
    BY <2>1, <2>2 DEF InTime
  <2>4. Stale(blended[x]) <= k + heard["value"]
    BY <2>1, <2>2 DEF IOutage, Every, InTime, Blends
  <2> HIDE DEF k, h
  <2>5. /\ Expiry(opt) \in Nat /\ Tolerated(opt) \in Nat
        /\ blended[x] \in Int /\ quiet \in Nat /\ heard["value"] \in Nat
    BY ToleratedFacts, StaleNumbers DEF IFresh
  <2>6. heard["value"] <= Expiry(opt)
    <3>1. KeepsAlive /\ quiet > Expiry(opt)
      BY <2>5, SoonAlive
    <3> QED BY <3>1 DEF KeepsAlive, IOutage, IFresh
  <2> QED BY <2>3, <2>4, <2>5, <2>6 DEF Stale
<1> QED BY <1>1, <1>2, <1>3, PTL DEF Spec

=============================================================================
