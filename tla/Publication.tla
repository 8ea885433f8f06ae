---------------------------- MODULE Publication -----------------------------
(***************************************************************************)
(* What Home Assistant sees of a battery: the publishing half of a sampler *)
(* (bmslib/sampling.py), the MQTT client under it (mqtt_util.py), the      *)
(* options that set its periods (main.py) and, as another source of        *)
(* samples, a group of batteries (group.py).                               *)
(*                                                                         *)
(* A value that did not change is held back for a while; a sensor that is  *)
(* not told its value turns unavailable after its expiry; a sensor exists  *)
(* only once it was announced, and what Home Assistant was not there to    *)
(* hear is lost.  The periods, the expiry and the hold-back come from      *)
(* different places and have to fit.                                       *)
(*                                                                         *)
(* Time is counted in units; samples in an average by their age in         *)
(* samples.  "value" stands for what every sample has, "extra" for what a  *)
(* sample may lack, "cells" for the voltages of the cells and the          *)
(* temperatures, fetched on their own, "meter" for the meters.             *)
(*                                                                         *)
(* What a sample says is published in two ways: power, current and voltage *)
(* as the average of the samples the downsampler holds, all the rest as    *)
(* the newest of them said.  Both have an age in time.                     *)
(*                                                                         *)
(* A definition commented "Faulty" is a variant of the one that follows it *)
(* with a plausible bug; a property of this module must tell them apart.   *)
(***************************************************************************)
EXTENDS Integers, FiniteSets

CONSTANTS
    Options,        \* the options and sources considered
    Members,        \* the batteries of a group
    Half,           \* how long an equal value is held back (10 s)
    DiscoverPeriod, \* announcements are repeated after (300 s)
    MeterPeriod,    \* meters are published after (30 s)
    AgainAbove,     \* a longer publish period repeats the sample (2 s; the
                    \*     whole units of it)
    Cap,            \* ages are counted so far, past all they are compared with
    MaxFaults       \* bound on the faults of a behaviour

MinExpiry == 2 * Half

\* sample, publish, expires: the options sample_period, publish_period and
\*     expire_values_after; takes: what a cycle takes on top of its period.
OptionKinds == [sample : Nat, publish : Nat, expires : Nat, takes : Nat,
                source : {"bms", "group"}]

Step(o) == o.sample + o.takes

Larger(a, b) == IF a < b THEN b ELSE a

\* The expiry of a sensor; 0: never.
Expiry(o) ==
    IF o.expires = 0 THEN 0
    ELSE Larger(o.expires, Larger(2 * o.sample, 2 * o.publish))

\* How old a sample may be.
Tolerated(o) == Larger(Expiry(o), MinExpiry)

ASSUME PublicationAssumption ==
    /\ Options \subseteq OptionKinds
    /\ {Half, DiscoverPeriod, MeterPeriod, AgainAbove, Cap, MaxFaults}
         \subseteq Nat
    /\ Half > 0 /\ DiscoverPeriod > 0 /\ MeterPeriod > 0
    /\ \A o \in Options : Tolerated(o) < Cap

Sampled == {"value", "extra"}
Topics == Sampled \cup {"cells", "meter"}

VARIABLES
    opt,        \* the options
    pc,         \* where the cycle stands
    client,     \* the MQTT client: off (never started), down or up
    last,       \* _last_values: how long ago the present data was published
    told,       \* the same of the announcements
    known,      \* the sensors Home Assistant has
    shown,      \* those of them that were told a value
    heard,      \* how long ago the sensor was created or last told
    stamp,      \* age of the newest sample in the value shown, by member
    blended,    \* age of the oldest sample in it, by member
    carried,    \* what this device answers, as far as the last cycle knows
    pub,        \* period_pub
    discov,     \* period_discov
    thirty,     \* period_30s
    window,     \* samples in the downsampler, by age
    oldest,     \* age in time of the oldest of them, or, once they were
                \*     popped, of those that were; by member
    since,      \* history: samples since the last pop()
    ages,       \* age of the last sample of each member in the group
    dead,       \* members that do not answer any more
    quiet,      \* history: time since the last fault
    faults

broker == <<client, known, shown, heard, stamp, blended, last, told>>
periods == <<pub, discov, thirty>>
samples == <<window, since, oldest>>
group == <<ages, dead>>
vars == <<opt, pc, broker, carried, periods, samples, group, quiet, faults>>

Older(n, t, limit) == IF n + t < limit THEN n + t ELSE limit
NoSample == -1

-----------------------------------------------------------------------------
(* Periods                                                                 *)

\* PeriodicBoolSignal: on at first; since: t - _last_t, -1 before the first
\* set_time().
Signal == [on |-> TRUE, since |-> -1]

\* Faulty: the signal, once off, stays off.
SetTimeOnce(s, period) ==
    IF s.since = -1 THEN [on |-> 0 >= period, since |-> 0]
    ELSE IF s.on /\ s.since >= period THEN [on |-> TRUE, since |-> 0]
    ELSE [s EXCEPT !.on = FALSE]

SetTime(s, period) ==
    IF s.since = -1 THEN [on |-> 0 >= period, since |-> 0]
    ELSE IF s.since >= period THEN [on |-> TRUE, since |-> 0]
    ELSE [s EXCEPT !.on = FALSE]

Later(s, t, period) ==
    [s EXCEPT !.since = IF @ = -1 THEN @ ELSE Older(@, t, period)]

-----------------------------------------------------------------------------
(* The source                                                              *)

\* connect() of a group waits for a sample of every member.
Connects == opt.source = "group" => \A m \in Members : ages[m] # NoSample

\* Faulty: a group is as fresh as the member that answered last.
AllExpired ==
    opt.source = "group" /\ \A m \in Members : ages[m] > Tolerated(opt)

\* sum_parallel() takes the oldest timestamp.
Expired ==
    opt.source = "group" /\ \E m \in Members : ages[m] > Tolerated(opt)

\* How old a sample is that was fetched just now.
Fetched == [m \in Members |-> IF opt.source = "group" THEN ages[m] ELSE 0]

-----------------------------------------------------------------------------
(* mqtt_single_out                                                         *)

\* Publishes the topics, but for those it holds back.  A publication that fails
\* is not recorded.
Publish(topics) ==
    LET out == IF client = "up" THEN {t \in topics : last[t] >= Half} ELSE {} IN
    /\ last' = [t \in Topics |-> IF t \in out THEN 0 ELSE last[t]]
    /\ heard' = [t \in Topics |-> IF t \in out \cap known THEN 0 ELSE heard[t]]
    /\ shown' = shown \cup (out \cap known)
    /\ stamp' = IF "value" \in out \cap known THEN Fetched ELSE stamp
    /\ blended' = IF "value" \in out \cap known THEN oldest ELSE blended
    /\ UNCHANGED <<client, known, told>>

\* Faulty: withdraws the sensors it does not announce.
AnnounceOnly(topics) ==
    LET out == IF client = "up" THEN {t \in topics : told[t] >= Half} ELSE {} IN
    /\ told' = [t \in Topics |-> IF t \in out THEN 0 ELSE told[t]]
    /\ known' = out
    /\ heard' = [t \in Topics |-> IF t \in out \ known THEN 0 ELSE heard[t]]
    /\ UNCHANGED <<client, shown, stamp, blended, last>>

\* Announces the topics: Home Assistant creates the sensors it does not have.
Announce(topics) ==
    LET out == IF client = "up" THEN {t \in topics : told[t] >= Half} ELSE {} IN
    /\ told' = [t \in Topics |-> IF t \in out THEN 0 ELSE told[t]]
    /\ known' = known \cup out
    /\ heard' = [t \in Topics |-> IF t \in out \ known THEN 0 ELSE heard[t]]
    /\ UNCHANGED <<client, shown, stamp, blended, last>>

-----------------------------------------------------------------------------
(* The cycle                                                               *)

Init ==
    /\ opt \in Options
    /\ pc = "idle"
    /\ client \in {"off", "down", "up"}
    /\ last = [t \in Topics |-> Half] /\ told = [t \in Topics |-> Half]
    /\ known = {} /\ shown = {}
    /\ heard = [t \in Topics |-> 0]
    /\ stamp = [m \in Members |-> NoSample] /\ blended = stamp
    /\ carried \in {Topics, Topics \ {"extra"}}
    /\ pub = Signal /\ discov = Signal /\ thirty = Signal
    /\ window = {} /\ since = 0 /\ oldest = [m \in Members |-> NoSample]
    /\ ages = [m \in Members |-> NoSample]
    /\ dead \in IF opt.source = "group" THEN SUBSET Members ELSE {{}}
    /\ quiet = 0 /\ faults = 0

Aging(data, t, limit) ==
    [m \in Members |-> IF data[m] = NoSample THEN NoSample
                       ELSE Older(data[m], t, limit)]

Elapse(t) ==
    /\ last' = [x \in Topics |-> Older(last[x], t, Half)]
    /\ told' = [x \in Topics |-> Older(told[x], t, Half)]
    /\ heard' = [x \in Topics |-> Older(heard[x], t, Cap)]
    /\ stamp' = Aging(stamp, t, 2 * Cap)
    /\ blended' = Aging(blended, t, 2 * Cap)
    /\ oldest' = Aging(oldest, t, 2 * Cap)
    /\ pub' = Later(pub, t, opt.publish)
    /\ discov' = Later(discov, t, DiscoverPeriod)
    /\ thirty' = Later(thirty, t, MeterPeriod)
    /\ ages' = Aging(ages, t, Cap)

Fault == faults < MaxFaults /\ faults' = faults + 1 /\ quiet' = 0
NoFault == UNCHANGED <<faults, quiet>>

\* The members that answer are sampled as often as the group, in any order.
MembersSampled ==
    opt.source = "group" =>
        \A m \in Members \ dead : ages[m] \in 0..Step(opt)

\* fetch_loop() sleeps for a period.
Wake ==
    /\ pc = "idle" /\ MembersSampled
    /\ Elapse(Step(opt))
    /\ quiet' = Older(quiet, Step(opt), Cap)
    /\ pc' = "wake"
    /\ UNCHANGED <<opt, client, known, shown, carried, window, since, dead, faults>>

\* The cycle before took longer, as did those of other devices in the loop.
WakeLate ==
    /\ pc = "idle" /\ MembersSampled /\ Fault
    /\ Elapse(2 * Step(opt))
    /\ pc' = "wake"
    /\ UNCHANGED <<opt, client, known, shown, carried, window, since, dead>>

Due(jump) == pub.on \/ discov.on \/ (jump /\ opt.source = "bms")

\* fetch() returns a sample, which the downsampler adds.  jump: the power
\* rose in the last 4 s.  changed: nothing is as published last.
Fetches(jump, changed) ==
    /\ pc = "wake" /\ Connects /\ ~Expired
    /\ window' = {a + 1 : a \in window} \cup {0}
    /\ since' = since + 1
    /\ oldest' = IF window = {} THEN Fetched ELSE oldest
    /\ last' = IF changed THEN [t \in Topics |-> Half] ELSE last
    /\ pc' = IF Due(jump) THEN "publish" ELSE "skip"
    /\ NoFault
    /\ UNCHANGED <<opt, client, told, known, shown, heard, stamp, blended,
                   carried, periods, group>>

\* GroupNotReady, SampleExpiredError: the downsampler keeps what it has.
FetchRefused ==
    /\ pc = "wake" /\ ~(Connects /\ ~Expired)
    /\ pc' = "idle" /\ quiet' = 0
    /\ UNCHANGED <<opt, broker, carried, periods, samples, group, faults>>

FetchFails ==
    /\ pc = "wake" /\ opt.source = "bms" /\ Fault
    /\ pc' = "idle"
    /\ UNCHANGED <<opt, broker, carried, periods, samples, group>>

\* A sink refuses the voltages: nobody catches it.
SinkRaises ==
    /\ pc \in {"publish", "skip"} /\ Fault
    /\ pc' = "idle"
    /\ UNCHANGED <<opt, broker, carried, periods, samples, group>>

\* publish_meters().
Meter == IF discov.on \/ thirty.on THEN {"meter"} ELSE {}

\* Nothing is due but, perhaps, the meters.
Skip ==
    /\ pc = "skip"
    /\ Publish(Meter)
    /\ pc' = "leave" /\ NoFault
    /\ UNCHANGED <<opt, carried, periods, samples, group>>

\* Faulty: the sums are kept.
PopKeeps == window' = window

\* A sample that is alone is returned, and stays.
Pop == window' = IF Cardinality(window) = 1 THEN window ELSE {}

PublishSample ==
    /\ pc = "publish"
    /\ Pop /\ since' = 0 /\ oldest' = oldest
    /\ Publish(Sampled \cap carried)
    /\ pc' = "detail" /\ NoFault
    /\ UNCHANGED <<opt, carried, periods, group>>

\* fetch_voltages(), fetch_temperatures(): what was answered is published, and
\* after it the meters.
Details(answered) ==
    /\ pc = "detail"
    /\ carried' = (carried \cap Sampled) \cup answered \cup {"meter"}
    /\ Publish(answered \cup Meter)
    /\ pc' = IF discov.on THEN "discover" ELSE "leave"
    /\ UNCHANGED <<opt, periods, samples, group>>

Answered == Details({"cells"}) /\ NoFault
NotAnswered == Details({}) /\ Fault

\* publish_hass_discovery(), whether or not there is a device info.
Discover ==
    /\ pc = "discover"
    /\ Announce(carried)
    /\ pc' = IF opt.publish > AgainAbove THEN "again" ELSE "leave"
    /\ NoFault
    /\ UNCHANGED <<opt, carried, periods, samples, group>>

\* The sample is published again, a second later.
Again ==
    /\ pc = "again"
    /\ Publish(Sampled \cap carried)
    /\ pc' = "leave" /\ NoFault
    /\ UNCHANGED <<opt, carried, periods, samples, group>>

\* The end of the cycle.
Leave ==
    /\ pc = "leave"
    /\ pub' = SetTime(pub, opt.publish)
    /\ discov' = SetTime(discov, DiscoverPeriod)
    /\ thirty' = SetTime(thirty, MeterPeriod)
    /\ pc' = "idle" /\ NoFault
    /\ UNCHANGED <<opt, broker, carried, samples, group>>

\* disconnect() raises: no period is set.
LeaveFails ==
    /\ pc = "leave" /\ opt.source = "bms" /\ Fault
    /\ pc' = "idle"
    /\ UNCHANGED <<opt, broker, carried, periods, samples, group>>

-----------------------------------------------------------------------------
(* Around it                                                               *)

\* The sampler of a member updates the group.
Update(m) ==
    /\ opt.source = "group" /\ pc = "idle" /\ m \notin dead
    /\ ages[m] # 0
    /\ ages' = [ages EXCEPT ![m] = 0]
    /\ NoFault
    /\ UNCHANGED <<opt, pc, broker, carried, periods, samples, dead>>

Dies(m) ==
    /\ opt.source = "group" /\ m \notin dead /\ Fault
    /\ dead' = dead \cup {m}
    /\ UNCHANGED <<opt, pc, broker, carried, periods, samples, ages>>

Revives(m) ==
    /\ m \in dead /\ dead' = dead \ {m}
    /\ NoFault
    /\ UNCHANGED <<opt, pc, broker, carried, periods, samples, ages>>

Drops ==
    /\ client = "up" /\ Fault
    /\ client' = "down"
    /\ UNCHANGED <<opt, pc, last, told, known, shown, heard, stamp, blended,
                   carried, periods, samples, group>>

\* loop_start() connects again; a client whose first connect() failed has
\* no loop.
Reconnects ==
    /\ client = "down"
    /\ client' = "up" /\ quiet' = 0
    /\ UNCHANGED <<opt, pc, last, told, known, shown, heard, stamp, blended,
                   carried, periods, samples, group, faults>>

\* Home Assistant restarts: announcements are not retained.
HubRestarts ==
    /\ known # {} /\ Fault
    /\ known' = {} /\ shown' = {}
    /\ UNCHANGED <<opt, pc, client, last, told, heard, stamp, blended, carried,
                   periods, samples, group>>

\* A field the device did not report at first.
Appears ==
    /\ "extra" \notin carried /\ pc = "idle"
    /\ carried' = carried \cup {"extra"}
    /\ quiet' = 0
    /\ UNCHANGED <<opt, pc, broker, periods, samples, group, faults>>

Cycle ==
    \/ Wake \/ (\E jump, changed \in BOOLEAN : Fetches(jump, changed))
    \/ FetchRefused \/ Skip
    \/ PublishSample \/ Answered \/ Discover \/ Again \/ Leave

Next ==
    \/ Cycle \/ WakeLate \/ FetchFails \/ SinkRaises \/ NotAnswered
    \/ LeaveFails
    \/ \E m \in Members : Update(m) \/ Dies(m) \/ Revives(m)
    \/ Drops \/ Reconnects \/ HubRestarts \/ Appears

\* The event loop runs the sampler and those of the members, the thread of
\* paho connects again.
Spec ==
    /\ Init /\ [][Next]_vars
    /\ WF_vars(Cycle) /\ WF_vars(Reconnects)
    /\ \A m \in Members : WF_vars(Update(m))

-----------------------------------------------------------------------------
(* Properties                                                              *)

\* Every variable has its type.
TypeOK ==
    /\ opt \in Options
    /\ pc \in {"idle", "wake", "publish", "skip", "detail", "discover",
               "again", "leave"}
    /\ client \in {"off", "down", "up"}
    /\ last \in [Topics -> 0..Half] /\ told \in [Topics -> 0..Half]
    /\ shown \subseteq known /\ known \subseteq Topics
    /\ heard \in [Topics -> 0..Cap]
    /\ stamp \in [Members -> -1..2 * Cap]
    /\ blended \in [Members -> -1..2 * Cap]
    /\ oldest \in [Members -> -1..2 * Cap]
    /\ carried \subseteq Topics
    /\ pub \in [on : BOOLEAN, since : -1..opt.publish]
    /\ discov \in [on : BOOLEAN, since : -1..DiscoverPeriod]
    /\ thirty \in [on : BOOLEAN, since : -1..MeterPeriod]
    /\ window \subseteq Nat /\ IsFiniteSet(window) /\ since \in Nat
    /\ ages \in [Members -> -1..Cap] /\ dead \subseteq Members
    /\ quiet \in 0..Cap /\ faults \in 0..MaxFaults

\* The options fit: a publication is due every n cycles, a value is held back
\* for m of them, and n + m, and one for the first, are over before the expiry.
InTime(o, n, m) ==
    /\ n * Step(o) >= o.publish
    /\ (m + 1) * Step(o) >= Half
    /\ (m + n + 1) * Step(o) <= Expiry(o)
Fits(o) == \E n \in 1..Cap, m \in 0..Cap : InTime(o, n, m)

\* A sensor does not turn unavailable while its device is sampled: with
\* nothing wrong for longer than the expiry, every sensor was told its value
\* within its expiry, although equal values are held back (mqtt_single_out),
\* although publications are periodic (PeriodicBoolSignal) and others come in
\* between (sampling.py, power jumps and announcements).
KeepsAlive ==
    opt.expires > 0 /\ client = "up" /\ quiet > Expiry(opt) =>
        \A t \in (known \cap carried) \ {"meter"} : heard[t] <= Expiry(opt)

\* Everything the device tells is, in the end, a sensor that shows a value:
\* fields that were missing at first, and all of them after Home Assistant
\* forgot them, if the client was started at all and no member of a group is
\* dead (publish_hass_discovery, period_discov).
Shown == carried \subseteq shown
Shows == client # "off" /\ <>[](dead = {}) => <>[]Shown

\* An average is of all the samples since the previous publication, and of
\* none before but the last of those published then (Downsampler.pop returns
\* a sample that is alone and keeps it).
Averages ==
    pc = "publish" => window \in {0..since - 1, 0..since}

\* The newest sample in what a sensor shows before it turns unavailable, the
\* one its state of charge and temperatures are of, is made of no member's
\* data older than twice the age a sample may have, though a member may have
\* stopped answering long ago (sum_parallel, SampleExpiredError).
Fresh ==
    opt.expires > 0 /\ "value" \in shown /\ heard["value"] <= Expiry(opt) =>
        \A m \in Members : stamp[m] <= 2 * Tolerated(opt)

\* An outage is forgotten: the downsampler keeps the samples it has while none
\* arrives, however long, and the first average published afterwards is of
\* them as well; but with nothing wrong for twice the expiry, no sample in the
\* average shown is older than that and the age a sample may have
\* (SampleExpiredError, Downsampler.pop, PeriodicBoolSignal, mqtt_single_out).
OutageForgotten ==
    /\ opt.expires > 0 /\ client = "up" /\ "value" \in shown
    /\ quiet > 2 * Expiry(opt)
    => \A m \in Members : blended[m] <= 2 * Expiry(opt) + Tolerated(opt)

=============================================================================
