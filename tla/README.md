# Formal models of batmon

`batmon` (this repository) reads battery management systems (BMS) over Bluetooth
or a serial line, publishes their samples to MQTT and to databases, meters
energy, and may switch the charger.  This directory holds TLA+ models of its
core, TLC configurations that check them on small instances, and proofs for any
instance, checked by TLAPS.

    tlc -config Meters_crash.cfg MCMeters.tla        # one run
    tlapm MetersProofs.tla                           # one module of proofs

`PROJECT.json` lists the runs with the module and configuration each one needs,
the source lines every definition stands for, the hazards of the code, and for
every property a faulty variant of a definition that the property catches.
Those variants are in the modules, commented "Faulty": they take no part in the
specification and show that a property is not true by construction.

## 1. The system

| Component | Source | State | Operations |
|---|---|---|---|
| Futures pool | `bmslib/__init__.py` | futures registered by response code | acquire, acquire_timeout, wait_for, set_result, remove, clear |
| Sampler | `bmslib/sampling.py` `BmsSampler` | error counts, time of the next retry, meters, periods | one cycle: connect, fetch, meter, decide, publish |
| Bluetooth session | `bmslib/bt.py` `BtBms`, the drivers' connect/disconnect | link, subscription, connect time | `__aenter__`, `__aexit__`, connect, disconnect, `_on_disconnect` |
| Fetch loops, main | `sampling.fetch_loop`, `main.py` | errors in a row, global `shutdown`, tasks | run, abort, restart, stop, watchdogs, signals |
| Energy meters | `pwmath.Integrator`, `store.py`, `main.store_states` | last reading, sum; JSON file | feed, snapshot, write, load |
| SoC algorithm | `algorithm.py`, `store.py` | charging, last calibration; JSON file | update, store, set_switch, load |
| Sinks | `sinks.py`, `circuit_breaker.py` | queue, breaker, flush thread | publish, flush, re-queue, drain, close |
| MQTT | `mqtt_util.py` | last published values, subscriptions, action queue | publish, subscribe, handle message, process queue |
| Drivers | `bmslib/models/*.py`, `bmslib/wired` | frame buffer, response table | notification, query, fetch, set_switch |
| Groups | `group.py` | samples and voltages of the members | update, fetch, set_switch |
| Caches | `cache/*.py`, `ambient_cache.py` | values with expiry | get, set |
| Downsampler, filters | `sampling.py`, `pwmath.py` | sums | add, pop |
| Others | `scan.py`, `esphome_proxy`, `pack_temp_*`, `tracker.py`, `tools/` | | see section 7 |

How they interact.  One asyncio event loop runs everything but four kinds of
threads: `background_thread` (watchdog, stores the meters), the flush thread of
each sink, the threads of paho and bleak, which only hand over messages, and the
receiving thread of a serial port, which runs the driver's handler itself.
`main()` starts a fetch loop (one in all, or one per BMS with
`concurrent_sampling`) which calls the samplers.  A sampler enters the session
of its BMS, queries it through the driver - which writes a command and awaits a
future that the notification handler completes -, feeds the meters, lets the
algorithm decide, sets switches, publishes to MQTT, and puts points into the
sinks' queues.  `background_loop` runs the switch commands of users in the same
event loop, between any two awaits of a sampler, and stores the meters every
30 s, as `background_thread` does too.

What is hard.

* Steps of two coroutines between awaits: two callers of the futures pool; a
  store between feeding two meters; a user's switch command within a cycle, on a
  driver that remembers what it read before.
* Two threads on the same data: meter snapshots, the queue and the breaker,
  `shutdown`.
* A device that answers late, twice or never, in chunks that are cut anywhere,
  among noise that looks like a header; a link that drops, or is up and silent; a
  connect that fails half-way.
* Writes that fail or whose answer is lost: switch commands, database batches.
* Crashes, clean stops and restarts between storing a decision and acting on it.
* Periods, expiries and hold-backs that come from different places and must fit;
  a broker and a Home Assistant that restart and remember nothing.
* Things that must happen in the end: the request returns, the point arrives, the
  device is sampled again, the sensor shows a value, the process stops.

What makes each component correct is stated as properties in its module; the
hazards, each at its line, are in `PROJECT.json`.

## 2. Modules

Each component has a module `X.tla` with its state, one action per step, and its
properties; `MCX.tla` names the sets TLC needs; `XProofs.tla` holds the
theorems (that of `Supervision` is in `SamplerProofs`, on an instance of it).  Runs are named `X_<question>`.

How they fit together.  A cycle of `BmsSampler` is cut at its awaits, and each
module takes the part of it that its question needs and leaves the rest as one
step: `Sampler` the session and its errors, `Meters` the feeding, `SocControl`
the decision, `Readings` the requests of fetch() and of the commands,
`Publication` what follows the sample.  `Supervision` sees a whole cycle as one
step that returns or raises.  `FuturesPool` is what a request waits on,
`DriverAnswers` what completes it, `FlushSink` where the points go.  `DriverFrames`
holds the notification handlers as operators; `DriverAnswers` extends it.

### FuturesPool, RequestReply

`RequestReply` is what the pool promises to a coroutine that queries a BMS: a
request ends, and an `ok` means that every name it asked for was notified after
the request began.  `FuturesPool` is the code: `pool` is `_futures`, a future is
a number, `fin` and `canc` tell which hold a result or were cancelled.  A step
is the code between two awaits.  `Start` is the call of acquire; `TryAcquire`,
`PollEnds`, `PollGivesUp` are the three ways through acquire_timeout; `Lookup`,
`Deliver`, `Expire` are wait_for; `Finish` is `FutureContext.__exit__`.
`Notify` is set_result (which removes a future that is already done) and
`Disconnect` is clear.  Requests for tuples run one coroutine per name in
`gather`; when it fails the others go on, as `stragglers`.  Wakeups, timeouts and
notifications interleave freely.

| Run | Shows |
|---|---|
| `FuturesPool_acquire` | two callers, one name, `acquire`: fresh answers, no leak, refinement of `RequestReply` with its liveness |
| `FuturesPool_gather` | tuple requests with `acquire_timeout`: the refinement of `RequestReply` in spite of stragglers, which is enough for fresh answers (`RepliesAreFresh`) |

What is not claimed: with `acquire_timeout` a pending future can be replaced,
since it does not look again after it slept, and a request can fail although its
answer came, since a second notification removes the future.

Bounds: two callers are the sampler and `background_loop`, the code has no
third; two names, one of them in both kinds of request; 2-4 futures per name
suffice for a caller to meet a successor of its own future.
Fairness: weak fairness of each caller's steps.  asyncio runs what is ready and
every wait in the pool has a timeout, so a caller is never enabled for ever
without moving.

### Meters

The three energy integrators of one BMS and the loops that feed them.  A cycle of
loop `l` is `FeedCharge`, `FeedDischarge` and, after an await, `FeedTotal`, since
the code feeds the total after it awaited the temperatures.  With
`concurrent_sampling` main() starts new loops when one has ended (`Restart`), and
a loop that swallowed its cancellation goes on beside its successor: both feed the
same integrators, with no lock, and interleave at that await.  Then the total of
one may find a later reading than its own (`TotalRaises`).  Stopping waits for the
one loop of serial sampling; of concurrent ones it leaves the cycles under way to
finish.  `background_loop` stores in one step (`LoopStores`), `background_thread`
reads one meter after another (`ThreadReads`) and writes later (`ThreadWrites`):
the lock in `store.py` covers the write only.  The clock ticks and can be set back,
which makes `Integrator.add_linear` raise.  The process stops cleanly, dies, and
boots from the file.  Sums are doubled to keep the trapezoid rule in the integers.

| Run | Shows |
|---|---|
| `Meters_crash` | the total is discharge less charge, whatever is interrupted, as long as the cycles of two loops do not overlap and again after the first one that ran alone (`GainBalanced`); the file is never ahead of what was metered, with overlapping cycles too (`FileNotAhead`) |

`overlap` and `base` are history variables: whether cycles overlapped since the
meters were last in step, and what they read then.  `GainBalanced` claims nothing
while `overlap` is not "none": two loops do unbalance the meters, see section 4.

Bounds: charging and discharging (a power of zero would add states and no new
case: every meter but the total is already fed zeros), gaps of one and two ticks
around the longest gap that is integrated, one restart: one more start is all a
late snapshot needs to be seen.  Two loops, alike and hence symmetric, are the old
one and its successor; the first start has `concurrent_sampling`, the second has
not, so that both kinds of stop and the change between them occur.  The theorems
hold for any loops, powers and starts.
`GainBalanced` is about what was metered since the start.  The identity of
README.md:262 over the lifetime of the meters does not hold: a store between two
feeds and a crash break it for good, and without `invert_current` its sign is
the other one.

### SocControl

The loop fetch - update - store - switch of `BmsSampler` and `SocAlgorithm`.
`sample` is the sample of the cycle, `state` the algorithm's, `saved` the
content of the file ({} when it is missing or torn), `cmd` the switch value on
its way.  The battery is charged and drained between any two steps; a user may
set the switch; writes may fail; the process stops, dies (also inside the store,
`CrashStoring`) and boots.

| Run | Shows |
|---|---|
| `SocControl_limit` | users, failures and crashes: as long as none of them interferes (`calm`) a SoC at the limit ends the charging; once switched off, the algorithm leaves a user's switch alone until a trigger, through failed writes, crashes and restarts that find the state file |
| `SocControl_retry` (violated) | one failed write and the limit is never enforced |

`calm` is a history variable: nobody but the algorithm has set the switch, no
write has failed, and no crash or lost file has happened.  `StopsAtLimit`
and `CalmEnforced` are claimed for calm behaviours.  `OverrideKept` is claimed for
all, but speaks of the time since the algorithm switched off (`rested`), and a
start without the state file (`CrashStoring` can leave none) ends that time: the
algorithm is then in its initial state and may switch off once more, against the
user.  `RestEnds`, part of theorem `Override`, says that only such a start and a
trigger do.

Bounds: six SoC levels, in units of the hysteresis: below, between, at the
thresholds and full; `charge_start` two units below `charge_stop`, and equal to it.
Fairness: the cycle goes on (weak), and a switch write that is tried again and
again succeeds (strong).

### FlushSink, DeliveryQueue

`DeliveryQueue` is what a sink promises of a point: it is refused for want of room,
discarded while the server was never reached, or pending until it is delivered or
given up, and once the server was reached the breaker gives up nothing.  `FlushSink`
is the code: the queue, the flush thread, `close()` and the breaker of the database sinks.
A step is what one thread does between two accesses to shared data, so
`flush()` is the loop `Collect`/`Get`, then `WriteDone` or `WriteFails`, then
`AfterFailure`, which re-queues or drains the queue.  A failed write may have
been taken by the server.  The queue is a set because points carry their time.  For
`DeliveryQueue` the queue and the batches of both flushes are what is pending, and a
point the publisher has not put yet (`offer`) is still to be published.

| Run | Shows |
|---|---|
| `FlushSink_deliver` | two flushes implement `DeliveryQueue`: after the first success a point is lost only to a full queue, and arrives if writes succeed now and then; before it the queue holds one late point |
| `FlushSink_close` (violated) | the drain of the flush thread between the empty-check and the blocking get of the flush in `close()` hangs it |

Bounds: capacity and batch of two, three points: full queues, partial batches
and two flushers that share a queue all occur.
Fairness: both threads run (weak), a write that is tried again and again
succeeds (strong): without it nothing can be promised.

### Sampler

One `BmsSampler` and its session.  `pc` follows a cycle: `Begin` (the wait for a
retry), `KeptAlive`/`Connects`/`ConnectFails`/`NotFound`, `SetUp` (the rest of
the driver's connect()), `Fetch`, `Publish`, `Exit` with `Conclude`, and
`HandleError`, the except branch that may drop the link.  Drivers differ in two
points that matter: whether connect() falls back to a scanner and whether
disconnect() raises when there is nothing to unsubscribe; `Init` chooses.  The
radio may be good, bad or away and changes at any time.

| Run | Shows |
|---|---|
| `Sampler_recover` | every kind of driver: the wait follows failed connects only (#391), and a reachable device is sampled again, whatever was half-done, unless its disconnect() is strict and there is no scanner to fall back to or `keep_alive` is on |

Bounds: three steps of backoff instead of ten and two errors instead of twenty;
both are thresholds of counters, and the proofs hold for any.  Time is counted
in cycles.
Fairness: the fetch loop calls the sampler again, and every await of a cycle
has a timeout, so weak fairness of `Cycle` as a whole; nothing is assumed of
the device but that the radio stays good in the end, inside the properties.

### Supervision

The fetch loops seen from `main()`.  A unit is what one loop serves.  A loop
returns from a cycle, or raises and counts, aborts, or ends with a
CancelledError.  `Restart` is the `while not shutdown` around
`asyncio.wait(FIRST_COMPLETED)`; cancelled loops end or, inside
`FuturesPool.wait_for`, swallow it and live on beside their successors
(`ZombieReturns`).  `shutdown` is the count of signals, as in `on_exit`.
`background_thread` watches the traffic and the flag from outside the event
loop, which may hang.  `Init` chooses between one loop for all devices and
`concurrent_sampling`.

| Run | Shows |
|---|---|
| `Supervision_ends` | loops are started again; shutdown and silence end the process, hung or not; with one loop too many errors do, too |

Bounds: two devices; an abort after one error rather than 200; one surviving
loop per device; five signals, the number at which `on_exit` gives up.
Fairness: the thread runs; the event loop runs unless it hangs; a hung event
loop publishes nothing, so silence is noticed.

### DriverFrames, DriverAnswers

`DriverFrames` is thirteen notification handlers as operators from a buffer and a
chunk to what is left, what is handed on and whether the loop goes round again:
`JkStep` is one round of `jikong.feed_frames`, `AntFeed` one call of the ant
handler, `DalyFrames` the collection of an answer of several frames.  A loop over
the buffer is as many rounds (`Round`) as the buffer has bytes, for each takes at
least one (proved: `LoopsEnd`); the result of the rounds is kept in a set of one element, so that TLC
evaluates a round once.  Bytes are a
dozen numbers that collide the way the real ones do: a value may contain a header,
a terminator or the newline the serial port reads up to.  A checksum accepts what
the device sends and nothing else.

`DriverAnswers` puts the handler of one driver between a device and a caller.
`Ask` writes the next query of the driver's cycle and clears what the driver
clears; `Deliver` reads a chunk of any size the transport can produce (packets
over Bluetooth, anything over a UART, a line over a serial port) and completes
the query the frame answers; `Timeout` ends it; `LinkDrops` loses what is on the
way, `Noise` adds a byte.  `forwarded` says whether the options a serial driver
declares for its port reach the port; `BtBms` does not hand them on.

| Run | Shows |
|---|---|
| `DriverAnswers_link` | what a driver that checks its frames hands on was sent as one answer (`WholeAnswers`); a late answer to one command is not taken for that to another (`AnswerFits`); however the buffer was left, the driver finds back into the stream (`Recovers`) |

The link cuts an answer where it likes.  For the drivers that look for frames until
none is left it is proved that this makes no difference (`CutsDoNotMatter`).  It
does for jk_uart and noname, which hand on one frame a chunk, and for ant, sok, daly,
daly2 and litime, which look at the first or last bytes of a chunk or drop what
follows a frame: for those the run tries the cuts.  For daly_uart it is about the
frames, before those of the cells are gathered.

Exceptions, stated in the properties: sok and litime check nothing; noname and
pace do not compare the command; the cells of daly come in frames of which late
ones can be mixed (see section 4); jk_uart hands on one frame a chunk and stays one
answer behind; a port that is read by line waits for a newline that need not come.

Bounds: three stamps, so that the answer before the last and the last are told
apart; two faults, e.g. a late answer and a cut; three answers held by the port,
one more than it takes to fall behind.
Fairness: the fetch loop asks, what is on the link is read, a timeout fires once
nothing more can come.  Faults are bounded, hence "in the end" means after them.

### Readings

What a sample says and what becomes of switch commands.  fetch() and set_switch()
of each driver are sequences of steps between which other coroutines run:
`JkFetch`, `JbdSetSwitch`, `Daly2SetSwitch` and so on name them, and the
actions give the steps their effect: `Answer`/`NoAnswer` a request that is answered
or times out, `Remembers`, `FetchStatus`, `Invalidate`, `Forget` the settings and
the caches, `Reread` and `HandleNotification` the values of victron,
`RequestData` the event of supervolt that stays set.  `mem` is what a driver
remembers, `run` what the sampler and the worker of `background_loop` still have
to do.  `MessageHandler` puts a command into the queue, `Takes` and `Ack` are
`mqtt_process_action_queue` and the acknowledgement.  Of a battery the direction
of its current and two switches are modelled, and each decoder's sign convention.

| Run | Shows |
|---|---|
| `Readings_report` | the topics catch up with the battery once nothing changes (`CatchesUp`); a command moves no other switch (`CommandsHold`, but for jbd's second command, see below); a battery that is gone is not sampled from memory (`SilentIsNotSampled`); the queue is worked off whatever a command meets (`CommandsEnd`) |

Exceptions, stated in the properties: the direction of jk_uart; switches of jk
that are set by other means than a command; jbd's second command before a sample
has shown what the first did, which `CommandsHold` excepts (`Sets` forgets what the
first has set) and of which theorem `SwitchesHold` says that nothing else moves a
switch without a command for it; supervolt, which reports what it has as if it were
new.

Bounds: two commands meet each other, the cycle, and one lost answer; one change
of the battery; caches live for two ticks, so that they are met fresh, old and
expired.  A tick is a sampling period; commands end within one.
Fairness: coroutines that can go on do, an answer comes or the timeout.

### Publication

What Home Assistant sees.  `Wake`, `Fetches`, `PublishSample` (with
`Downsampler.pop`), `Answered`/`NotAnswered` (voltages and temperatures),
`Discover`, `Again` and `Leave` are the publishing half of
`BmsSampler._sample_inner`, in its order; `SinkRaises`, `FetchFails` and
`LeaveFails` the ways out of it.  `Publish` is `mqtt_single_out` with its
hold-back, `Signal`/`SetTime` are `PeriodicBoolSignal`, `Expiry` and `Tolerated`
the arithmetic of `main()`.  `known`, `shown` and `heard` are Home Assistant's
side: a sensor exists once it was announced and is available for its expiry.  The
broker connection drops, Home Assistant restarts and forgets, fields appear
late.  The source is a battery or a group (`group.py`): a sample of every member
at first, the oldest timestamp, members that die and revive.

What is shown has two ages.  Power, current and voltage are the average of what the
downsampler holds, the rest is of the newest sample: `stamp` is the age of that
one, `blended` that of the oldest in the average, and `oldest` that of the oldest
in the downsampler.  They differ after an outage: a cycle that is refused
(`FetchRefused`, SampleExpiredError) leaves the downsampler as it is, and a lone
sample is not even removed by pop(), so the first average after an outage of any
length holds a sample from before it.

| Run | Shows |
|---|---|
| `Publication_shows` | while the device is sampled no sensor expires (`KeepsAlive`); in the end all that is reported is shown (`Shows`); an average is of the samples since the publication before and of at most one older one (`Averages`); the newest sample in what a group shows is not stale (`Fresh`); a while after an outage no average shown holds a sample from before it (`OutageForgotten`) |

Bounds: a unit is 5 s, so a value is held back for two (10 s).  Announcements
(300 s) and meters (30 s) come every 30 and 15 s: often enough to meet each other
and a publication, rarely enough to be missed.  Five sets of options: publishing
every cycle, every other, more often than sampling, slow cycles, a group.  In units of
5 s the 2 s above which the sample is published again (`AgainAbove`) are none: a
publish period of a unit or more repeats it and one below a unit does not, as in
the code for the periods these stand for.  `Cap`, nine units, is above the ages that
are compared (ages of samples go to twice that).  One
fault, met at every step of a behaviour; what lasts (a dead member, a broker that
is down) goes on meanwhile, but two faults at a time are not checked.
The five options fit (`Fits`, which TLC evaluates for them): with n cycles to a
publication and values held back for m, n + m + 1 cycles take no longer than the
expiry.  The defaults of config.yaml do, too (n = 1, m = 9, 11 s of 20).  With
options that do not, `KeepsAlive` need not hold, see section 4.  The meters
are excepted from it: their expiry is two hours at least (`mqtt_util.py:343`).
`OutageForgotten` says "a while": two expiries without a fault (`quiet`).  Without
that condition TLC finds an average of samples hours apart, and one expiry is too
short: the average may have been published within it, and is shown for another.
Fairness: the event loop runs the samplers, paho's thread connects again.

## 3. What is proved

For any value of the constants, from the assumptions named in the modules.
A theorem `Init /\ [][Next]_vars => []Inv` comes from an inductive invariant
that was checked with TLC before it was proved.

| Theorem | Says | Argument |
|---|---|---|
| `FuturesPoolProofs!Fresh` | FreshAnswer | futures are numbered, a number above `last` holds no result; the future a coroutine polls, registers or awaits is completed only after the acquire (`FreshInv`) |
| `FuturesPoolProofs!Implements` | every step is a step of RequestReply or none | FreshInv and: a waiting coroutine asked for its name (`RefInv`) |
| `FuturesPoolProofs!RepliesAreFresh` | FreshAnswer, from the promise of `RequestReply` alone | an `ok` is given only for names that were heard since the request began, and nothing takes that back (`HeardInv`) |
| `FuturesPoolProofs!NoLeak` | PendingHasOwner, for single-name requests | a caller that holds or awaits a name is the one to remove it (`OwnerInv`) |
| `MetersProofs!Balanced` | GainBalanced, for any number of loops | without an overlap at most one cycle is under way, the identity holds for the meters as they will be once it is complete, and a meter not yet fed will accept its sample; the first cycle alone after an overlap feeds all three the same, and from there on they agree (`BalanceInv`) |
| `MetersProofs!NotAhead` | FileNotAhead | snapshot and file are bounded by the meters, which only rise (`FileInv`) |
| `MetersProofs!IncreasingOnly` | the one-way meters fall at a start only, to what the file holds | charge is fed first, nothing is awaited before discharge, and both have the same last x whenever another loop or a store may look (`OrderInv`), so every term is of a time that went forward and powers that are not negative (`FileInv`) |
| `SocControlProofs!Override` | OverrideKept, and that its rest is ended by a trigger or a start without the state file only (`RestEnds`) | resting implies that neither the state nor the file says charging, and no command to charge is under way (`RestInv`) |
| `SocControlProofs!Limit` | StopsAtLimit | while calm, state, file, command and switch agree along the cycle (`LimitInv`) |
| `FlushSinkProofs!NotLost` | OwedNotLost | who drains has seen no success, so nothing is owed, unless the sink was closed, and then nothing is published (`LossInv`) |
| `FlushSinkProofs!Flat` | FlatBeforeSuccess | at most one publisher is between look and put; re-queueing needs a success (`FlatInv`) |
| `FlushSinkProofs!OnePlace` | a point is queued once, or in one batch | what is taken from the queue leaves it, and a flush that failed puts back only what it held (`PlaceInv`) |
| `FlushSinkProofs!Bounded` | queue and batches stay within their bounds | a batch that was full is put back one by one and stops at the bound, whoever filled the queue meanwhile (`SizeInv`) |
| `FlushSinkProofs!Implements` | ImplementsDelivery: every step is a step of `DeliveryQueue` or none | a point that leaves a batch is pending nowhere else (`PlaceInv`); the places are finite, so a full queue is as many points as there is room for (`SizeInv`); with the breaker on, what is owed is kept (`KeepInv`), hence who drains owes nothing |
| `FlushSinkProofs!DeliveryKeeps` | OwedNotLost, from the promise of `DeliveryQueue` alone | a point is owed until it is delivered or refused |
| `SamplerProofs!Backoff` | WaitBounded | the counter of the code is the number of failed connects, and zero within a session (`WaitInv`) |
| `SamplerProofs!EndsWhenAsked` | the process ends when asked (`Supervision`) | with a loop per battery, whoever waits no longer was asked to end, and so was the watchdog's thread (`Asked`); no flag is taken back |
| `SamplerProofs!SerialEndsForCause` | with one loop for all, nothing runs beside it and `main()` leaves it only when asked or for too many errors | only a restart cancels a loop, and the serial loop is never restarted; a loop that ended has a cause that is not taken back (`Cause`, `SerialInv`) |
| `SamplerProofs!AbortsInTime` | with watchdog, no loop goes on after more than `MaxErrors` errors | the count is checked where it is raised, and a new loop starts at zero (`InTime`) |
| `SamplerProofs!NoneStartsAgain` | a request to end is never taken back, and no loop starts after it | the flag counts up or is set to one; a restart looks at it |
| `PublicationProofs!AveragesAlways` | Averages | the ages in the window are an interval, from the newest sample to the last publication or one sample before it (`IWindow`); only a window of one sample survives a pop |
| `DriverAnswersProofs!AnswersFit` | AnswerFits | a frame a driver accepts carries the command of the query, and a frame that passes its checks is one the device sent for some command (`FrameMeans`); what daly gathers begins with a frame of that command (`Gathers`) |
| `DriverAnswersProofs!AnswersWhole` | WholeAnswers | the checks accept what the device sends and nothing else, for whatever buffer (`FrameMeans`), and the query that waits is one of the driver's (`Known`) |
| `DriverAnswersProofs!LoopsEnd` | the handler's loop ends on any bytes, and what it keeps is less than a frame | a round after which there is another has taken a byte, and one that ends the loop leaves no whole frame (`Steps`); induction over the rounds |
| `DriverAnswersProofs!HeldIsPartial` | between two chunks no whole frame is kept waiting | `LoopsEnd`, since only `Deliver` changes the buffer of such a driver |
| `DriverAnswersProofs!CutsDoNotMatter` | two chunks or one, a driver that looks for frames until none is left (jk, jbd, basen, basen_uart, pace, daly_uart) hands on the same frames and keeps the same bytes | a round after which there is another would be the same with more bytes to come (`StepMore`); one that waits drops only what holds no header, whatever comes (`WaitsFrom`), or keeps the last byte of a bad window of jk, which is enough (`LastByteSame`); induction on the bytes |
| `DriverAnswersProofs!StreamIsOne` | so it is for any number of chunks: what a driver has handed on depends on the bytes that came and not on how they were cut | `CutsDoNotMatter`, once per chunk |
| `ReadingsProofs!SilenceIsNotSampled` | SilentIsNotSampled | as long as the battery is silent, the step that needs its answer is still to come (`ToBeHeard`), or what victron remembers is as old as the silence (`Aged`) |
| `ReadingsProofs!SwitchesHold` | CommandsHold, and which steps move a switch: the battery, a command for it, or one of jbd for the other while what jbd remembers is out of date (`MovesAccounted`) | jbd, which writes both switches, has read them (`Remembered`); everyone else moves one |
| `ReadingsProofs!TopicsCatchUp` | CatchesUp | when the battery has been calm for longer than a driver lags behind, answers, caches, settings, notifications and parsed reports all say what it does (`Calm`), hence the sample that is under way does (`ReadRight`) |
| `PublicationProofs!FreshAlways` | Fresh, which is about the newest sample | the newest sample in what is shown was tolerated when it was published, and has aged by `heard` since; a sample waits no longer than that between the check and the publication (`IFresh`) |
| `PublicationProofs!AliveAlways` | KeepsAlive, for options that fit | time goes by in cycles (`ICycles`), what is held back was told at most m cycles ago (`ITold`), and the next publication is at most n + 1 cycles away, wherever the cycle stands and whatever the period's signal is (`ISoon`) |
| `PublicationProofs!OutagesForgotten` | OutageForgotten, for options that fit | what the downsampler holds is popped within n + 1 cycles, and until then is older than a fresh sample may be by those cycles only, or by the time since the last fault (`PopSoon`, `Popped`); what is shown was no staler when told and has aged by `heard` since (`Blends`), and KeepsAlive bounds that |

The type invariant of every module is proved too: `TypeCorrect` in
`FuturesPoolProofs`, `MetersProofs`, `SocControlProofs`, `FlushSinkProofs`,
`SamplerProofs` and `PublicationProofs`, `AnswersTyped`, `ReadingsTyped`, and
`Supervised` for `Supervision`, with the assumption on its constants as a
hypothesis.  For `Readings` it needs more than types: what a coroutine still has to
do is always the end of one of the driver's programs (`Programs`).  For
`DriverAnswers` it says that every handler, on any bytes, leaves and hands on
sequences of bytes, so that no length or position is taken outside a buffer: the
code relies on it where it indexes without a check.

The loops of the handlers are recursive functions over rounds or bytes.  The facts
about them are proved by induction over numbers, in the form of a least
counterexample (`Least`, `Induction` in `DriverAnswersProofs`): a set of numbers
that misses one has a least one that it misses, since the order of the naturals is
well-founded.  Stated with sets they need no operator as a parameter.

Only model-checked: liveness (`ForgivingRecovers`, `OwedDelivered`,
`CalmEnforced`, `Recovers`, `CommandsEnd`, `Shows`, the liveness of `RequestReply`,
that of `Supervision`: `ShutdownEnds`, `SilenceEnds`, `SerialAbortEnds`,
`Restarted`), since the prover covers neither fairness nor `ENABLED`;
and the violated properties.

## 4. Findings

A run marked violated states what a document, a comment or a message of the
repository says and what the code does not do; `PROJECT.json` quotes both.

| Run | Says | Does |
|---|---|---|
| `SocControl_retry` | doc/Algorithms.md:59, charging is turned off at charge_stop | the decision is stored before the write, and a write that fails is never repeated |
| `FlushSink_close` | sinks.py:184, a final flush is always attempted | it can block on a queue that the flush thread drained |

Others were met while modelling and have no run of their own.  Where a property
has to except one, its comment says so.

Documents and the code.

* README.md:259, meters are "increasing only": `store_states` reads the meters
  before it takes the lock (`main.py:70-72`), so a late snapshot of
  `background_thread` overwrites the final store and they fall back at the next
  start.  `FileNotAhead` is what holds, and that nothing else lowers them
  (`IncreasingOnly`).
* The identity of README.md:262 and the sign of the total, see Meters.
* README.md:277 recommends `keep_alive` for unstable connections: a half-done
  connect is kept for ever by drivers whose disconnect() raises in stop_notify
  (`jikong.py:270`, `litime.py:47`, `sok.py:110`, `daly.py:165`).
  `ForgivingRecovers` states the exception.
* README.md:134, too many errors stop the program: with `concurrent_sampling`
  every loop is restarted with fresh counts (`main.py:370-377`), hence
  `SerialAbortEnds`.
* README.md:129, averages over the publish period: a lone sample is kept and
  averaged again (`sampling.py:544-545`), hence the second case of `Averages`.
* README.md:132, a positive current discharges: jk_uart decodes it the other way
  round (`jikong_uart.py:174-182`).
* `pace.py:263-266`, `wired/__init__.py:11-13`: drivers declare how their port is
  to be read, but `bt.py:417-418` hands on the baud rate only.  A PACE port
  waits for a newline that the protocol does not have.
* `pace.py:329` rejects frames of another "pack/command", but compares the
  address only.
* Groups.md:23, switches are applied jointly: the errors of members are logged and
  the command is acknowledged (`group.py:123`).
* `main.py:329` is to move groups to the end, but sorts by `bms`, which is the
  variable of an earlier loop: a constant.
* Errors of the voltage query alone never re-connect, unlike CHANGELOG.md:228 and
  sampling.py:489.

Requests and answers.

* `acquire_timeout` replaces a pending future (`bmslib/__init__.py:41-50`), and a
  duplicate notification removes an answer that was not read yet (:52-59); loops
  that swallow their cancellation run beside their successors (:82, `main.py:377`).
* Two such loops feed the same meters.  When the first awaits the temperatures
  (`sampling.py:302`) and the other completes its cycle meanwhile, the total of the
  first raises (`pwmath.py:113`) or integrates another interval: charge and
  discharge have counted a sample that the total never sees, and it never catches
  up.  `GainBalanced` holds for what is metered while no cycles overlap.
* jk_uart hands on one frame a chunk (`jikong_uart.py:332`); jk_uart and daly_uart
  read by line and hold the end of an answer until the next newline byte.
* A chunk that starts with the two header bytes, or ends with the terminator, in
  the middle of an answer loses it for ant; a terminator in a short buffer raises.
* The handler of a serial driver runs in the receiving thread, without a lock: an
  answer that comes between the two resets of a jk_uart query leaves the event set
  and no frame (`jikong_uart.py:362-363`), and a future completed there is noticed
  when `background_loop` wakes the event loop.  The model takes the handler as one
  step between those of the event loop.
* `_on_receive` (`wired/__init__.py:35`) does not catch: a handler that raises ends
  the receiving thread.
* sok checks no CRC, asks for voltages with a byte over 255, and calls `getLeInt3`
  with a type it does not take.
* A frame of daly carries its number in the answer, not the request it answers
  (`daly.py:108-116`): late answers of a timed-out request fill the buffer of the
  next one, and two late answers that each lose a frame are put together to one
  that the device never sent.  It takes six faults; with five no mix is reached.
  `WholeAnswers` excepts the cells of daly and daly_uart, the one answer in pieces.
* daly2 swallows the timeout of a command and it is acknowledged; its one buffer is
  cleared by each request, so a command can destroy the answer to a fetch.

What is remembered.

* jbd: a second command before the next sample undoes the first.  jk: settings are
  read again only after a command.  daly: the topic shows a position up to 30 s
  old, and two commands at once make `invalidate` raise.
* victron: a value that is read again counts as new only if it changed
  (`victron.py:109`): a battery at rest raises SampleExpiredError.
* supervolt reports what it has with the time of the report; pace keeps the last
  direction when the status is not answered.

Publishing.

* After an outage the first average mixes in a sample from before it, however long
  ago: SampleExpiredError (`sampling.py:285`) comes before the sample is added
  (:372), and pop() leaves a lone sample where it is (:544).  `OutageForgotten` says
  how soon that is over.
* With options that do not fit (`Fits`), say samples every 9 s and values every
  11, a publication caused by a jump of the power shifts the hold-back and a
  sensor can expire (27 s after 22); with `expire_values_after` below 10 s sensors
  flicker.
* Publishing the sample again after an announcement has no effect when it is equal:
  it is held back (`sampling.py:467-470`).
* A client whose first connect() fails never starts its loop (`main.py:263-267`);
  switch topics are subscribed to once and are lost with the broker.
* The voltages of a group carry no time; temperatures that are None are not cached;
  samples of a window that was published to a broker that is down are gone.
* The voltages of a device share the rate limit of its samples in the telemetry
  sink (`sinks.py:483`); a restart forgets that a calibration is due
  (`algorithm.py:146`).

## 5. Plan

Done: every module above.  Left, in this order:

1. A composition of `Sampler` and `Supervision` for the serial loop.
2. `set_switch` of a group; the assembly of supervolt's text frames; the keep-alive
   loop of victron; the rate limit of `TelemetrySink`.

The number of runs is kept small: one or two per module, each over the widest
configuration that TLC finishes within minutes.  Where a module needed a new
run, a violated run whose finding is understood made room and its finding moved
to the list above.

## 6. Conventions

A step is the code between two awaits (coroutines) or two accesses to shared
data (threads).  Counters are capped at the threshold the code compares them
with.  Time is replaced by the order of events wherever the code has a timeout:
a timeout may fire at any time.  History variables are marked as such in the
VARIABLES of a module.

## 7. Not modelled

Decoding of fields, MQTT topics and discovery payloads (layout); the filters and
the pack temperature model (floating point, one caller); the scanner, the
connection proxies, the disk and ambient caches, the wrapper of external drivers
(I/O with little state of their own); the telemetry sink's rate limit; the dummy
and snoop drivers, tools and packaging (not part of the running program).
Within the modelled parts each component's entry in `PROJECT.json` names what it
leaves out.
