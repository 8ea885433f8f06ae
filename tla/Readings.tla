------------------------------ MODULE Readings -------------------------------
(***************************************************************************)
(* What the drivers report, and what becomes of switch commands.           *)
(*                                                                         *)
(* A driver is two programs, fetch() and set_switch(), each a sequence of  *)
(* steps between which other coroutines run.  The sampler runs fetch() in  *)
(* every cycle, and set_switch() when its algorithm says so; the worker    *)
(* (background_loop) runs set_switch() for the commands that come by MQTT. *)
(* Both use what the driver remembers of earlier answers.                  *)
(*                                                                         *)
(* Of a battery, the direction of the current and two switches are         *)
(* modelled.  A current is 1 when it discharges the battery (README.md:132)*)
(* and -1 when it charges it; its magnitude says nothing here.  Queries    *)
(* and the frames of answers are in DriverAnswers.  A tick is the sampling *)
(* period, about 10 s.                                                     *)
(***************************************************************************)
EXTENDS Integers, Sequences, FiniteSets, FiniteSetsExt, SequencesExt

CONSTANTS
    Drivers,     \* the drivers considered
    Ttl,         \* daly: mem_cache_deco(ttl=30), in ticks
    Expiry,      \* max(expire_after_seconds, MIN_VALUE_EXPIRY), in ticks
    MaxCommands, \* switch commands, of users and of the algorithm
    MaxChanges,  \* changes of the battery by itself, its end included
    MaxLost      \* answers lost

AllDrivers == {"jk", "jbd", "basen", "ant", "sok", "litime", "daly", "daly2",
               "noname", "supervolt", "victron", "jk_uart", "basen_uart",
               "pace"}

ASSUME ReadingsAssumption ==
    /\ Drivers \subseteq AllDrivers
    /\ {Ttl, Expiry} \subseteq Nat \ {0}
    /\ {MaxCommands, MaxChanges, MaxLost} \subseteq Nat

VARIABLES
    driver,    \* the driver
    dev,       \* the battery: its current and its switches
    dead,      \* it does not answer any more
    mem,       \* what the driver remembers
    run,       \* what the sampler and the worker have to do
    queue,     \* _message_queue
    topic,     \* the state topics, as published last
    sampled,   \* how this tick's cycle went: "no" (not yet), "ok", "failed"
    set,       \* the state each switch was last set to, if by a command
    calm,      \* ticks since anything changed or was lost
    silence,   \* ticks since the battery answered
    budget     \* commands, changes and losses to come

vars == <<driver, dev, dead, mem, run, queue, topic, sampled, set, calm,
          silence, budget>>

Switches == {"charge", "discharge"}
Position == [Switches -> BOOLEAN]
Unknown == <<>>       \* positions not known
Command == [switch : Switches, state : BOOLEAN]
Tasks == {"sampler", "worker"}

\* The drivers whose set_switch() sets something, and those which have none
\* but report switches.
Switching == {"jk", "jbd", "daly", "daly2", "ant"}
Showing == Switching \cup {"basen", "basen_uart", "pace", "jk_uart"}

-----------------------------------------------------------------------------
(* The current: what is on the wire, and what the driver makes of it.      *)

\* By the conventions of the protocols, from the comments and the decoders:
\* one number; charging and discharging magnitudes; status bits; a sign bit.
OffsetWire(flow) == 30000 + flow
MagnitudesWire(flow) == [charge |-> IF flow < 0 THEN 1 ELSE 0,
                         discharge |-> IF flow > 0 THEN 1 ELSE 0]
StatusWire(flow) == {bit \in {"charging", "discharging"} :
                         IF bit = "charging" THEN flow < 0 ELSE flow > 0}
SignBitWire(flow) == IF flow < 0 THEN 32768 + 1 ELSE 1
ChargingWire(flow) == -flow
DischargingWire(flow) == flow

Wire(d, flow) ==
    CASE d \in {"daly", "daly2"} -> OffsetWire(flow)
      [] d \in {"noname", "supervolt"} -> MagnitudesWire(flow)
      [] d \in {"basen_uart", "pace"} -> StatusWire(flow)
      [] d = "jk_uart" -> SignBitWire(flow)
      [] d \in {"jk", "jbd", "litime", "victron", "basen"} -> ChargingWire(flow)
      [] OTHER -> DischargingWire(flow)

JkCurrent(raw) == -raw
JbdCurrent(raw) == -raw
LitimeCurrent(raw) == -raw
VictronCurrent(raw) == -raw
BasenCurrent(raw) == -raw
AntCurrent(raw) == raw
SokCurrent(raw) == raw
DalyCurrent(raw) == raw - 30000
Daly2Current(raw) == raw - 30000
NoNameCurrent(raw) == raw.discharge - raw.charge
SuperVoltCurrent(raw) == -raw.charge + raw.discharge
JkUartCurrent(raw) == IF raw >= 32768 THEN raw - 32768 ELSE -raw

\* The status bits say the direction, and the current the magnitude.
BasenUartCurrent(raw) == IF "discharging" \in raw THEN 1 ELSE -1
PaceCurrent(raw) == IF "charging" \in raw THEN -1 ELSE 1

Current(d, raw) ==
    CASE d = "jk" -> JkCurrent(raw)
      [] d = "jbd" -> JbdCurrent(raw)
      [] d = "litime" -> LitimeCurrent(raw)
      [] d = "victron" -> VictronCurrent(raw)
      [] d = "basen" -> BasenCurrent(raw)
      [] d = "ant" -> AntCurrent(raw)
      [] d = "sok" -> SokCurrent(raw)
      [] d = "daly" -> DalyCurrent(raw)
      [] d = "daly2" -> Daly2Current(raw)
      [] d = "noname" -> NoNameCurrent(raw)
      [] d = "supervolt" -> SuperVoltCurrent(raw)
      [] d = "jk_uart" -> JkUartCurrent(raw)
      [] d = "basen_uart" -> BasenUartCurrent(raw)
      [] d = "pace" -> PaceCurrent(raw)

-----------------------------------------------------------------------------
(* The programs.                                                           *)

\* fetch(), a step per suspension; "all" asks for everything at once.
JkFetch == <<"hear", "settings">>
JbdFetch == <<"all">>
DalyFetch == <<"status", "soc">>
Daly2Fetch == <<"all">>
AntFetch == <<"all">>
BasenFetch == <<"all">>
BasenUartFetch == <<"all">>
PaceFetch == <<"analog", "direction">>
NoNameFetch == <<"all">>
LitimeFetch == <<"all">>
SokFetch == <<"all">>
JkUartFetch == <<"all">>
SuperVoltFetch == <<"request">>
VictronFetch == <<"values">>

Fetch(d) ==
    CASE d = "jk" -> JkFetch
      [] d = "jbd" -> JbdFetch
      [] d = "daly" -> DalyFetch
      [] d = "daly2" -> Daly2Fetch
      [] d = "ant" -> AntFetch
      [] d = "basen" -> BasenFetch
      [] d = "basen_uart" -> BasenUartFetch
      [] d = "pace" -> PaceFetch
      [] d = "noname" -> NoNameFetch
      [] d = "litime" -> LitimeFetch
      [] d = "sok" -> SokFetch
      [] d = "jk_uart" -> JkUartFetch
      [] d = "supervolt" -> SuperVoltFetch
      [] d = "victron" -> VictronFetch

\* Faulty: the settings are forgotten before the write.
JkSetSwitchEarly == <<"forget", "write">>

\* set_switch().
JkSetSwitch == <<"write", "forget">>
JbdSetSwitch == <<"learn", "write_both">>
DalySetSwitch == <<"forget_status", "status", "write">>
Daly2SetSwitch == <<"echo">>
AntSetSwitch == <<"write">>

\* BtBms.set_switch of any other driver raises.
SetSwitch(d) ==
    CASE d = "jk" -> JkSetSwitch
      [] d = "jbd" -> JbdSetSwitch
      [] d = "daly" -> DalySetSwitch
      [] d = "daly2" -> Daly2SetSwitch
      [] d = "ant" -> AntSetSwitch
      [] OTHER -> <<"refuse">>

\* What the sampler does with what fetch() returns.
Cycle(d) == Fetch(d) \o <<"sample">>

\* Steps that wait for an answer.
Asking == {"hear", "all", "soc", "ask_status", "ask_settings", "analog",
           "direction", "reread", "ask_known", "echo"}

NoReply == [live |-> FALSE]
Idle == [todo |-> <<>>, cmd |-> [switch |-> "charge", state |-> FALSE],
         reply |-> NoReply, flow |-> 0, sw |-> Unknown, age |-> 0]

Init ==
    /\ driver \in Drivers
    /\ dev = [flow |-> 1, sw |-> [s \in Switches |-> TRUE]]
    /\ dead = FALSE
    /\ mem = [flow |-> IF driver = "victron" THEN 1 ELSE 0, age |-> 0,
              sw |-> Unknown, swAge |-> 0, late |-> NoReply]
    /\ run = [t \in Tasks |-> Idle]
    /\ queue = <<>> /\ topic = [flow |-> 0, sw |-> Unknown]
    /\ sampled = "no"
    /\ set = [s \in Switches |-> {}]
    /\ calm = 0 /\ silence = 0
    /\ budget = [commands |-> MaxCommands, changes |-> MaxChanges,
                 losses |-> MaxLost]

-----------------------------------------------------------------------------
(* The battery and the users.                                              *)

Changes ==
    /\ budget.changes > 0
    /\ budget' = [budget EXCEPT !.changes = @ - 1]
    /\ \/ /\ dev' = [dev EXCEPT !.flow = -@] /\ UNCHANGED set
       \/ \E s \in Switches :
            /\ dev' = [dev EXCEPT !.sw[s] = ~@]
            /\ set' = [set EXCEPT ![s] = {}]
    /\ calm' = 0
    /\ UNCHANGED <<driver, dead, mem, run, queue, topic, sampled, silence>>

Dies ==
    /\ ~dead /\ dead' = TRUE /\ budget.changes > 0
    /\ budget' = [budget EXCEPT !.changes = @ - 1]
    /\ UNCHANGED <<driver, dev, mem, run, queue, topic, sampled, set, calm,
                   silence>>

\* victron: a value comes by itself.
HandleNotification ==
    /\ driver = "victron" /\ ~dead
    /\ mem' = [mem EXCEPT !.flow = Current(driver, Wire(driver, dev.flow)),
                          !.age = 0]
    /\ silence' = 0
    /\ UNCHANGED <<driver, dev, dead, run, queue, topic, sampled, set, calm,
                   budget>>

\* The MQTT thread; topics are subscribed to with the first sample.
MessageHandler ==
    /\ topic.sw # Unknown /\ budget.commands > 0
    /\ budget' = [budget EXCEPT !.commands = @ - 1]
    /\ \E c \in Command : queue' = Append(queue, c)
    /\ UNCHANGED <<driver, dev, dead, mem, run, topic, sampled, set, calm,
                   silence>>

-----------------------------------------------------------------------------
(* Answers                                                                 *)

At(t, steps) == run[t].todo # <<>> /\ Head(run[t].todo) \in steps
Waits(t) == At(t, Asking) /\ ~run[t].reply.live

\* Two queries of the same command wait for one another (acquire_timeout).
Busy(t) == \E u \in Tasks \ {t} : /\ run[u].reply.live
                                  /\ At(u, {Head(run[t].todo)})

Snapshot == [live |-> TRUE, raw |-> Wire(driver, dev.flow), sw |-> dev.sw]

\* Task t goes on, as r; it does s instead of a step; it raises.
Goes(t, r) == run' = [run EXCEPT ![t] = [r EXCEPT !.todo = Tail(@),
                                                  !.reply = NoReply]]
Inserts(t, s) == run' = [run EXCEPT ![t].todo = [@ EXCEPT ![1] = s]]
Fails(t) ==
    /\ run' = [run EXCEPT ![t] = Idle]
    /\ sampled' = IF t = "sampler" THEN "failed" ELSE sampled

\* The command of t moves the switches to sw.  What a command has set before
\* stays set, but what jbd does not remember right.
Sets(t, sw) ==
    LET c == run[t].cmd
    IN /\ dev' = [dev EXCEPT !.sw = sw] /\ calm' = 0
       /\ set' = [s \in Switches |->
                      IF s = c.switch THEN {c.state}
                      ELSE IF driver = "jbd" /\ mem.sw[s] # dev.sw[s]
                      THEN {} ELSE set[s]]

\* A write of daly2 is answered when it is done.
Answer(t) ==
    /\ Waits(t) /\ ~dead /\ ~Busy(t)
    /\ IF At(t, {"echo"}) THEN Sets(t, [dev.sw EXCEPT ![run[t].cmd.switch] =
                                            run[t].cmd.state])
       ELSE UNCHANGED <<dev, set, calm>>
    /\ run' = [run EXCEPT ![t].reply = Snapshot]
    /\ silence' = 0
    /\ UNCHANGED <<driver, dead, mem, queue, topic, sampled, budget>>

\* daly2._q clears the buffer the other task's answer may be in.
Disturbed(t) == driver = "daly2" /\ \E u \in Tasks \ {t} : Waits(u)

\* Faulty: a timeout is logged.
TolerantOfAll == Asking

\* pace goes on without the direction, daly2 without the echo; any other
\* timeout raises.
Tolerant == {"direction", "echo"}

NoAnswer(t) ==
    /\ Waits(t) /\ (dead \/ Disturbed(t) \/ budget.losses > 0)
    /\ budget' = IF dead \/ Disturbed(t) THEN budget
                 ELSE [budget EXCEPT !.losses = @ - 1]
    /\ IF At(t, Tolerant) THEN Goes(t, run[t]) /\ UNCHANGED sampled ELSE Fails(t)
    /\ calm' = 0
    /\ UNCHANGED <<driver, dev, dead, mem, queue, topic, set, silence>>

-----------------------------------------------------------------------------
(* Steps.  What is read goes into the task's flow, sw and age.             *)

Current1(t) == Current(driver, run[t].reply.raw)
Rest == <<driver, dead, queue, topic, silence, budget>>

\* The answer to a query is there.
Reads(t) ==
    /\ At(t, Asking \ {"echo", "reread"}) /\ run[t].reply.live
    /\ LET with == [run[t] EXCEPT !.flow = Current1(t), !.sw = run[t].reply.sw]
           sw == [mem EXCEPT !.sw = run[t].reply.sw, !.swAge = 0]
       IN CASE At(t, {"hear", "soc"}) ->
                 Goes(t, [run[t] EXCEPT !.flow = Current1(t)]) /\ UNCHANGED mem
            [] At(t, {"ask_settings", "ask_status", "ask_known"}) ->
                 Goes(t, [run[t] EXCEPT !.sw = run[t].reply.sw]) /\ mem' = sw
            [] At(t, {"all"}) -> Goes(t, with) /\ mem' = sw
            [] At(t, {"direction"}) ->
                 Goes(t, with) /\ mem' = [mem EXCEPT !.flow = Current1(t)]
            [] At(t, {"analog"}) ->
                 \E raw \in {-1, 1} :
                     /\ Goes(t, [run[t] EXCEPT !.flow =
                                     IF mem.flow # 0 THEN mem.flow ELSE raw])
                     /\ UNCHANGED mem
    /\ UNCHANGED <<Rest, dev, set, calm, sampled>>

\* jk asks for the settings only when they are forgotten, jbd for the
\* switches only before the first sample.
Remembers(t) ==
    /\ At(t, {"settings", "learn"})
    /\ IF mem.sw # Unknown THEN Goes(t, [run[t] EXCEPT !.sw = mem.sw])
       ELSE Inserts(t, IF At(t, {"learn"}) THEN "ask_known" ELSE "ask_settings")
    /\ UNCHANGED <<Rest, dev, set, calm, sampled, mem>>

\* mem_cache_deco: the status of the last Ttl.
FetchStatus(t) ==
    /\ At(t, {"status"})
    /\ IF mem.sw # Unknown /\ mem.swAge <= Ttl
       THEN Goes(t, [run[t] EXCEPT !.sw = mem.sw])
       ELSE Inserts(t, "ask_status")
    /\ UNCHANGED <<Rest, dev, set, calm, sampled, mem>>

\* invalidate(): del raises when there is nothing.
Invalidate(t) ==
    /\ At(t, {"forget_status"})
    /\ IF mem.sw = Unknown THEN Fails(t) /\ UNCHANGED mem
       ELSE /\ Goes(t, run[t]) /\ UNCHANGED sampled
            /\ mem' = [mem EXCEPT !.sw = Unknown]
    /\ UNCHANGED <<Rest, dev, set, calm>>

\* Faulty: forgets the switch of the command.
ForgetOne(t) ==
    /\ At(t, {"forget"})
    /\ Goes(t, run[t])
    /\ mem' = [mem EXCEPT !.sw = IF @ = Unknown THEN @ ELSE
                   [s \in Switches \ {run[t].cmd.switch} |-> @[s]]]
    /\ UNCHANGED <<Rest, dev, set, calm, sampled>>

\* jk: the settings are forgotten .2 s after the write: an answer asked for
\* before it is there by then.
Forget(t) ==
    /\ At(t, {"forget"})
    /\ ~\E u \in Tasks : At(u, {"ask_settings"}) /\ run[u].reply.live
    /\ Goes(t, run[t]) /\ mem' = [mem EXCEPT !.sw = Unknown]
    /\ UNCHANGED <<Rest, dev, set, calm, sampled>>

\* supervolt: notificationReceived stays set, so the answer may be parsed
\* before fetch() goes on, or later, or be lost: fetch() reports what is there.
RequestData(t) ==
    /\ At(t, {"request"})
    /\ LET parsed == IF mem.late.live THEN Current(driver, mem.late.raw)
                     ELSE mem.flow
           now == Current(driver, Wire(driver, dev.flow))
       IN \/ /\ ~dead /\ silence' = 0
             /\ \/ mem' = [mem EXCEPT !.flow = now, !.late = NoReply]
                \/ mem' = [mem EXCEPT !.flow = parsed, !.late = Snapshot]
             /\ UNCHANGED <<budget, calm>>
          \/ /\ dead \/ budget.losses > 0
             /\ budget' = IF dead THEN budget
                          ELSE [budget EXCEPT !.losses = @ - 1]
             /\ mem' = [mem EXCEPT !.flow = parsed, !.late = NoReply]
             /\ calm' = 0 /\ UNCHANGED silence
    /\ IF mem'.flow = 0 THEN Fails(t)
       ELSE Goes(t, [run[t] EXCEPT !.flow = mem'.flow]) /\ UNCHANGED sampled
    /\ UNCHANGED <<driver, dead, queue, topic, dev, set>>

\* victron: a value older than 10 s is read again.
Values(t) ==
    /\ At(t, {"values"})
    /\ IF mem.age <= 1
       THEN Goes(t, [run[t] EXCEPT !.flow = mem.flow, !.age = mem.age])
       ELSE Inserts(t, "reread")
    /\ UNCHANGED <<Rest, dev, set, calm, sampled, mem>>

\* It counts as new only if it changed.
Reread(t) ==
    /\ At(t, {"reread"}) /\ run[t].reply.live
    /\ LET changed == Current1(t) # mem.flow
           age == IF changed THEN 0 ELSE mem.age
       IN /\ mem' = [mem EXCEPT !.flow = Current1(t), !.age = age]
          /\ Goes(t, [run[t] EXCEPT !.flow = Current1(t), !.age = age])
    /\ UNCHANGED <<Rest, dev, set, calm, sampled>>

On(sw) == {s \in Switches : sw[s]}

\* Faulty: the two codes are swapped.
JbdCodeSwapped(sw, c) ==
    IF On(sw) = Switches THEN 0
    ELSE IF On(sw) = {} THEN 3
    ELSE IF \/ c.switch = "charge" /\ ~c.state
            \/ c.switch = "discharge" /\ c.state
    THEN 2 ELSE 1

\* jbd sets both switches with one code.
JbdCode(sw, c) ==
    IF On(sw) = Switches THEN 0
    ELSE IF On(sw) = {} THEN 3
    ELSE IF \/ c.switch = "charge" /\ ~c.state
            \/ c.switch = "discharge" /\ c.state
    THEN 1 ELSE 2

\* The bits of the code: 1 charging is off, 2 discharging is off.
JbdMeans(code) == [s \in Switches |-> IF s = "charge" THEN code \in {0, 2}
                                      ELSE code \in {0, 1}]

\* write_gatt_char raises when the link is gone.
Writes(t) ==
    /\ At(t, {"write", "write_both"})
    /\ LET c == run[t].cmd
           both == [mem.sw EXCEPT ![c.switch] = c.state]
       IN IF dead THEN Fails(t) /\ UNCHANGED <<dev, set, calm>>
          ELSE /\ Goes(t, run[t]) /\ UNCHANGED sampled
               /\ IF At(t, {"write_both"})
                  THEN Sets(t, JbdMeans(JbdCode(both, c)))
                  ELSE Sets(t, [dev.sw EXCEPT ![c.switch] = c.state])
    /\ UNCHANGED <<Rest, mem>>

Echoed(t) ==
    /\ At(t, {"echo"}) /\ run[t].reply.live
    /\ Goes(t, run[t])
    /\ mem' = [mem EXCEPT !.sw = IF @ = Unknown THEN @ ELSE
                   [@ EXCEPT ![run[t].cmd.switch] = run[t].cmd.state]]
    /\ UNCHANGED <<Rest, dev, set, calm, sampled>>

Refuses(t) ==
    /\ At(t, {"refuse"}) /\ Fails(t)
    /\ UNCHANGED <<Rest, mem, dev, set, calm>>

-----------------------------------------------------------------------------
(* The sampler and the worker.                                             *)

\* fetch_loop: one cycle per period.
Samples ==
    /\ sampled = "no" /\ run["sampler"].todo = <<>>
    /\ run' = [run EXCEPT !["sampler"] = [Idle EXCEPT !.todo = Cycle(driver)]]
    /\ UNCHANGED <<driver, dev, dead, mem, queue, topic, sampled, set, calm,
                   silence, budget>>

\* SampleExpiredError.
Expired(age) == age > Expiry

\* A sample without switches (pace) leaves their topics alone.
Published(r) == [flow |-> r.flow,
                 sw |-> IF driver \in Showing /\ r.sw # Unknown THEN r.sw
                        ELSE topic.sw]

\* A sample that is too old raises.  The algorithm may want a switch set
\* before the sample is published.
HasSample ==
    /\ At("sampler", {"sample"})
    /\ \/ /\ Expired(run["sampler"].age) /\ Fails("sampler")
          /\ UNCHANGED <<topic, budget>>
       \/ /\ ~Expired(run["sampler"].age)
          /\ topic' = Published(run["sampler"])
          /\ sampled' = "ok" /\ run' = [run EXCEPT !["sampler"] = Idle]
          /\ UNCHANGED budget
       \/ /\ ~Expired(run["sampler"].age)
          /\ driver \in Switching /\ budget.commands > 0
          /\ budget' = [budget EXCEPT !.commands = @ - 1]
          /\ \E c \in Command :
               run' = [run EXCEPT !["sampler"].todo =
                           SetSwitch(driver) \o <<"publish">>,
                                  !["sampler"].cmd = c]
          /\ UNCHANGED <<topic, sampled>>
    /\ UNCHANGED <<driver, dead, queue, silence, mem, dev, set, calm>>

\* The algorithm's switches are set.
Publish ==
    /\ At("sampler", {"publish"})
    /\ topic' = Published(run["sampler"])
    /\ sampled' = "ok" /\ run' = [run EXCEPT !["sampler"] = Idle]
    /\ UNCHANGED <<driver, dead, queue, silence, budget, mem, dev, set, calm>>

\* Faulty: a command that fails is tried again.
TakesUntilDone ==
    /\ queue # <<>> /\ run["worker"].todo = <<>>
    /\ queue' = IF dead THEN queue ELSE Tail(queue)
    /\ run' = [run EXCEPT !["worker"] =
                   [Idle EXCEPT !.todo = SetSwitch(driver) \o <<"ack">>,
                                !.cmd = Head(queue)]]
    /\ UNCHANGED <<driver, dev, dead, mem, topic, sampled, set, calm,
                   silence, budget>>

\* mqtt_process_action_queue; what a callback raises is logged.
Takes ==
    /\ queue # <<>> /\ run["worker"].todo = <<>>
    /\ queue' = Tail(queue)
    /\ run' = [run EXCEPT !["worker"] =
                   [Idle EXCEPT !.todo = SetSwitch(driver) \o <<"ack">>,
                                !.cmd = Head(queue)]]
    /\ UNCHANGED <<driver, dev, dead, mem, topic, sampled, set, calm,
                   silence, budget>>

\* set_switch of subscribe_switches publishes the state it has set.
Ack ==
    /\ At("worker", {"ack"})
    /\ LET c == run["worker"].cmd
       IN topic' = [topic EXCEPT !.sw = IF @ = Unknown THEN @ ELSE
                                          [@ EXCEPT ![c.switch] = c.state]]
    /\ run' = [run EXCEPT !["worker"] = Idle]
    /\ calm' = 0
    /\ UNCHANGED <<driver, dead, queue, silence, budget, mem, dev, set, sampled>>

\* Each clock runs as far as anything asks for it.
After(clock, last) == IF clock > last THEN clock ELSE clock + 1

\* A period goes by: the commands are done by then, and so is the cycle.
Tick ==
    /\ sampled # "no" /\ queue = <<>>
    /\ \A t \in Tasks : run[t].todo = <<>>
    /\ sampled' = "no"
    /\ calm' = After(calm, Ttl) /\ silence' = After(silence, Expiry)
    /\ mem' = [mem EXCEPT
                 !.age = IF driver = "victron" THEN After(@, Expiry) ELSE @,
                 !.swAge = IF driver = "daly" THEN After(@, Ttl) ELSE @]
    /\ UNCHANGED <<driver, dev, dead, run, queue, topic, set, budget>>

Steps(t) == \/ Answer(t) \/ Reads(t) \/ Remembers(t) \/ FetchStatus(t)
            \/ Invalidate(t) \/ Forget(t) \/ RequestData(t) \/ Values(t)
            \/ Reread(t) \/ Writes(t) \/ Echoed(t) \/ Refuses(t)

Proceeds == Samples \/ HasSample \/ Publish \/ Takes \/ Ack

Next ==
    \/ Changes \/ Dies \/ HandleNotification \/ MessageHandler \/ Tick
    \/ Proceeds
    \/ \E t \in Tasks : Steps(t) \/ NoAnswer(t)

\* Coroutines that can go on do; an answer comes or the timeout.
Fairness == /\ WF_vars(Proceeds)
            /\ \A t \in Tasks : WF_vars(Steps(t) \/ NoAnswer(t))

Spec == Init /\ [][Next]_vars /\ Fairness

-----------------------------------------------------------------------------
(* Properties                                                              *)

\* Every variable keeps its type.
TypeOK ==
    /\ driver \in Drivers /\ dead \in BOOLEAN
    /\ dev.flow \in {-1, 1} /\ dev.sw \in Position
    /\ mem.flow \in -1..1 /\ mem.sw \in Position \cup {Unknown}
    /\ {mem.swAge, calm} \subseteq 0..Ttl + 1
    /\ {mem.age, silence} \subseteq 0..Expiry + 1
    /\ \A t \in Tasks : run[t].flow \in -1..1 /\ run[t].cmd \in Command
    /\ topic.flow \in -1..1 /\ topic.sw \in Position \cup {Unknown}
    /\ sampled \in {"no", "ok", "failed"}

\* How long what a driver remembers may be behind.
Behind(d) == CASE d = "daly" -> Ttl + 1 [] d \in {"supervolt", "victron"} -> 2
                  [] OTHER -> 1

\* jk asks for the settings again only after a command.
Followed == {s \in Switches : driver # "jk" \/ set[s] # {}}

\* What the battery has been doing for a while is what a sample says: once
\* nothing changes, no command runs and no answer is lost for as long as the
\* driver may remember things, the topics show the current's direction and the
\* switches as they are.  The exceptions are the direction of jk_uart (see
\* the README) and switches of jk that are set by other means.
CatchesUp ==
    sampled = "ok" /\ calm >= Behind(driver) =>
        /\ driver # "jk_uart" => topic.flow = dev.flow
        /\ driver \in Showing =>
               \A s \in Followed : topic.sw[s] = dev.sw[s]

\* A switch stays as the last command has set it, until it moves by itself or
\* by the next command for it: no command moves the other switch.  jbd may,
\* when a command comes before a sample has shown it what the one before did.
CommandsHold ==
    \A s \in Switches : set[s] \subseteq {dev.sw[s]}

\* A battery that does not answer is not sampled for longer than values live,
\* whatever the driver remembers of it.  supervolt is the exception: it
\* reports what it has, with the time of the report.
SilentIsNotSampled ==
    driver # "supervolt" /\ sampled = "ok" => silence <= Expiry

\* Whatever a driver does with a command, the queue is worked off.
CommandsEnd == []<>(queue = <<>>)
=============================================================================
