----------------------------- MODULE FuturesPool -----------------------------
(***************************************************************************)
(* FuturesPool and FutureContext (bmslib/__init__.py): the rendezvous of   *)
(* the coroutines that write a command to a BMS (a driver's _q) and the    *)
(* notification handler that decodes its answer.  Callers are the sampler  *)
(* task and the switch commands of background_loop (main.py); they run     *)
(* on one event loop, so a step of the model is the code between two       *)
(* awaits.                                                                 *)
(*                                                                         *)
(*     with [await] pool.acquire[_timeout](name, t):                       *)
(*         await client.write_gatt_char(...)                               *)
(*         return await pool.wait_for(name, t)                             *)
(*                                                                         *)
(* A name is a response code, or a tuple of them (jikong.py _q(cmd,        *)
(* (2, 1))): the tuple forms gather() one task per name.  A gather that    *)
(* fails leaves the tasks of the other names running: the stragglers.      *)
(* Futures are numbered per name in the order of their creation.  When a   *)
(* timeout fires is left open: any wait may expire.                        *)
(*                                                                         *)
(* A definition commented "Faulty" is a variant of the one that follows it *)
(* with a plausible bug; a property of this module must tell them apart.   *)
(***************************************************************************)
EXTENDS Naturals, FiniteSets

CONSTANTS
    Callers,     \* coroutines using the pool of one BMS
    Names,       \* single future names
    Requests,    \* the sets of names asked for at once, {n} for a single one
    Patient,     \* TRUE: acquire_timeout (Daly, JK, ANT), FALSE: acquire
    MaxFutures   \* bound on the futures created for one name

ASSUME PoolAssumption ==
    /\ Requests \subseteq SUBSET Names
    /\ Patient \in BOOLEAN
    /\ MaxFutures \in Nat
    \* Every driver that uses acquire() asks for one name at a time.
    /\ ~Patient => \A R \in Requests : \E n \in Names : R = {n}

VARIABLES
    pool,        \* pool[n]: the future registered under n, None if absent
    last,        \* last[n]: the number of futures ever created for n
    fin,         \* fin[n]: the futures of n that hold a result
    canc,        \* canc[n]: the futures of n that were cancelled
    pc,          \* pc[c]: "idle", "acquire" (and write) or "wait"
    req,         \* req[c]: the names of the caller's request
    sub,         \* sub[c][n]: where its coroutine for name n stands
    ref,         \* ref[c][n]: the future that coroutine polls or awaits
    own,         \* own[c][n]: the future it created
    stragglers,  \* coroutines that outlived their gather()
    outcome,     \* outcome[c]: how the last request ended
    heard        \* history: names notified since the caller acquired them

callerVars == <<pc, req, sub, ref, own, outcome>>
vars == <<pool, last, fin, canc, callerVars, stragglers, heard>>

None == 0
SubStates == {"-", "start", "poll", "held", "await", "got", "failed"}
Outcomes == {"-", "ok", "busy", "unsent", "timeout", "missing"}

-----------------------------------------------------------------------------
Done(n, f) == f \in fin[n] \cup canc[n]
Pending(n) == pool[n] # None /\ ~Done(n, pool[n])
Holds(c, n) == sub[c][n] \in {"held", "await", "got"}
Single(c) == \E n \in Names : req[c] = {n}

\* Bound: a request starts only while its futures fit in MaxFutures.
Fits(n) ==
    last[n] + Cardinality({c \in Callers : sub[c][n] \in {"start", "poll"}})
            + Cardinality({z \in stragglers : z.kind = "poll" /\ z.name = n}) < MaxFutures

Init ==
    /\ pool = [n \in Names |-> None]
    /\ last = [n \in Names |-> 0]
    /\ fin = [n \in Names |-> {}]
    /\ canc = [n \in Names |-> {}]
    /\ pc = [c \in Callers |-> "idle"]
    /\ req = [c \in Callers |-> {}]
    /\ sub = [c \in Callers |-> [n \in Names |-> "-"]]
    /\ ref = [c \in Callers |-> [n \in Names |-> None]]
    /\ own = [c \in Callers |-> [n \in Names |-> None]]
    /\ stragglers = {}
    /\ outcome = [c \in Callers |-> "-"]
    /\ heard = [c \in Callers |-> {}]

\* remove(name): pops whatever is registered, the caller's future or not.
Remove(R) == pool' = [n \in Names |-> IF n \in R THEN None ELSE pool[n]]

\* Faulty: the names of the caller are dropped instead of reset.
FinishForgets(c, o) ==
    /\ pc' = [pc EXCEPT ![c] = "idle"]
    /\ outcome' = [outcome EXCEPT ![c] = o]
    /\ sub' = [sub EXCEPT ![c] = [n \in Names |-> "-"]]
    /\ ref' = [ref EXCEPT ![c] = [n \in Names |-> None]]
    /\ own' = [own EXCEPT ![c] = [n \in {} |-> None]]
    /\ UNCHANGED <<req, heard>>

\* The request of c is over with outcome o.
Finish(c, o) ==
    /\ pc' = [pc EXCEPT ![c] = "idle"]
    /\ outcome' = [outcome EXCEPT ![c] = o]
    /\ sub' = [sub EXCEPT ![c] = [n \in Names |-> "-"]]
    /\ ref' = [ref EXCEPT ![c] = [n \in Names |-> None]]
    /\ own' = [own EXCEPT ![c] = [n \in Names |-> None]]
    /\ UNCHANGED <<req, heard>>

\* The coroutine of c for name n moves to state s and refers to future f.
Step(c, n, s, f) ==
    /\ pc' = [pc EXCEPT ![c] = IF s = "await" THEN "wait" ELSE @]
    /\ sub' = [sub EXCEPT ![c][n] = s]
    /\ ref' = [ref EXCEPT ![c][n] = f]
    /\ UNCHANGED <<req, own, outcome, heard>>

-----------------------------------------------------------------------------
(* Entering the with statement.                                            *)

Start(c, R) ==
    /\ pc[c] = "idle"
    /\ \A n \in R : Fits(n)
    /\ pc' = [pc EXCEPT ![c] = "acquire"]
    /\ req' = [req EXCEPT ![c] = R]
    /\ sub' = [sub EXCEPT ![c] = [n \in Names |-> IF n \in R THEN "start" ELSE "-"]]
    /\ outcome' = [outcome EXCEPT ![c] = "-"]
    /\ heard' = [heard EXCEPT ![c] = {}]
    /\ UNCHANGED <<pool, last, fin, canc, ref, own, stragglers>>

\* fut = asyncio.Future(); self._futures[name] = fut
Create(c, n) ==
    /\ last' = [last EXCEPT ![n] = @ + 1]
    /\ pool' = [pool EXCEPT ![n] = last[n] + 1]
    /\ own' = [own EXCEPT ![c][n] = last[n] + 1]
    /\ sub' = [sub EXCEPT ![c][n] = "held"]
    /\ ref' = [ref EXCEPT ![c][n] = None]
    /\ UNCHANGED <<pc, req, outcome, heard>>

\* Faulty: takes over a done future that is still registered.
TryAcquireReusing(c, n) ==
    /\ pc[c] = "acquire" /\ sub[c][n] = "start"
    /\ IF pool[n] = None THEN Create(c, n)
       ELSE IF Pending(n) THEN Finish(c, "busy") /\ UNCHANGED <<pool, last>>
       ELSE Step(c, n, "held", None) /\ UNCHANGED <<pool, last>>
    /\ UNCHANGED <<fin, canc, stragglers>>

TryAcquire(c, n) ==
    /\ pc[c] = "acquire" /\ sub[c][n] = "start"
    /\ \/ /\ ~Pending(n)
          /\ Create(c, n)
       \/ /\ Pending(n) /\ Patient
          /\ Step(c, n, "poll", pool[n])
          /\ UNCHANGED <<pool, last>>
       \/ /\ Pending(n) /\ ~Patient          \* raises "already waiting"
          /\ Finish(c, "busy")
          /\ UNCHANGED <<pool, last>>
    /\ UNCHANGED <<fin, canc, stragglers>>

\* Faulty: goes on with the future it polled.
PollEndsReusing(c, n) ==
    /\ pc[c] = "acquire" /\ sub[c][n] = "poll" /\ Done(n, ref[c][n])
    /\ Step(c, n, "held", None)
    /\ UNCHANGED <<pool, last, fin, canc, stragglers>>

\* The future seen when polling began is done.  The pool is not read again.
PollEnds(c, n) ==
    /\ pc[c] = "acquire" /\ sub[c][n] = "poll" /\ Done(n, ref[c][n])
    /\ Create(c, n)
    /\ UNCHANGED <<fin, canc, stragglers>>

\* Raises "still waiting"; the with block is never entered, nothing removed.
PollGivesUp(c, n) ==
    /\ pc[c] = "acquire" /\ sub[c][n] = "poll" /\ ~Done(n, ref[c][n])
    /\ IF Single(c) THEN Finish(c, "busy") ELSE Step(c, n, "failed", None)
    /\ UNCHANGED <<pool, last, fin, canc, stragglers>>

-----------------------------------------------------------------------------
(* The body of the with statement.                                         *)

Entered(c) == pc[c] = "acquire" /\ \A n \in req[c] : sub[c][n] = "held"

\* The write returns; wait_for gathers one coroutine per name.
WriteDone(c) ==
    /\ Entered(c) /\ ~Single(c)
    /\ pc' = [pc EXCEPT ![c] = "wait"]
    /\ UNCHANGED <<pool, last, fin, canc, req, sub, ref, own, outcome, stragglers, heard>>

\* Faulty: no with statement, the name is removed by wait_for alone.
WriteFailsHolding(c) ==
    /\ Entered(c)
    /\ Finish(c, "unsent")
    /\ UNCHANGED <<pool, last, fin, canc, stragglers>>

WriteFails(c) ==
    /\ Entered(c)
    /\ Finish(c, "unsent")
    /\ Remove(req[c])
    /\ UNCHANGED <<last, fin, canc, stragglers>>

\* wait_for(n) begins: the future is looked up by name.  For a single name
\* nothing runs between the end of the write and the look-up.
Lookup(c, n) ==
    /\ sub[c][n] = "held"
    /\ pc[c] = "wait" \/ (Entered(c) /\ Single(c))
    /\ IF pool[n] # None THEN Step(c, n, "await", pool[n])
       ELSE IF Single(c) THEN Finish(c, "missing")   \* KeyError('future %s not found')
       ELSE Step(c, n, "failed", None)
    /\ UNCHANGED <<pool, last, fin, canc, stragglers>>

Deliver(c, n) ==
    /\ pc[c] = "wait" /\ sub[c][n] = "await" /\ ref[c][n] \in fin[n]
    /\ Remove({n})
    /\ IF Single(c) THEN Finish(c, "ok") ELSE Step(c, n, "got", ref[c][n])
    /\ UNCHANGED <<last, fin, canc, stragglers>>

\* Faulty: the timeout is not passed on.
ExpireNever(c, n) ==
    /\ pc[c] = "wait" /\ sub[c][n] = "await" /\ ref[c][n] \in canc[n]
    /\ Remove({n})
    /\ IF Single(c) THEN Finish(c, "timeout") ELSE Step(c, n, "failed", None)
    /\ UNCHANGED <<last, fin, canc, stragglers>>

\* asyncio.wait_for cancels the future it gave up on; a future cancelled by
\* someone else ends the wait the same way.
Expire(c, n) ==
    /\ pc[c] = "wait" /\ sub[c][n] = "await" /\ ref[c][n] \notin fin[n]
    /\ canc' = [canc EXCEPT ![n] = @ \cup {ref[c][n]}]
    /\ Remove({n})
    /\ IF Single(c) THEN Finish(c, "timeout") ELSE Step(c, n, "failed", None)
    /\ UNCHANGED <<last, fin, stragglers>>

-----------------------------------------------------------------------------
(* The end of a gather() over several names.                               *)

\* Those of the caller's coroutines that are in state s keep running.
Detached(c, s) ==
    {[kind |-> s, caller |-> c, name |-> n, fut |-> ref[c][n]] :
        n \in {m \in req[c] : sub[c][m] = s}}

\* gather() of acquire_timeout raised: the futures already created stay.
AcquireRaises(c) ==
    /\ pc[c] = "acquire"
    /\ \E n \in req[c] : sub[c][n] = "failed"
    /\ \A n \in req[c] : sub[c][n] # "start"
    /\ stragglers' = stragglers \cup Detached(c, "poll")
    /\ Finish(c, "busy")
    /\ UNCHANGED <<pool, last, fin, canc>>

WaitRaises(c) ==
    /\ pc[c] = "wait"
    /\ \E n \in req[c] : sub[c][n] = "failed"
    /\ \A n \in req[c] : sub[c][n] # "held"
    /\ stragglers' = stragglers \cup Detached(c, "await")
    /\ Finish(c, "timeout")
    /\ Remove(req[c])
    /\ UNCHANGED <<last, fin, canc>>

Return(c) ==
    /\ pc[c] = "wait" /\ \A n \in req[c] : sub[c][n] = "got"
    /\ Finish(c, "ok")
    /\ Remove(req[c])
    /\ UNCHANGED <<last, fin, canc, stragglers>>

\* A detached acquire_timeout creates a future no caller will wait for ...
StragglerCreates(z) ==
    /\ z.kind = "poll" /\ Done(z.name, z.fut)
    /\ last' = [last EXCEPT ![z.name] = @ + 1]
    /\ pool' = [pool EXCEPT ![z.name] = last[z.name] + 1]
    /\ stragglers' = stragglers \ {z}
    /\ UNCHANGED <<fin, canc, callerVars, heard>>

\* ... or gives up.
StragglerGivesUp(z) ==
    /\ z.kind = "poll" /\ ~Done(z.name, z.fut)
    /\ stragglers' = stragglers \ {z}
    /\ UNCHANGED <<pool, last, fin, canc, callerVars, heard>>

\* A detached wait_for ends, in whatever way, and removes its name.
StragglerEnds(z) ==
    /\ z.kind = "await"
    /\ canc' = [canc EXCEPT ![z.name] = IF z.fut \in fin[z.name] THEN @ ELSE @ \cup {z.fut}]
    /\ Remove({z.name})
    /\ stragglers' = stragglers \ {z}
    /\ UNCHANGED <<last, fin, callerVars, heard>>

-----------------------------------------------------------------------------
(* The other side.                                                         *)

\* A notification for n is decoded: an answer, a late or repeated one, or
\* one the device sends on its own.  set_result(n, value).
Notify(n) ==
    /\ heard' = [c \in Callers |-> IF Holds(c, n) THEN heard[c] \cup {n} ELSE heard[c]]
    /\ IF Pending(n)
       THEN fin' = [fin EXCEPT ![n] = @ \cup {pool[n]}] /\ UNCHANGED pool
       ELSE Remove({n}) /\ UNCHANGED fin
    /\ UNCHANGED <<last, canc, callerVars, stragglers>>

\* clear(), from disconnect() and from bleak's disconnected callback.
Disconnect ==
    /\ canc' = [n \in Names |-> IF Pending(n) THEN canc[n] \cup {pool[n]} ELSE canc[n]]
    /\ Remove(Names)
    /\ UNCHANGED <<last, fin, callerVars, stragglers, heard>>

-----------------------------------------------------------------------------
NameStep(c, n) ==
    \/ TryAcquire(c, n)
    \/ PollEnds(c, n)
    \/ PollGivesUp(c, n)
    \/ Lookup(c, n)
    \/ Deliver(c, n)
    \/ Expire(c, n)

CallerStep(c) ==
    \/ \E n \in req[c] : NameStep(c, n)
    \/ WriteDone(c)
    \/ WriteFails(c)
    \/ AcquireRaises(c)
    \/ WaitRaises(c)
    \/ Return(c)

StragglerStep(z) == StragglerCreates(z) \/ StragglerGivesUp(z) \/ StragglerEnds(z)

Next ==
    \/ \E c \in Callers : \E R \in Requests : Start(c, R)
    \/ \E c \in Callers : CallerStep(c)
    \/ \E z \in stragglers : StragglerStep(z)
    \/ \E n \in Names : Notify(n)
    \/ Disconnect

SafeSpec == Init /\ [][Next]_vars

\* A coroutine that can run does run (asyncio's ready queue is a FIFO), its
\* sleeps and timeouts end, and write_gatt_char returns or raises.
Fairness == \A c \in Callers : WF_vars(CallerStep(c))

Spec == SafeSpec /\ Fairness

-----------------------------------------------------------------------------
TypeOK ==
    /\ pool \in [Names -> Nat]
    /\ last \in [Names -> Nat]
    /\ fin \in [Names -> SUBSET Nat]
    /\ canc \in [Names -> SUBSET Nat]
    /\ pc \in [Callers -> {"idle", "acquire", "wait"}]
    /\ req \in [Callers -> SUBSET Names]
    /\ sub \in [Callers -> [Names -> SubStates]]
    /\ ref \in [Callers -> [Names -> Nat]]
    /\ own \in [Callers -> [Names -> Nat]]
    /\ stragglers \subseteq
          [kind : {"poll", "await"}, caller : Callers, name : Names, fut : Nat]
    /\ outcome \in [Callers -> Outcomes]
    /\ heard \in [Callers -> SUBSET Names]

\* A request that succeeded was answered, for each of its names, by a
\* notification that arrived after the caller had acquired that name: a done
\* future left in the pool, another caller's result or an answer decoded
\* before the request never is its value (acquire, set_result, wait_for).
FreshAnswer == \A c \in Callers : outcome[c] = "ok" => req[c] \subseteq heard[c]

\* A future that is registered and still pending was created by a caller that
\* is between acquire and __exit__, so a single name is never left blocked:
\* whatever happens to a request, the next one for that name can be made.
PendingHasOwner ==
    \A n \in Names : Pending(n) =>
        \E c \in Callers : sub[c][n] \in {"held", "await"} /\ own[c][n] = pool[n]

\* The pool does for its callers what RequestReply promises: a request returns
\* only what was heard since it was made, and every request ends, with an
\* answer or an exception (with block and wait_for as a whole).
RR == INSTANCE RequestReply WITH
        phase <- [c \in Callers |-> IF pc[c] = "idle" THEN "idle" ELSE "asking"],
        want <- req,
        outcome <- [c \in Callers |->
                      IF outcome[c] \in {"-", "ok"} THEN outcome[c] ELSE "failed"]
ImplementsRequestReply == RR!Spec
=============================================================================
