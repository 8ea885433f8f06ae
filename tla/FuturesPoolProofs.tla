-------------------------- MODULE FuturesPoolProofs --------------------------
(***************************************************************************)
(* Theorems about FuturesPool, for any callers, names, requests and bound. *)
(***************************************************************************)
EXTENDS FuturesPool, TLAPS

\* A helper never leaves the rest of the caller's bookkeeping ill-typed.
LEMMA FinishType ==
    ASSUME TypeOK, NEW c \in Callers, NEW o \in Outcomes, Finish(c, o)
    PROVE  /\ pc' \in [Callers -> {"idle", "acquire", "wait"}]
           /\ req' \in [Callers -> SUBSET Names]
           /\ sub' \in [Callers -> [Names -> SubStates]]
           /\ ref' \in [Callers -> [Names -> Nat]]
           /\ own' \in [Callers -> [Names -> Nat]]
           /\ outcome' \in [Callers -> Outcomes]
           /\ heard' \in [Callers -> SUBSET Names]
<1>1. [n \in Names |-> "-"] \in [Names -> SubStates]
  BY DEF SubStates
<1>2. [n \in Names |-> None] \in [Names -> Nat]
  BY DEF None
<1> QED BY <1>1, <1>2 DEF TypeOK, Finish

\* A step of one coroutine of a call keeps the types.
LEMMA StepType ==
    ASSUME TypeOK, NEW c \in Callers, NEW n \in Names,
           NEW s \in SubStates, NEW f \in Nat, Step(c, n, s, f)
    PROVE  /\ pc' \in [Callers -> {"idle", "acquire", "wait"}]
           /\ req' \in [Callers -> SUBSET Names]
           /\ sub' \in [Callers -> [Names -> SubStates]]
           /\ ref' \in [Callers -> [Names -> Nat]]
           /\ own' \in [Callers -> [Names -> Nat]]
           /\ outcome' \in [Callers -> Outcomes]
           /\ heard' \in [Callers -> SUBSET Names]
  BY DEF TypeOK, Step

\* Registering a future keeps the types.
LEMMA CreateType ==
    ASSUME TypeOK, NEW c \in Callers, NEW n \in Names, Create(c, n)
    PROVE  /\ pool' \in [Names -> Nat]
           /\ last' \in [Names -> Nat]
           /\ pc' \in [Callers -> {"idle", "acquire", "wait"}]
           /\ req' \in [Callers -> SUBSET Names]
           /\ sub' \in [Callers -> [Names -> SubStates]]
           /\ ref' \in [Callers -> [Names -> Nat]]
           /\ own' \in [Callers -> [Names -> Nat]]
           /\ outcome' \in [Callers -> Outcomes]
           /\ heard' \in [Callers -> SUBSET Names]
  BY DEF TypeOK, Create, None, SubStates

\* Unregistering names keeps the pool typed.
LEMMA RemoveType ==
    ASSUME TypeOK, NEW R, Remove(R)
    PROVE  pool' \in [Names -> Nat]
  BY DEF TypeOK, Remove, None

-----------------------------------------------------------------------------
\* Every variable keeps its type (all of FuturesPool's steps).
THEOREM TypeCorrect == SafeSpec => []TypeOK
<1>1. Init => TypeOK
  BY DEF Init, TypeOK, SubStates, Outcomes, None
<1>2. TypeOK /\ [Next]_vars => TypeOK'
  <2> SUFFICES ASSUME TypeOK, [Next]_vars PROVE TypeOK'
    OBVIOUS
  <2>1. ASSUME NEW c \in Callers, NEW R \in Requests, Start(c, R) PROVE TypeOK'
    BY <2>1, PoolAssumption DEF Start, TypeOK, SubStates, Outcomes
  <2>2. ASSUME NEW c \in Callers, NEW n \in Names, TryAcquire(c, n) PROVE TypeOK'
    <3>1. CASE Create(c, n)
      BY <2>2, <3>1, CreateType DEF TryAcquire, TypeOK
    <3>2. CASE Step(c, n, "poll", pool[n]) /\ UNCHANGED <<pool, last>>
      <4>1. "poll" \in SubStates /\ pool[n] \in Nat
        BY DEF SubStates, TypeOK
      <4> QED BY <2>2, <3>2, <4>1, StepType DEF TryAcquire, TypeOK
    <3>3. CASE Finish(c, "busy") /\ UNCHANGED <<pool, last>>
      <4>1. "busy" \in Outcomes
        BY DEF Outcomes
      <4> QED BY <2>2, <3>3, <4>1, FinishType DEF TryAcquire, TypeOK
    <3> QED BY <2>2, <3>1, <3>2, <3>3 DEF TryAcquire
  <2>3. ASSUME NEW c \in Callers, NEW n \in Names, PollEnds(c, n) PROVE TypeOK'
    BY <2>3, CreateType DEF PollEnds, TypeOK
  <2>4. ASSUME NEW c \in Callers, NEW n \in Names, PollGivesUp(c, n) PROVE TypeOK'
    <3>1. "busy" \in Outcomes /\ "failed" \in SubStates /\ None \in Nat
      BY DEF Outcomes, SubStates, None
    <3> QED BY <2>4, <3>1, FinishType, StepType DEF PollGivesUp, TypeOK
  <2>5. ASSUME NEW c \in Callers, WriteDone(c) PROVE TypeOK'
    BY <2>5 DEF WriteDone, TypeOK
  <2>6. ASSUME NEW c \in Callers, WriteFails(c) PROVE TypeOK'
    <3>1. "unsent" \in Outcomes
      BY DEF Outcomes
    <3> QED BY <2>6, <3>1, FinishType, RemoveType DEF WriteFails, TypeOK
  <2>7. ASSUME NEW c \in Callers, NEW n \in Names, Lookup(c, n) PROVE TypeOK'
    <3>1. /\ "missing" \in Outcomes /\ "failed" \in SubStates /\ "await" \in SubStates
          /\ None \in Nat /\ pool[n] \in Nat
      BY DEF Outcomes, SubStates, None, TypeOK
    <3> QED BY <2>7, <3>1, FinishType, StepType DEF Lookup, TypeOK
  <2>8. ASSUME NEW c \in Callers, NEW n \in Names, Deliver(c, n) PROVE TypeOK'
    <3>1. "ok" \in Outcomes /\ "got" \in SubStates /\ ref[c][n] \in Nat
      BY DEF Outcomes, SubStates, TypeOK
    <3> QED BY <2>8, <3>1, FinishType, StepType, RemoveType DEF Deliver, TypeOK
  <2>9. ASSUME NEW c \in Callers, NEW n \in Names, Expire(c, n) PROVE TypeOK'
    <3>1. /\ "timeout" \in Outcomes /\ "failed" \in SubStates
          /\ None \in Nat /\ ref[c][n] \in Nat
      BY DEF Outcomes, SubStates, None, TypeOK
    <3>2. canc' \in [Names -> SUBSET Nat]
      BY <2>9, <3>1 DEF Expire, TypeOK
    <3> QED BY <2>9, <3>1, <3>2, FinishType, StepType, RemoveType DEF Expire, TypeOK
  <2>10. ASSUME NEW c \in Callers, AcquireRaises(c) PROVE TypeOK'
    <3>1. "busy" \in Outcomes
      BY DEF Outcomes
    <3>2. Detached(c, "poll") \subseteq
            [kind : {"poll", "await"}, caller : Callers, name : Names, fut : Nat]
      BY DEF Detached, TypeOK
    <3> QED BY <2>10, <3>1, <3>2, FinishType DEF AcquireRaises, TypeOK
  <2>11. ASSUME NEW c \in Callers, WaitRaises(c) PROVE TypeOK'
    <3>1. "timeout" \in Outcomes
      BY DEF Outcomes
    <3>2. Detached(c, "await") \subseteq
            [kind : {"poll", "await"}, caller : Callers, name : Names, fut : Nat]
      BY DEF Detached, TypeOK
    <3> QED BY <2>11, <3>1, <3>2, FinishType, RemoveType DEF WaitRaises, TypeOK
  <2>12. ASSUME NEW c \in Callers, Return(c) PROVE TypeOK'
    <3>1. "ok" \in Outcomes
      BY DEF Outcomes
    <3> QED BY <2>12, <3>1, FinishType, RemoveType DEF Return, TypeOK
  <2>13. ASSUME NEW z \in stragglers, StragglerStep(z) PROVE TypeOK'
    <3>1. z.name \in Names /\ z.fut \in Nat
      <4>1. z \in [kind : {"poll", "await"}, caller : Callers, name : Names, fut : Nat]
        BY DEF TypeOK
      <4> QED BY <4>1
    <3>2. UNCHANGED callerVars /\ UNCHANGED <<fin, heard>>
      BY <2>13 DEF StragglerStep, StragglerCreates, StragglerGivesUp, StragglerEnds
    <3>3. stragglers' \subseteq stragglers
      BY <2>13 DEF StragglerStep, StragglerCreates, StragglerGivesUp, StragglerEnds
    <3>4. pool' \in [Names -> Nat] /\ last' \in [Names -> Nat] /\ canc' \in [Names -> SUBSET Nat]
      <4>1. CASE StragglerCreates(z)
        BY <3>1, <4>1 DEF StragglerCreates, TypeOK
      <4>2. CASE StragglerGivesUp(z)
        BY <4>2 DEF StragglerGivesUp, TypeOK
      <4>3. CASE StragglerEnds(z)
        BY <3>1, <4>3, RemoveType DEF StragglerEnds, TypeOK
      <4> QED BY <2>13, <4>1, <4>2, <4>3 DEF StragglerStep
    <3> QED BY <3>2, <3>3, <3>4 DEF TypeOK, callerVars
  <2>14. ASSUME NEW n \in Names, Notify(n) PROVE TypeOK'
    <3>1. heard' \in [Callers -> SUBSET Names]
      BY <2>14 DEF Notify, TypeOK
    <3>2. pool' \in [Names -> Nat]
      BY <2>14, RemoveType DEF Notify, TypeOK
    <3>3. fin' \in [Names -> SUBSET Nat]
      <4>1. pool[n] \in Nat /\ fin[n] \in SUBSET Nat
        BY DEF TypeOK
      <4>2. fin[n] \cup {pool[n]} \in SUBSET Nat
        BY <4>1
      <4>3. fin' = [fin EXCEPT ![n] = fin[n] \cup {pool[n]}] \/ fin' = fin
        BY <2>14 DEF Notify
      <4> QED BY <4>2, <4>3 DEF TypeOK
    <3> QED BY <2>14, <3>1, <3>2, <3>3 DEF Notify, TypeOK, callerVars
  <2>15. ASSUME Disconnect PROVE TypeOK'
    BY <2>15, RemoveType DEF Disconnect, TypeOK, callerVars
  <2>16. ASSUME UNCHANGED vars PROVE TypeOK'
    BY <2>16 DEF vars, callerVars, TypeOK
  <2>17. \A c \in Callers : req[c] \subseteq Names
    BY DEF TypeOK
  <2> QED
    BY <2>1, <2>2, <2>3, <2>4, <2>5, <2>6, <2>7, <2>8, <2>9, <2>10, <2>11, <2>12,
       <2>13, <2>14, <2>15, <2>16, <2>17 DEF Next, CallerStep, NameStep
<1> QED BY <1>1, <1>2, PTL DEF SafeSpec

-----------------------------------------------------------------------------
(***************************************************************************)
(* FreshAnswer is not inductive: it needs that whatever result a caller's  *)
(* name can lead it to was notified while the caller held the name, both   *)
(* through the pool (until it looks the name up) and through the future    *)
(* it awaits (after).                                                      *)
(***************************************************************************)
Numbered == \A n \in Names : fin[n] \subseteq 1 .. last[n] /\ pool[n] <= last[n]
PoolHeard ==
    \A c \in Callers, n \in Names :
        Holds(c, n) /\ pool[n] \in fin[n] => n \in heard[c]
RefHeard ==
    \A c \in Callers, n \in Names :
        /\ sub[c][n] = "await" /\ ref[c][n] \in fin[n] => n \in heard[c]
        /\ sub[c][n] = "got" => n \in heard[c]
FreshInv == TypeOK /\ Numbered /\ PoolHeard /\ RefHeard /\ FreshAnswer

\* Names may be unregistered without disturbing the numbering.
LEMMA PoolShrinks ==
    ASSUME TypeOK, Numbered, UNCHANGED <<last, fin>>,
           \A n \in Names : pool'[n] \in {pool[n], None}
    PROVE  Numbered' /\ \A n \in Names : pool'[n] \in fin[n] => pool[n] \in fin[n]
<1> SUFFICES ASSUME NEW n \in Names
             PROVE  /\ fin[n] \subseteq 1 .. last[n] /\ pool'[n] <= last[n]
                    /\ pool'[n] \in fin[n] => pool[n] \in fin[n]
  BY DEF Numbered
<1>1. pool[n] \in Nat /\ last[n] \in Nat
  BY DEF TypeOK
<1>2. fin[n] \subseteq 1 .. last[n] /\ pool[n] <= last[n]
  BY DEF Numbered
<1>3. None \notin fin[n] /\ None <= last[n]
  BY <1>1, <1>2 DEF None
<1> QED BY <1>1, <1>2, <1>3

\* What the helpers leave of the three conjuncts, whatever the pool becomes.
LEMMA FinishFresh ==
    ASSUME FreshInv, NEW c \in Callers, NEW o \in Outcomes, Finish(c, o),
           UNCHANGED <<last, fin>>,
           \A n \in Names : pool'[n] \in {pool[n], None},
           o = "ok" => req[c] \subseteq heard[c]
    PROVE  Numbered' /\ PoolHeard' /\ RefHeard' /\ FreshAnswer'
<1>1. UNCHANGED <<req, heard>>
  BY DEF Finish
<1>2. \A d \in Callers : d # c => sub'[d] = sub[d] /\ ref'[d] = ref[d] /\ outcome'[d] = outcome[d]
  BY DEF Finish, FreshInv, TypeOK
<1>3. \A n \in Names : sub'[c][n] = "-"
  BY DEF Finish, FreshInv, TypeOK
<1>4. outcome'[c] = o
  BY DEF Finish, FreshInv, TypeOK
<1>5. Numbered' /\ \A n \in Names : pool'[n] \in fin[n] => pool[n] \in fin[n]
  BY PoolShrinks DEF FreshInv
<1>6. PoolHeard' /\ RefHeard'
  BY <1>1, <1>2, <1>3, <1>5 DEF FreshInv, PoolHeard, RefHeard, Holds
<1>7. FreshAnswer'
  BY <1>1, <1>2, <1>4 DEF FreshInv, FreshAnswer
<1> QED BY <1>5, <1>6, <1>7

\* A step of one coroutine of a call keeps FreshInv, unless it registers.
LEMMA StepFresh ==
    ASSUME FreshInv, NEW c \in Callers, NEW n \in Names, NEW s \in SubStates, NEW f \in Nat,
           Step(c, n, s, f), UNCHANGED <<last, fin>>,
           \A m \in Names : pool'[m] \in {pool[m], None},
           s = "await" => f = pool[n] /\ sub[c][n] = "held",
           s = "got" => sub[c][n] = "await" /\ ref[c][n] \in fin[n],
           s # "held"
    PROVE  Numbered' /\ PoolHeard' /\ RefHeard' /\ FreshAnswer'
<1>1. UNCHANGED <<req, heard, outcome>>
  BY DEF Step
<1>2. \A d \in Callers, m \in Names :
         d # c \/ m # n => sub'[d][m] = sub[d][m] /\ ref'[d][m] = ref[d][m]
  BY DEF Step, FreshInv, TypeOK
<1>3. sub'[c][n] = s /\ ref'[c][n] = f
  BY DEF Step, FreshInv, TypeOK
<1>4. Numbered' /\ \A m \in Names : pool'[m] \in fin[m] => pool[m] \in fin[m]
  BY PoolShrinks DEF FreshInv
<1>5. PoolHeard'
  BY <1>1, <1>2, <1>3, <1>4 DEF FreshInv, PoolHeard, Holds
<1>6. RefHeard'
  BY <1>1, <1>2, <1>3 DEF FreshInv, PoolHeard, RefHeard, Holds
<1>7. FreshAnswer'
  BY <1>1 DEF FreshInv, FreshAnswer
<1> QED BY <1>4, <1>5, <1>6, <1>7

\* Registering a future keeps FreshInv: its number is a new one.
LEMMA CreateFresh ==
    ASSUME FreshInv, NEW c \in Callers, NEW n \in Names, Create(c, n), UNCHANGED fin
    PROVE  Numbered' /\ PoolHeard' /\ RefHeard' /\ FreshAnswer'
<1>1. UNCHANGED <<req, heard, outcome>>
  BY DEF Create
<1>2. \A d \in Callers, m \in Names :
         d # c \/ m # n => sub'[d][m] = sub[d][m] /\ ref'[d][m] = ref[d][m]
  BY DEF Create, FreshInv, TypeOK
<1>3. sub'[c][n] = "held"
  BY DEF Create, FreshInv, TypeOK
<1>4. /\ \A m \in Names : m # n => pool'[m] = pool[m] /\ last'[m] = last[m]
      /\ pool'[n] = last[n] + 1 /\ last'[n] = last[n] + 1
  BY DEF Create, FreshInv, TypeOK
<1>5. Numbered'
  <2> SUFFICES ASSUME NEW m \in Names
               PROVE  fin[m] \subseteq 1 .. last'[m] /\ pool'[m] <= last'[m]
    BY DEF Numbered
  <2>1. fin[m] \subseteq 1 .. last[m] /\ pool[m] <= last[m] /\ last[m] \in Nat
    BY DEF FreshInv, Numbered, TypeOK
  <2> QED BY <1>4, <2>1
<1>6. pool'[n] \notin fin'[n]
  BY <1>4 DEF FreshInv, Numbered, TypeOK
<1>7. PoolHeard'
  BY <1>1, <1>2, <1>4, <1>6 DEF FreshInv, PoolHeard, Holds
<1>8. RefHeard'
  BY <1>1, <1>2, <1>3 DEF FreshInv, RefHeard
<1>9. FreshAnswer'
  BY <1>1 DEF FreshInv, FreshAnswer
<1> QED BY <1>5, <1>7, <1>8, <1>9

\* A step preserves the strengthened invariant.
LEMMA FreshStep ==
    ASSUME FreshInv, [Next]_vars
    PROVE  Numbered' /\ PoolHeard' /\ RefHeard' /\ FreshAnswer'
<1> DEFINE Goal == Numbered /\ PoolHeard /\ RefHeard /\ FreshAnswer
<1>0. TypeOK /\ Goal
  BY DEF FreshInv
<1>0a. /\ {"busy", "unsent", "missing", "timeout", "ok"} \subseteq Outcomes
       /\ {"poll", "await", "failed", "got"} \subseteq SubStates
       /\ None \in Nat
       /\ \A n \in Names : pool[n] \in Nat
       /\ \A c \in Callers, n \in Names : ref[c][n] \in Nat
       /\ \A c \in Callers : req[c] \subseteq Names
  BY <1>0 DEF Outcomes, SubStates, None, TypeOK
<1>0b. \A R : Remove(R) => \A n \in Names : pool'[n] \in {pool[n], None}
  BY <1>0 DEF Remove, TypeOK
<1>1. ASSUME NEW c \in Callers, NEW R \in Requests, Start(c, R) PROVE Goal'
  <2>1. \A d \in Callers : d # c => sub'[d] = sub[d] /\ heard'[d] = heard[d]
                                   /\ outcome'[d] = outcome[d] /\ req'[d] = req[d]
    BY <1>0, <1>1 DEF Start, TypeOK
  <2>2. \A n \in Names : sub'[c][n] \in {"start", "-"}
    BY <1>0, <1>1 DEF Start, TypeOK
  <2>3. outcome'[c] = "-" /\ UNCHANGED <<pool, last, fin, ref>>
    BY <1>0, <1>1 DEF Start, TypeOK
  <2> QED BY <1>0, <2>1, <2>2, <2>3 DEF Numbered, PoolHeard, RefHeard, FreshAnswer, Holds
<1>2. ASSUME NEW c \in Callers, NEW n \in Names, TryAcquire(c, n) PROVE Goal'
  <2>1. CASE Create(c, n)
    BY <1>2, <2>1, CreateFresh DEF TryAcquire
  <2>2. CASE Step(c, n, "poll", pool[n]) /\ UNCHANGED <<pool, last>>
    BY <1>0a, <1>2, <2>2, StepFresh DEF TryAcquire
  <2>3. CASE Finish(c, "busy") /\ UNCHANGED <<pool, last>>
    BY <1>0a, <1>2, <2>3, FinishFresh DEF TryAcquire
  <2> QED BY <1>2, <2>1, <2>2, <2>3 DEF TryAcquire
<1>3. ASSUME NEW c \in Callers, NEW n \in Names, PollEnds(c, n) PROVE Goal'
  BY <1>3, CreateFresh DEF PollEnds
<1>4. ASSUME NEW c \in Callers, NEW n \in Names, PollGivesUp(c, n) PROVE Goal'
  <2>1. CASE Finish(c, "busy")
    BY <1>0a, <1>4, <2>1, FinishFresh DEF PollGivesUp
  <2>2. CASE Step(c, n, "failed", None)
    BY <1>0a, <1>4, <2>2, StepFresh DEF PollGivesUp
  <2> QED BY <1>4, <2>1, <2>2 DEF PollGivesUp
<1>5. ASSUME NEW c \in Callers, WriteDone(c) PROVE Goal'
  BY <1>0, <1>5 DEF WriteDone, Numbered, PoolHeard, RefHeard, FreshAnswer, Holds
<1>6. ASSUME NEW c \in Callers, WriteFails(c) PROVE Goal'
  BY <1>0a, <1>0b, <1>6, FinishFresh DEF WriteFails
<1>7. ASSUME NEW c \in Callers, NEW n \in Names, Lookup(c, n) PROVE Goal'
  <2>1. CASE Step(c, n, "await", pool[n])
    BY <1>0a, <1>7, <2>1, StepFresh DEF Lookup
  <2>2. CASE Finish(c, "missing")
    BY <1>0a, <1>7, <2>2, FinishFresh DEF Lookup
  <2>3. CASE Step(c, n, "failed", None)
    BY <1>0a, <1>7, <2>3, StepFresh DEF Lookup
  <2> QED BY <1>7, <2>1, <2>2, <2>3 DEF Lookup
<1>8. ASSUME NEW c \in Callers, NEW n \in req[c], Deliver(c, n) PROVE Goal'
  <2>1. n \in Names /\ n \in heard[c]
    BY <1>0, <1>0a, <1>8 DEF Deliver, RefHeard
  <2>2. CASE Single(c) /\ Finish(c, "ok")
    <3>1. req[c] \subseteq heard[c]
      BY <2>1, <2>2 DEF Single
    <3> QED BY <1>0a, <1>0b, <1>8, <2>2, <3>1, FinishFresh DEF Deliver
  <2>3. CASE Step(c, n, "got", ref[c][n])
    BY <1>0a, <1>0b, <1>8, <2>1, <2>3, StepFresh DEF Deliver
  <2> QED BY <1>8, <2>2, <2>3 DEF Deliver
<1>9. ASSUME NEW c \in Callers, NEW n \in Names, Expire(c, n) PROVE Goal'
  <2>1. CASE Finish(c, "timeout")
    BY <1>0a, <1>0b, <1>9, <2>1, FinishFresh DEF Expire
  <2>2. CASE Step(c, n, "failed", None)
    BY <1>0a, <1>0b, <1>9, <2>2, StepFresh DEF Expire
  <2> QED BY <1>9, <2>1, <2>2 DEF Expire
<1>10. ASSUME NEW c \in Callers, AcquireRaises(c) PROVE Goal'
  BY <1>0a, <1>10, FinishFresh DEF AcquireRaises
<1>11. ASSUME NEW c \in Callers, WaitRaises(c) PROVE Goal'
  BY <1>0a, <1>0b, <1>11, FinishFresh DEF WaitRaises
<1>12. ASSUME NEW c \in Callers, Return(c) PROVE Goal'
  <2>1. req[c] \subseteq heard[c]
    BY <1>0, <1>0a, <1>12 DEF Return, RefHeard
  <2> QED BY <1>0a, <1>0b, <1>12, <2>1, FinishFresh DEF Return
<1>13. ASSUME NEW z \in stragglers, StragglerStep(z) PROVE Goal'
  <2>1. z.name \in Names
    <3>1. z \in [kind : {"poll", "await"}, caller : Callers, name : Names, fut : Nat]
      BY <1>0 DEF TypeOK
    <3> QED BY <3>1
  <2>2. UNCHANGED <<fin, heard, sub, ref, req, outcome>>
    BY <1>13 DEF StragglerStep, StragglerCreates, StragglerGivesUp, StragglerEnds, callerVars
  <2>3. Numbered' /\ \A n \in Names : pool'[n] \in fin[n] => pool[n] \in fin[n]
    <3>1. CASE StragglerCreates(z)
      <4>1. /\ \A m \in Names : m # z.name => pool'[m] = pool[m] /\ last'[m] = last[m]
            /\ pool'[z.name] = last[z.name] + 1 /\ last'[z.name] = last[z.name] + 1
        BY <1>0, <3>1, <2>1 DEF StragglerCreates, TypeOK
      <4> SUFFICES ASSUME NEW m \in Names
                   PROVE  /\ fin[m] \subseteq 1 .. last'[m] /\ pool'[m] <= last'[m]
                          /\ pool'[m] \in fin[m] => pool[m] \in fin[m]
        BY <2>2 DEF Numbered
      <4>2. fin[m] \subseteq 1 .. last[m] /\ pool[m] <= last[m] /\ last[m] \in Nat
        BY <1>0 DEF Numbered, TypeOK
      <4> QED BY <4>1, <4>2
    <3>2. CASE StragglerGivesUp(z)
      BY <1>0, <3>2 DEF StragglerGivesUp, Numbered
    <3>3. CASE StragglerEnds(z)
      BY <1>0, <1>0b, <3>3, PoolShrinks DEF StragglerEnds
    <3> QED BY <1>13, <3>1, <3>2, <3>3 DEF StragglerStep
  <2> QED BY <1>0, <2>2, <2>3 DEF PoolHeard, RefHeard, FreshAnswer, Holds
<1>14. ASSUME NEW n \in Names, Notify(n) PROVE Goal'
  <2>1. UNCHANGED <<last, sub, ref, req, outcome>>
    BY <1>14 DEF Notify, callerVars
  <2>2. \A c \in Callers : heard[c] \subseteq heard'[c] /\ (Holds(c, n) => n \in heard'[c])
    BY <1>0, <1>14 DEF Notify, TypeOK
  <2>3. \A m \in Names : m # n => fin'[m] = fin[m] /\ pool'[m] = pool[m]
    BY <1>0, <1>14 DEF Notify, Remove, TypeOK
  <2>4. fin'[n] \subseteq 1 .. last[n] /\ pool'[n] <= last[n]
    <3>1. fin[n] \subseteq 1 .. last[n] /\ pool[n] <= last[n] /\ pool[n] \in Nat /\ last[n] \in Nat
      BY <1>0 DEF Numbered, TypeOK
    <3>2. CASE Pending(n)
      BY <1>0, <1>14, <3>1, <3>2 DEF Notify, Pending, None, TypeOK
    <3>3. CASE ~Pending(n)
      BY <1>0, <1>14, <3>1, <3>3 DEF Notify, Remove, None, TypeOK
    <3> QED BY <3>2, <3>3
  <2>5. Numbered'
    BY <1>0, <2>1, <2>3, <2>4 DEF Numbered
  <2>6. PoolHeard' /\ RefHeard'
    BY <1>0, <2>1, <2>2, <2>3 DEF PoolHeard, RefHeard, Holds
  <2> QED BY <1>0, <2>1, <2>2, <2>5, <2>6 DEF FreshAnswer
<1>15. ASSUME Disconnect PROVE Goal'
  <2>1. UNCHANGED <<last, fin, sub, ref, req, outcome, heard>>
    BY <1>15 DEF Disconnect, callerVars
  <2>2. Numbered' /\ \A n \in Names : pool'[n] \in fin[n] => pool[n] \in fin[n]
    BY <1>0, <1>0b, <1>15, PoolShrinks DEF Disconnect
  <2> QED BY <1>0, <2>1, <2>2 DEF PoolHeard, RefHeard, FreshAnswer, Holds
<1>16. CASE UNCHANGED vars
  BY <1>0, <1>16 DEF vars, callerVars, Numbered, PoolHeard, RefHeard, FreshAnswer, Holds
<1> QED
  BY <1>0a, <1>1, <1>2, <1>3, <1>4, <1>5, <1>6, <1>7, <1>8, <1>9, <1>10, <1>11, <1>12,
     <1>13, <1>14, <1>15, <1>16 DEF Next, CallerStep, NameStep

\* Whatever the callers, the tuples they ask for and the interleaving, a
\* request that succeeds was answered after its caller acquired the names.
THEOREM Fresh == SafeSpec => []FreshAnswer
<1>1. Init => Numbered /\ PoolHeard /\ RefHeard /\ FreshAnswer
  BY DEF Init, Numbered, PoolHeard, RefHeard, FreshAnswer, Holds, None
<1>2. FreshInv /\ [Next]_vars /\ TypeOK' => FreshInv'
  BY FreshStep DEF FreshInv
<1>3. FreshInv => FreshAnswer
  BY DEF FreshInv
<1>4. SafeSpec => []FreshInv
  BY <1>1, <1>2, TypeCorrect, PTL DEF SafeSpec, FreshInv
<1> QED BY <1>3, <1>4, PTL

-----------------------------------------------------------------------------
(***************************************************************************)
(* The refinement.  A notification is heard only by callers that asked for *)
(* its name, because a coroutine for a name exists only during a request   *)
(* for it.                                                                 *)
(***************************************************************************)
SubAsked ==
    \A c \in Callers, n \in Names :
        sub[c][n] # "-" => n \in req[c] /\ pc[c] # "idle"

\* Every step keeps the coroutines within the names asked for.
LEMMA SubAskedStep ==
    ASSUME TypeOK, SubAsked, [Next]_vars
    PROVE  SubAsked'
<1>1. \A c \in Callers, o \in Outcomes : Finish(c, o) => SubAsked'
  BY DEF Finish, SubAsked, TypeOK
<1>2. \A c \in Callers : \A n \in req[c], s \in SubStates, f \in Nat :
         pc[c] # "idle" /\ Step(c, n, s, f) => SubAsked'
  BY DEF Step, SubAsked, TypeOK
<1>3. \A c \in Callers : \A n \in req[c] : pc[c] # "idle" /\ Create(c, n) => SubAsked'
  BY DEF Create, SubAsked, TypeOK
<1>4. /\ {"busy", "unsent", "missing", "timeout", "ok"} \subseteq Outcomes
      /\ {"poll", "await", "failed", "got"} \subseteq SubStates
      /\ None \in Nat
      /\ \A n \in Names : pool[n] \in Nat
      /\ \A c \in Callers, n \in Names : ref[c][n] \in Nat
      /\ \A c \in Callers : req[c] \subseteq Names
  BY DEF Outcomes, SubStates, None, TypeOK
<1>5. ASSUME NEW c \in Callers, NEW R \in Requests, Start(c, R) PROVE SubAsked'
  BY <1>5 DEF Start, SubAsked, TypeOK
<1>6. ASSUME NEW c \in Callers, NEW n \in req[c], NameStep(c, n) PROVE SubAsked'
  <2>1. n \in Names /\ pool[n] \in Nat /\ ref[c][n] \in Nat
    BY <1>4
  <2>2. CASE TryAcquire(c, n)
    BY <1>1, <1>2, <1>3, <1>4, <2>1, <2>2 DEF TryAcquire
  <2>3. CASE PollEnds(c, n)
    BY <1>3, <2>3 DEF PollEnds
  <2>4. CASE PollGivesUp(c, n)
    BY <1>1, <1>2, <1>4, <2>4 DEF PollGivesUp
  <2>5. CASE Lookup(c, n)
    BY <1>1, <1>2, <1>4, <2>1, <2>5 DEF Lookup, Entered
  <2>6. CASE Deliver(c, n)
    BY <1>1, <1>2, <1>4, <2>1, <2>6 DEF Deliver
  <2>7. CASE Expire(c, n)
    BY <1>1, <1>2, <1>4, <2>7 DEF Expire
  <2> QED BY <1>6, <2>2, <2>3, <2>4, <2>5, <2>6, <2>7 DEF NameStep
<1>7. ASSUME NEW c \in Callers, WriteDone(c) PROVE SubAsked'
  BY <1>7 DEF WriteDone, SubAsked, TypeOK
<1>8. ASSUME NEW c \in Callers, WriteFails(c) \/ AcquireRaises(c) \/ WaitRaises(c) \/ Return(c)
      PROVE SubAsked'
  BY <1>1, <1>4, <1>8 DEF WriteFails, AcquireRaises, WaitRaises, Return
<1>9. CASE UNCHANGED <<pc, sub, req>>
  BY <1>9 DEF SubAsked
<1> QED
  BY <1>5, <1>6, <1>7, <1>8, <1>9 DEF Next, CallerStep, StragglerStep, StragglerCreates,
     StragglerGivesUp, StragglerEnds, Notify, Disconnect, callerVars, vars

RefInv == FreshInv /\ SubAsked

\* Every step of the pool is one step of RequestReply, or none.
LEMMA RefStep ==
    ASSUME RefInv, RefInv', [Next]_vars
    PROVE  [RR!Next]_(RR!vars)
<1> DEFINE phase == [c \in Callers |-> IF pc[c] = "idle" THEN "idle" ELSE "asking"]
           result == [c \in Callers |-> IF outcome[c] \in {"-", "ok"} THEN outcome[c] ELSE "failed"]
<1>0. TypeOK /\ TypeOK'
  BY DEF RefInv, FreshInv
<1>1. ASSUME NEW c \in Callers, NEW R \in Requests, Start(c, R) PROVE RR!Next
  <2>1. RR!Ask(c, R)
    BY <1>0, <1>1 DEF Start, RR!Ask, TypeOK
  <2> QED BY <2>1 DEF RR!Next
<1>2. ASSUME NEW c \in Callers, NEW o \in {"busy", "unsent", "timeout", "missing"},
             pc[c] # "idle", Finish(c, o)
      PROVE RR!Next
  <2>1. RR!Fail(c)
    BY <1>0, <1>2 DEF Finish, RR!Fail, TypeOK
  <2> QED BY <2>1 DEF RR!Next
<1>3. ASSUME NEW c \in Callers, pc[c] # "idle", Finish(c, "ok") PROVE RR!Next
  <2>1. req'[c] \subseteq heard'[c] /\ UNCHANGED <<req, heard>>
    BY <1>0, <1>3 DEF Finish, RefInv, FreshInv, FreshAnswer, TypeOK
  <2>2. RR!Answer(c)
    BY <1>0, <1>3, <2>1 DEF Finish, RR!Answer, TypeOK
  <2> QED BY <2>2 DEF RR!Next
<1>4. ASSUME NEW c \in Callers, NEW n \in Names, NEW s, NEW f, pc[c] # "idle", Step(c, n, s, f)
      PROVE UNCHANGED RR!vars
  BY <1>0, <1>4 DEF Step, RR!vars, TypeOK
<1>5. ASSUME NEW c \in Callers, NEW n \in Names, Create(c, n) PROVE UNCHANGED RR!vars
  BY <1>5 DEF Create, RR!vars
<1>6. ASSUME NEW c \in Callers, WriteDone(c) PROVE UNCHANGED RR!vars
  BY <1>0, <1>6 DEF WriteDone, Entered, RR!vars, TypeOK
<1>7. ASSUME NEW n \in Names, Notify(n) PROVE RR!Next
  <2> DEFINE S == {c \in Callers : Holds(c, n)}
  <2>1. S \in SUBSET {c \in Callers : phase[c] = "asking" /\ n \in req[c]}
    BY DEF RefInv, SubAsked, Holds
  <2>2. heard' = [c \in Callers |-> IF c \in S THEN heard[c] \cup {n} ELSE heard[c]]
    BY <1>7 DEF Notify
  <2>3. UNCHANGED <<phase, req, result>>
    BY <1>7 DEF Notify, callerVars
  <2>4. RR!Hear(n)
    BY <2>1, <2>2, <2>3 DEF RR!Hear
  <2> QED BY <2>4 DEF RR!Next
<1>8. CASE UNCHANGED <<callerVars, heard>>
  BY <1>8 DEF callerVars, RR!vars
<1>9. ASSUME NEW c \in Callers, NEW n \in req[c], NameStep(c, n) PROVE [RR!Next]_(RR!vars)
  <2>1. n \in Names
    BY <1>0 DEF TypeOK
  <2> QED
    BY <1>2, <1>3, <1>4, <1>5, <1>9, <2>1 DEF NameStep, TryAcquire, PollEnds, PollGivesUp,
       Lookup, Entered, Deliver, Expire
<1>10. ASSUME NEW c \in Callers, WriteFails(c) \/ AcquireRaises(c) \/ WaitRaises(c) \/ Return(c)
       PROVE RR!Next
  BY <1>2, <1>3, <1>10 DEF WriteFails, Entered, AcquireRaises, WaitRaises, Return
<1> QED
  BY <1>1, <1>6, <1>7, <1>8, <1>9, <1>10 DEF Next, CallerStep, StragglerStep, StragglerCreates,
     StragglerGivesUp, StragglerEnds, Disconnect, vars

\* The safety half of ImplementsRequestReply: whatever the pool does, its
\* callers see only what RequestReply allows.
THEOREM Implements == SafeSpec => RR!SafeSpec
<1>1. Init => RR!Init
  BY DEF Init, RR!Init
<1>2. Init => Numbered /\ PoolHeard /\ RefHeard /\ FreshAnswer /\ SubAsked
  BY DEF Init, Numbered, PoolHeard, RefHeard, FreshAnswer, Holds, SubAsked, None
<1>3. RefInv /\ [Next]_vars /\ TypeOK' => RefInv'
  BY FreshStep, SubAskedStep DEF RefInv, FreshInv
<1>4. SafeSpec => []RefInv
  BY <1>2, <1>3, TypeCorrect, PTL DEF SafeSpec, RefInv, FreshInv
<1>5. RefInv /\ RefInv' /\ [Next]_vars => [RR!Next]_(RR!vars)
  BY RefStep
<1> QED BY <1>1, <1>4, <1>5, PTL DEF SafeSpec, RR!SafeSpec

HeardInv ==
    /\ FreshAnswer
    /\ req = [c \in Callers |-> req[c]] /\ heard = [c \in Callers |-> heard[c]]

\* Every step of RequestReply keeps the answers fresh: a request that ended
\* well heard all it wants, and hears no less until the next.
LEMMA HeardStep ==
    ASSUME HeardInv, [RR!Next]_(RR!vars)
    PROVE  HeardInv'
<1> DEFINE phase == [c \in Callers |-> IF pc[c] = "idle" THEN "idle" ELSE "asking"]
           result == [c \in Callers |-> IF outcome[c] \in {"-", "ok"} THEN outcome[c] ELSE "failed"]
<1>0. \A c \in Callers : (result[c] = "ok") = (outcome[c] = "ok")
                         /\ (result'[c] = "ok") = (outcome'[c] = "ok")
  OBVIOUS
<1> HIDE DEF phase, result
<1>1. ASSUME NEW c \in Callers, NEW R \in Requests, RR!Ask(c, R) PROVE HeardInv'
  <2>1. /\ req' = [req EXCEPT ![c] = R] /\ heard' = [heard EXCEPT ![c] = {}]
        /\ result' = [result EXCEPT ![c] = "-"]
    BY <1>1 DEF RR!Ask, result
  <2> QED BY <1>0, <2>1 DEF HeardInv, FreshAnswer, result
<1>2. ASSUME NEW c \in Callers, RR!Answer(c) PROVE HeardInv'
  <2>1. req[c] \subseteq heard[c] /\ UNCHANGED <<req, heard>>
        /\ result' = [result EXCEPT ![c] = "ok"]
    BY <1>2 DEF RR!Answer, result
  <2> QED BY <1>0, <2>1 DEF HeardInv, FreshAnswer, result
<1>3. ASSUME NEW c \in Callers, RR!Fail(c) PROVE HeardInv'
  <2>1. UNCHANGED <<req, heard>> /\ result' = [result EXCEPT ![c] = "failed"]
    BY <1>3 DEF RR!Fail, result
  <2> QED BY <1>0, <2>1 DEF HeardInv, FreshAnswer, result
<1>4. ASSUME NEW n \in Names, RR!Hear(n) PROVE HeardInv'
  <2>1. UNCHANGED <<req, result>>
        /\ \E S : heard' = [c \in Callers |-> IF c \in S THEN heard[c] \cup {n} ELSE heard[c]]
    BY <1>4 DEF RR!Hear, result
  <2> QED BY <1>0, <2>1 DEF HeardInv, FreshAnswer
<1>5. CASE UNCHANGED RR!vars
  <2>1. UNCHANGED <<req, heard, result>>
    BY <1>5 DEF RR!vars, result
  <2> QED BY <1>0, <2>1 DEF HeardInv, FreshAnswer
<1> QED BY <1>1, <1>2, <1>3, <1>4, <1>5 DEF RR!Next

\* Whatever does for its callers what RequestReply promises gives them fresh
\* answers: that Fresh holds of the pool is owed to the refinement alone.
THEOREM RepliesAreFresh == RR!SafeSpec => []FreshAnswer
<1>1. RR!Init => HeardInv
  BY DEF RR!Init, HeardInv, FreshAnswer
<1>2. HeardInv /\ [RR!Next]_(RR!vars) => HeardInv'
  BY HeardStep
<1>3. HeardInv => FreshAnswer
  BY DEF HeardInv
<1> QED BY <1>1, <1>2, <1>3, PTL DEF RR!SafeSpec

-----------------------------------------------------------------------------
(***************************************************************************)
(* Callers that ask for one name at a time.  No coroutine is ever split    *)
(* off, so a registered future that is pending belongs to the caller that  *)
(* created it last, and that caller's exit unregisters it.                 *)
(***************************************************************************)
SingleRequests == \A R \in Requests : \E n \in Names : R = {n}

OneNameEach == \A c \in Callers : pc[c] # "idle" => Single(c)
NoSplit ==
    /\ stragglers = {}
    /\ \A c \in Callers, n \in Names : sub[c][n] \in {"-", "start", "poll", "held", "await"}
OwnerInv == TypeOK /\ SubAsked /\ OneNameEach /\ NoSplit /\ PendingHasOwner

\* A caller whose only name is n leaves the other names' owners in place.
LEMMA FinishOwner ==
    ASSUME OwnerInv, NEW c \in Callers, NEW n \in Names, NEW o \in Outcomes,
           sub[c][n] # "-", Finish(c, o), UNCHANGED <<fin, stragglers>>,
           \A m \in Names : canc[m] \subseteq canc'[m],
           \A m \in Names : pool'[m] \in {pool[m], None},
           Pending(n) /\ own[c][n] = pool[n] /\ sub[c][n] \in {"held", "await"} => pool'[n] = None
    PROVE  OneNameEach' /\ NoSplit' /\ PendingHasOwner'
<1>1. req[c] = {n}
  BY DEF OwnerInv, SubAsked, OneNameEach, Single
<1>2. \A d \in Callers : d # c => sub'[d] = sub[d] /\ own'[d] = own[d] /\ pc'[d] = pc[d]
  BY DEF Finish, OwnerInv, TypeOK
<1>3. pc'[c] = "idle" /\ UNCHANGED req /\ \A m \in Names : sub'[c][m] = "-"
  BY DEF Finish, OwnerInv, TypeOK
<1>4. OneNameEach' /\ NoSplit'
  BY <1>2, <1>3 DEF OwnerInv, OneNameEach, NoSplit, Single
<1>5. \A m \in Names : Pending(m)' => Pending(m) /\ pool'[m] = pool[m]
  BY DEF Pending, Done
<1>6. \A m \in Names : sub[c][m] # "-" => m = n
  BY <1>1 DEF OwnerInv, SubAsked
<1>7. PendingHasOwner'
  <2> SUFFICES ASSUME NEW m \in Names, Pending(m)'
               PROVE  \E d \in Callers : sub'[d][m] \in {"held", "await"} /\ own'[d][m] = pool'[m]
    BY DEF PendingHasOwner
  <2>1. PICK d \in Callers : sub[d][m] \in {"held", "await"} /\ own[d][m] = pool[m]
    BY <1>5 DEF OwnerInv, PendingHasOwner
  <2>2. d # c
    BY <1>5, <1>6, <2>1 DEF Pending
  <2> QED BY <1>2, <1>5, <2>1, <2>2
<1> QED BY <1>4, <1>7

\* Registering a future makes the caller its owner.
LEMMA CreateOwner ==
    ASSUME OwnerInv, NEW c \in Callers, NEW n \in req[c], pc[c] # "idle",
           Create(c, n), UNCHANGED <<fin, canc, stragglers>>
    PROVE  OneNameEach' /\ NoSplit' /\ PendingHasOwner'
<1>1. n \in Names /\ UNCHANGED <<pc, req>>
  BY DEF Create, OwnerInv, TypeOK
<1>2. \A d \in Callers, m \in Names :
         d # c \/ m # n => sub'[d][m] = sub[d][m] /\ own'[d][m] = own[d][m]
  BY DEF Create, OwnerInv, TypeOK
<1>3. sub'[c][n] = "held" /\ own'[c][n] = pool'[n] /\ \A m \in Names : m # n => pool'[m] = pool[m]
  BY <1>1 DEF Create, OwnerInv, TypeOK
<1>4. OneNameEach' /\ NoSplit'
  BY <1>1, <1>2, <1>3 DEF OwnerInv, OneNameEach, NoSplit, Single
<1>5. PendingHasOwner'
  <2> SUFFICES ASSUME NEW m \in Names, Pending(m)'
               PROVE  \E d \in Callers : sub'[d][m] \in {"held", "await"} /\ own'[d][m] = pool'[m]
    BY DEF PendingHasOwner
  <2>1. CASE m = n
    BY <1>3, <2>1
  <2>2. CASE m # n
    <3>1. Pending(m)
      BY <1>3, <2>2 DEF Pending, Done
    <3> QED BY <1>2, <1>3, <2>2, <3>1 DEF OwnerInv, PendingHasOwner
  <2> QED BY <2>1, <2>2
<1> QED BY <1>4, <1>5

\* A coroutine that polls, or that awaits what it holds, leaves every
\* owner in place.
LEMMA StepOwner ==
    ASSUME OwnerInv, NEW c \in Callers, NEW n \in req[c], pc[c] # "idle",
           NEW s \in {"poll", "await"}, NEW f \in Nat, Step(c, n, s, f),
           s = "await" <=> sub[c][n] = "held", sub[c][n] # "await",
           UNCHANGED <<pool, fin, canc, stragglers>>
    PROVE  OneNameEach' /\ NoSplit' /\ PendingHasOwner'
<1>1. n \in Names /\ UNCHANGED <<req, own>>
  BY DEF Step, OwnerInv, TypeOK
<1>2. \A d \in Callers, m \in Names : d # c \/ m # n => sub'[d][m] = sub[d][m]
  BY DEF Step, OwnerInv, TypeOK
<1>3. sub'[c][n] = s /\ \A d \in Callers : pc'[d] # "idle" => pc[d] # "idle"
  BY <1>1 DEF Step, OwnerInv, TypeOK
<1>4. OneNameEach' /\ NoSplit'
  BY <1>1, <1>2, <1>3 DEF OwnerInv, OneNameEach, NoSplit, Single
<1>5. \A d \in Callers, m \in Names :
         sub[d][m] \in {"held", "await"} => sub'[d][m] \in {"held", "await"}
  BY <1>2, <1>3
<1>6. PendingHasOwner'
  BY <1>1, <1>5 DEF OwnerInv, PendingHasOwner, Pending, Done
<1> QED BY <1>4, <1>6

\* Every step keeps an owner for each pending future.
LEMMA OwnerStep ==
    ASSUME SingleRequests, OwnerInv, [Next]_vars
    PROVE  OneNameEach' /\ NoSplit' /\ PendingHasOwner'
<1> DEFINE Goal == OneNameEach /\ NoSplit /\ PendingHasOwner
<1>0. TypeOK /\ Goal /\ SubAsked
  BY DEF OwnerInv
<1>0a. /\ {"busy", "unsent", "missing", "timeout", "ok"} \subseteq Outcomes
       /\ \A m \in Names : pool[m] \in Nat
       /\ \A c \in Callers : req[c] \subseteq Names
  BY <1>0 DEF Outcomes, TypeOK
<1>0b. \A R : Remove(R) => \A m \in Names : pool'[m] = IF m \in R THEN None ELSE pool[m]
  BY DEF Remove
<1>1. ASSUME NEW c \in Callers, NEW R \in Requests, Start(c, R) PROVE Goal'
  <2>1. /\ \A d \in Callers : d # c => sub'[d] = sub[d] /\ req'[d] = req[d] /\ pc'[d] = pc[d]
        /\ req'[c] = R /\ \A m \in Names : sub'[c][m] \in {"-", "start"}
        /\ UNCHANGED <<pool, fin, canc, own, stragglers>>
    BY <1>0, <1>1 DEF Start, TypeOK
  <2>2. \A m \in Names : sub[c][m] = "-"
    BY <1>0, <1>1 DEF Start, SubAsked
  <2>3. OneNameEach' /\ NoSplit'
    BY <1>0, <2>1 DEF SingleRequests, OneNameEach, NoSplit, Single
  <2>4. \A d \in Callers, m \in Names : sub[d][m] \in {"held", "await"} => sub'[d][m] = sub[d][m]
    BY <2>1, <2>2
  <2>5. PendingHasOwner'
    BY <1>0, <2>1, <2>4 DEF PendingHasOwner, Pending, Done
  <2> QED BY <2>3, <2>5
<1>2. ASSUME NEW c \in Callers, NEW n \in req[c], TryAcquire(c, n) PROVE Goal'
  <2>1. CASE Create(c, n)
    BY <1>2, <2>1, CreateOwner DEF TryAcquire
  <2>2. CASE Step(c, n, "poll", pool[n]) /\ UNCHANGED <<pool, last>>
    BY <1>0a, <1>2, <2>2, StepOwner DEF TryAcquire
  <2>3. CASE Finish(c, "busy") /\ UNCHANGED <<pool, last>>
    BY <1>0a, <1>2, <2>3, FinishOwner DEF TryAcquire
  <2> QED BY <1>2, <2>1, <2>2, <2>3 DEF TryAcquire
<1>3. ASSUME NEW c \in Callers, NEW n \in req[c], PollEnds(c, n) PROVE Goal'
  BY <1>3, CreateOwner DEF PollEnds
<1>4. ASSUME NEW c \in Callers, NEW n \in req[c], PollGivesUp(c, n) PROVE Goal'
  <2>1. Finish(c, "busy")
    BY <1>0, <1>4 DEF PollGivesUp, OneNameEach
  <2> QED BY <1>0a, <1>4, <2>1, FinishOwner DEF PollGivesUp
<1>5. ASSUME NEW c \in Callers, WriteDone(c) PROVE Goal'
  BY <1>0, <1>5 DEF WriteDone, Entered, OneNameEach
<1>6. ASSUME NEW c \in Callers, WriteFails(c) PROVE Goal'
  <2>1. PICK n \in Names : req[c] = {n}
    BY <1>0, <1>6 DEF WriteFails, Entered, OneNameEach, Single
  <2>2. sub[c][n] # "-"
    BY <1>6, <2>1 DEF WriteFails, Entered
  <2> QED BY <1>0a, <1>0b, <1>6, <2>1, <2>2, FinishOwner DEF WriteFails
<1>7. ASSUME NEW c \in Callers, NEW n \in req[c], Lookup(c, n) PROVE Goal'
  <2>1. Single(c) /\ pc[c] # "idle"
    BY <1>0, <1>7 DEF Lookup, Entered, OneNameEach
  <2>2. CASE pool[n] # None
    BY <1>0a, <1>7, <2>1, <2>2, StepOwner DEF Lookup
  <2>3. CASE pool[n] = None
    BY <1>0a, <1>7, <2>1, <2>3, FinishOwner DEF Lookup, Pending
  <2> QED BY <2>2, <2>3
<1>8. ASSUME NEW c \in Callers, NEW n \in req[c], Deliver(c, n) PROVE Goal'
  <2>1. Finish(c, "ok") /\ pool'[n] = None
    BY <1>0, <1>0a, <1>0b, <1>8 DEF Deliver, OneNameEach
  <2> QED BY <1>0a, <1>0b, <1>8, <2>1, FinishOwner DEF Deliver
<1>9. ASSUME NEW c \in Callers, NEW n \in req[c], Expire(c, n) PROVE Goal'
  <2>1. Finish(c, "timeout") /\ pool'[n] = None
    BY <1>0, <1>0a, <1>0b, <1>9 DEF Expire, OneNameEach
  <2>2. \A m \in Names : canc[m] \subseteq canc'[m]
    BY <1>0, <1>9 DEF Expire, TypeOK
  <2> QED BY <1>0a, <1>0b, <1>9, <2>1, <2>2, FinishOwner DEF Expire
<1>10. ASSUME NEW c \in Callers, AcquireRaises(c) \/ WaitRaises(c) PROVE Goal'
  BY <1>0, <1>0a, <1>10 DEF AcquireRaises, WaitRaises, NoSplit
<1>11. ASSUME NEW c \in Callers, Return(c) PROVE Goal'
  <2>1. PICK n \in Names : req[c] = {n}
    BY <1>0, <1>11 DEF Return, OneNameEach, Single
  <2> QED BY <1>0, <1>11, <2>1 DEF Return, NoSplit
<1>12. ASSUME NEW z \in stragglers PROVE Goal'
  BY <1>0, <1>12 DEF NoSplit
<1>13. ASSUME NEW n \in Names, Notify(n) PROVE Goal'
  <2>1. UNCHANGED <<canc, pc, req, sub, own, stragglers>>
    BY <1>13 DEF Notify, callerVars
  <2>2. \A m \in Names : Pending(m)' => Pending(m) /\ pool'[m] = pool[m]
    <3> SUFFICES ASSUME NEW m \in Names, Pending(m)' PROVE Pending(m) /\ pool'[m] = pool[m]
      OBVIOUS
    <3>1. CASE Pending(n)
      BY <1>0, <1>13, <2>1, <3>1 DEF Notify, Pending, Done, TypeOK
    <3>2. CASE ~Pending(n)
      BY <1>0b, <1>13, <2>1, <3>2 DEF Notify, Pending, Done
    <3> QED BY <3>1, <3>2
  <2> QED BY <1>0, <2>1, <2>2 DEF OneNameEach, NoSplit, PendingHasOwner, Single
<1>14. ASSUME Disconnect PROVE Goal'
  BY <1>0, <1>0b, <1>14 DEF Disconnect, callerVars, OneNameEach, NoSplit, PendingHasOwner,
     Single, Pending
<1>15. CASE UNCHANGED vars
  BY <1>0, <1>15 DEF vars, callerVars, OneNameEach, NoSplit, PendingHasOwner, Single,
     Pending, Done
<1> QED
  BY <1>1, <1>2, <1>3, <1>4, <1>5, <1>6, <1>7, <1>8, <1>9, <1>10, <1>11, <1>12, <1>13,
     <1>14, <1>15 DEF Next, CallerStep, NameStep

\* Pending futures have owners in every reachable state.
LEMMA OwnerInvariant ==
    ASSUME SingleRequests
    PROVE  SafeSpec => []OwnerInv
<1>1. Init => SubAsked /\ OneNameEach /\ NoSplit /\ PendingHasOwner
  BY DEF Init, SubAsked, OneNameEach, NoSplit, PendingHasOwner, Pending
<1>2. OwnerInv /\ [Next]_vars /\ TypeOK' => OwnerInv'
  BY OwnerStep, SubAskedStep DEF OwnerInv
<1> QED BY <1>1, <1>2, TypeCorrect, PTL DEF SafeSpec, OwnerInv

\* With one name at a time no failure, timeout, disconnect or interleaving
\* leaves a pending future behind that would block the next acquire.
THEOREM NoLeak ==
    ASSUME SingleRequests
    PROVE  SafeSpec => []PendingHasOwner
<1>1. OwnerInv => PendingHasOwner
  BY DEF OwnerInv
<1> QED BY <1>1, OwnerInvariant, PTL
=============================================================================
