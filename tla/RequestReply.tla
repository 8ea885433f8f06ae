---------------------------- MODULE RequestReply ----------------------------
(***************************************************************************)
(* What a driver expects of the futures pool: a caller asks for a set of   *)
(* named responses and is eventually told either that it failed or that    *)
(* every name it asked for was heard from the device after it had asked.   *)
(* Nothing is said about how responses are routed, so an answer may        *)
(* be heard and still be lost (the request then fails).                    *)
(***************************************************************************)
CONSTANTS Callers,    \* the coroutines that talk to one BMS
          Names,      \* the response names (command codes)
          Requests    \* the sets of names a caller may ask for at once

VARIABLES phase,      \* phase[c]: "idle" or "asking"
          want,       \* want[c]: the names of its (last) request
          heard,      \* heard[c]: those of them heard since it asked
          outcome     \* outcome[c]: how its last request ended, "-" if none

vars == <<phase, want, heard, outcome>>

Init ==
    /\ phase = [c \in Callers |-> "idle"]
    /\ want = [c \in Callers |-> {}]
    /\ heard = [c \in Callers |-> {}]
    /\ outcome = [c \in Callers |-> "-"]

Ask(c, R) ==
    /\ phase[c] = "idle"
    /\ phase' = [phase EXCEPT ![c] = "asking"]
    /\ want' = [want EXCEPT ![c] = R]
    /\ heard' = [heard EXCEPT ![c] = {}]
    /\ outcome' = [outcome EXCEPT ![c] = "-"]

\* The device answers n; it counts for some of the callers that asked for n.
Hear(n) ==
    /\ \E S \in SUBSET {c \in Callers : phase[c] = "asking" /\ n \in want[c]} :
          heard' = [c \in Callers |-> IF c \in S THEN heard[c] \cup {n} ELSE heard[c]]
    /\ UNCHANGED <<phase, want, outcome>>

Answer(c) ==
    /\ phase[c] = "asking"
    /\ want[c] \subseteq heard[c]
    /\ phase' = [phase EXCEPT ![c] = "idle"]
    /\ outcome' = [outcome EXCEPT ![c] = "ok"]
    /\ UNCHANGED <<want, heard>>

Fail(c) ==
    /\ phase[c] = "asking"
    /\ phase' = [phase EXCEPT ![c] = "idle"]
    /\ outcome' = [outcome EXCEPT ![c] = "failed"]
    /\ UNCHANGED <<want, heard>>

Next ==
    \/ \E c \in Callers : (\E R \in Requests : Ask(c, R)) \/ Answer(c) \/ Fail(c)
    \/ \E n \in Names : Hear(n)

\* A caller is not left hanging.
Fairness == \A c \in Callers : WF_vars(Answer(c) \/ Fail(c))

SafeSpec == Init /\ [][Next]_vars
Spec == SafeSpec /\ Fairness
=============================================================================
