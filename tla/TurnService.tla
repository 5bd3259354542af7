------------------------------ MODULE TurnService ------------------------------
(***************************************************************************)
(* What Prime Core promises to the subscribers of its event bus: at most   *)
(* Limit turns run at a time; a turn that has been announced is reported   *)
(* over (completed, failed, cancelled) or paused exactly once; a turn that *)
(* was not announced may only be reported as failed.  It makes two         *)
(* exceptions.  Of a turn that runs when the process dies it promises no   *)
(* more than that it is not reported twice, and then as failed; of two     *)
(* turns of a session that one run took for each other, or of a turn the   *)
(* host had failed beside its run, it promises nothing.                    *)
(***************************************************************************)
EXTENDS Naturals, FiniteSets

CONSTANTS Turn, Limit, Outcome, Failed

VARIABLE phase  \* "idle", "running", "interrupted", "unclear" or the outcome

Running == {t \in Turn : phase[t] = "running"}

Init == phase = [t \in Turn |-> "idle"]

Begin(t) == /\ phase[t] = "idle"
            /\ Cardinality(Running) < Limit
            /\ phase' = [phase EXCEPT ![t] = "running"]

Finish(t) == /\ phase[t] = "running"
             /\ \E o \in Outcome : phase' = [phase EXCEPT ![t] = o]

Reject(t) == /\ phase[t] \in {"idle", "interrupted"}
             /\ phase' = [phase EXCEPT ![t] = Failed]

Interrupt == phase' = [t \in Turn |-> IF phase[t] = "running" THEN "interrupted"
                                      ELSE phase[t]]

\* t = u: the host gave up on the turn.
Confuse(t, u) == phase' = [phase EXCEPT ![t] = "unclear", ![u] = "unclear"]

Next == \/ \E t \in Turn : Begin(t) \/ Finish(t) \/ Reject(t)
        \/ Interrupt
        \/ \E t, u \in Turn : Confuse(t, u)

Spec == Init /\ [][Next]_phase /\ \A t \in Turn : WF_phase(Finish(t))
================================================================================
