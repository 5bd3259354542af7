------------------------------- MODULE OcoGroup -------------------------------
(***************************************************************************)
(* What a bracket promises, without passes, tasks, rows or retries: the    *)
(* entry is decided once; a leg is armed by the entry's fill, works once   *)
(* its trigger has fired, and ends once; a leg that is called off after    *)
(* the broker filled it may still turn out to be filled.                   *)
(***************************************************************************)
CONSTANT Leg

VARIABLES entry, leg

vars == <<entry, leg>>

TypeOK ==
  /\ entry \in {"open", "filled", "off"}
  /\ leg \in [Leg -> {"dormant", "armed", "working", "filled", "off"}]

Init == entry = "open" /\ leg = [l \in Leg |-> "dormant"]

\* The legs in S go from a state in From to the state "to".
Move(S, From, to) ==
  /\ \A l \in S : leg[l] \in From
  /\ leg' = [l \in Leg |-> IF l \in S THEN to ELSE leg[l]]

EntryDecided == entry = "open" /\ entry' \in {"filled", "off"} /\ UNCHANGED leg

\* A pass looks at the whole group at once: what the fill of the entry
\* frees is armed or, if its trigger has fired by now, works.
Sweep ==
  /\ entry = "filled" /\ UNCHANGED entry
  /\ \E armed, fired \in SUBSET Leg :
       /\ \A l \in armed : leg[l] = "dormant"
       /\ \A l \in fired : leg[l] \in {"dormant", "armed"}
       /\ leg' = [l \in Leg |-> CASE l \in fired -> "working"
                                   [] l \in armed -> "armed"
                                   [] OTHER -> leg[l]]

Fill(l) == Move({l}, {"working"}, "filled") /\ UNCHANGED entry

\* A sibling, the parent, the user, a pause or the broker calls legs off.
CallOff ==
  /\ \E S \in SUBSET Leg : Move(S, {"dormant", "armed", "working"}, "off")
  /\ entry' = entry \/ (entry = "open" /\ entry' = "off")

\* The broker filled it before the cancel, and its answer is late.
FilledAfterAll(l) == entry = "filled" /\ Move({l}, {"off"}, "filled") /\ UNCHANGED entry

\* Both legs were filled: a cancel that was on its way to the broker while the
\* second fill was recorded takes that record back.
FillForgotten(l) ==
  /\ \E w \in Leg \ {l} : leg[w] = "filled"
  /\ Move({l}, {"filled"}, "off") /\ UNCHANGED entry

Next ==
  \/ EntryDecided \/ Sweep \/ CallOff
  \/ \E l \in Leg : Fill(l) \/ FilledAfterAll(l) \/ FillForgotten(l)

Spec == Init /\ [][Next]_vars
==============================================================================
