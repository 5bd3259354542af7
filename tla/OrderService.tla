----------------------------- MODULE OrderService -----------------------------
(***************************************************************************)
(* What order execution promises to whoever placed an order: it is worked  *)
(* on only when it is ready, the broker holds at most one order for it,    *)
(* and no order that the broker holds is ever retried, given up, or        *)
(* reported as cancelled without the broker's word.                        *)
(***************************************************************************)
CONSTANTS Order, Paper   \* paper orders never reach a broker

VARIABLES
  phase,   \* the status of the order's execution task
  placed   \* whether the broker holds an order for it

vars == <<phase, placed>>

Init == /\ phase = [o \in Order |-> "none"]
        /\ placed = [o \in Order |-> FALSE]

Move(o, from, to) == phase[o] = from /\ phase' = [phase EXCEPT ![o] = to]

Submit(o) == \E s \in {"awaiting_review", "pending", "rejected"} : Move(o, "none", s)

Decide(o) == \E s \in {"pending", "rejected"} : Move(o, "awaiting_review", s)

Work(o) == Move(o, "pending", "dispatching")

\* Only what the broker does not hold is retried, given up or called off.
Return(o) ==
  /\ ~placed[o]
  /\ \/ \E s \in {"pending", "failed", "rejected", "cancelled"} : Move(o, "dispatching", s)
     \/ \E s \in {"pending", "awaiting_review"} : Move(o, s, "cancelled")
     \/ Move(o, "waiting_ack", "failed")

Report(o) ==
  \/ placed[o] /\ (Move(o, "dispatching", "waiting_ack") \/ Move(o, "waiting_ack", "filled")
                     \/ Move(o, "waiting_ack", "cancelled"))
  \/ ~placed[o] /\ Move(o, "dispatching", "waiting_ack")
  \/ (placed[o] \/ o \in Paper) /\ Move(o, "dispatching", "filled")

Place(o) == /\ o \notin Paper /\ phase[o] = "dispatching" /\ ~placed[o]
            /\ placed' = [placed EXCEPT ![o] = TRUE]

\* The broker may refuse an order it has accepted.
Refuse(o) == placed[o] /\ placed' = [placed EXCEPT ![o] = FALSE]

Next ==
  \E o \in Order :
    \/ (Submit(o) \/ Decide(o) \/ Work(o) \/ Return(o) \/ Report(o)) /\ UNCHANGED placed
    \/ (Place(o) \/ Refuse(o)) /\ UNCHANGED phase

Spec == Init /\ [][Next]_vars
===============================================================================
