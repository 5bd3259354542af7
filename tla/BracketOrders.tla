---------------------------- MODULE BracketOrders ----------------------------
(***************************************************************************)
(* A bracket: an entry order and its legs (take profit and stop loss),     *)
(* which are held until the entry has filled, then wait for their trigger, *)
(* and of which one that fills calls off the others (OCO).                 *)
(*                                                                         *)
(* The actors are the execution passes, which may overlap, the broker, the *)
(* clock, and the user who reviews, amends, cancels and pauses.  A step    *)
(* runs from one wait for the outside world to the next: the statements on *)
(* the database (bun:sqlite) are synchronous, and their awaits let nothing *)
(* in that a timer, a request or a socket started.                         *)
(* What the dispatch of one order writes, and in which order, is the       *)
(* matter of OrderExecution; here it is one step before and one after the  *)
(* broker's answer, and no answer is lost.                                 *)
(***************************************************************************)
EXTENDS Integers, Sequences, FiniteSets, SequencesExt

CONSTANTS
  Entry, Leg, NoOrder,  \* the entry, its legs (one OCO group), nobody
  NoPrice,              \* no fresh price is known
  Above,                \* the legs with trigger direction "above"
  Pass,                 \* concurrent runs of processExecutionTasks
  Mark,                 \* market prices
  StopPrice,            \* the stop price each leg is created with
  MaxRetries,           \* executionTask.maxRetries
  MaxTrouble,           \* bound: failed submits, pauses, cancels, amendments together
  CanReview,            \* bound: the orders whose risk check asks for a review
  CanCancel,            \* bound: the orders the user cancels, once each
  CanAmend              \* bound: the legs whose stop price is amended, once each

Order == {Entry} \cup Leg

ASSUME OrderAssumption == Entry \notin Leg /\ NoOrder \notin Order /\ Above \subseteq Leg
ASSUME PriceAssumption == Mark \subseteq Nat /\ NoPrice \notin Mark
                          /\ StopPrice \in [Leg -> Mark]
ASSUME BoundAssumption == /\ MaxRetries \in Nat \ {0} /\ MaxTrouble \in Nat
                          /\ CanReview \subseteq Order /\ CanCancel \subseteq Order /\ CanAmend \subseteq Leg

VARIABLES
  mode,      \* dispatchMode of the bracket, once created
  task,      \* executionTask.status
  life,      \* orderIntent.lifecycleStatus
  active,    \* orderIntent.activationStatus
  stop,      \* orderIntent.stopPrice
  open,      \* orders whose review ticket is open
  retries, cooling,  \* executionTask.retryCount, nextRetryAt in the future
  row,       \* brokerOrder.status, a sequence per intent
  broker,    \* what the broker holds for each of these rows
  enabled, pauser,   \* the trading module control and the pause request
  at, stage, todo, cur,  \* the passes
  cancel,    \* the user's cancels: progress, and the row they are about
  amended, pauses  \* bounds' counters

orders == <<task, life, active, stop, open, retries, cooling, row>>
pass   == <<at, stage, todo, cur>>
user   == <<enabled, pauser, cancel>>
bounds == <<amended, pauses>>
vars   == <<mode, orders, broker, user, pass, bounds>>

Final       == {"filled", "cancelled", "rejected", "failed"}
Cancellable == {"pending", "held", "conditional_wait", "awaiting_review"}
Answers     == {"open", "filled", "rejected", "cancelled"}
Started     == {"pending", "dispatching", "waiting_ack", "filled"}

\* Mutant: siblings that have been submitted are not looked at.
OcoLifeUnsent == {"created", "risk_checked"}

\* What an OCO winner's siblings may look like to be called off.
OcoLife == {"created", "risk_checked", "submitted", "partial"}
OcoTask == {"held", "conditional_wait", "pending", "awaiting_review", "waiting_ack"}

TypeOK ==
  /\ mode \in {"none", "paper", "live"}
  /\ task \in [Order -> {"none", "dispatching", "waiting_ack"} \cup Cancellable \cup Final]
  /\ life \in [Order -> {"none", "risk_checked", "pending_approval", "submitted", "filled",
                         "cancelled", "rejected", "broker_rejected"}]
  /\ active \in [Order -> {"none", "active", "held", "waiting_trigger", "triggered"}]
  /\ stop \in [Leg -> Mark]
  /\ open \subseteq Order /\ cooling \subseteq Order
  /\ retries \in [Order -> 0 .. MaxRetries]
  /\ row \in [Order -> Seq({"submitted", "filled", "rejected", "cancelled"})]
  /\ broker \in [Order -> Seq(Answers)]
  /\ enabled \in BOOLEAN /\ pauser \in {"idle", "sweep"}
  /\ at \in [Pass -> {"idle", "poll", "asked", "siblings",
                      "calling", "due", "sent"}]
  /\ stage \in [Pass -> 1 .. 2] /\ todo \in [Pass -> SUBSET Order]
  /\ cur \in [Pass -> Order \cup {NoOrder}]
  /\ cancel \in [Order -> [at : {"idle", "asked", "done"}, row : Nat]]
  /\ amended \subseteq Leg /\ pauses \in Nat

Init ==
  /\ mode = "none" /\ task = [o \in Order |-> "none"] /\ life = [o \in Order |-> "none"]
  /\ active = [o \in Order |-> "none"] /\ stop = StopPrice /\ open = {}
  /\ retries = [o \in Order |-> 0] /\ cooling = {}
  /\ row = [o \in Order |-> <<>>] /\ broker = [o \in Order |-> <<>>]
  /\ enabled = TRUE /\ pauser = "idle"
  /\ at = [p \in Pass |-> "idle"] /\ stage = [p \in Pass |-> 1]
  /\ todo = [p \in Pass |-> {}] /\ cur = [p \in Pass |-> NoOrder]
  /\ cancel = [o \in Order |-> [at |-> "idle", row |-> 0]]
  /\ amended = {} /\ pauses = 0

\* The bound on what goes wrong or is intervened; an order that has failed
\* may fail again.
Trouble ==
  MaxTrouble > pauses + Cardinality(amended) + Cardinality({o \in Order : retries[o] > 0})
                 + Cardinality({o \in Order : cancel[o].at # "idle"})

\* One order's task and lifecycle are written together.
Settle(o, t, l) == task' = [task EXCEPT ![o] = t] /\ life' = [life EXCEPT ![o] = l]

\* A set of orders is called off.
CallOff(S) ==
  /\ task' = [o \in Order |-> IF o \in S THEN "cancelled" ELSE task[o]]
  /\ life' = [o \in Order |-> IF o \in S THEN "cancelled" ELSE life[o]]

\* The task status of an order that is free to go on.
ReadyStatus(a) == CASE a = "held" -> "held" [] a = "waiting_trigger" -> "conditional_wait"
                    [] OTHER -> "pending"

-----------------------------------------------------------------------------
(* createBracketOrder: three createOrderIntentWithExecution in one          *)
(* transaction.  A leg that the risk check blocks rolls everything back.    *)

Activation(o) == IF o = Entry THEN "active" ELSE "held"

CreateBracket ==
  /\ mode = "none" /\ enabled
  /\ mode' \in {"paper", "live"}
  /\ \E reviewed \in SUBSET CanReview :
       /\ open' = reviewed
       /\ life' = [o \in Order |-> IF o \in reviewed THEN "pending_approval"
                                                     ELSE "risk_checked"]
       /\ task' = [o \in Order |-> IF o \in reviewed THEN "awaiting_review"
                                                     ELSE ReadyStatus(Activation(o))]
  /\ active' = [o \in Order |-> Activation(o)]
  /\ UNCHANGED <<stop, retries, cooling, row, broker, user, pass, bounds>>

\* approveRiskReviewTicket, rejectRiskReviewTicket and the expiry of the
\* ticket: the task only if it still awaits the review, the lifecycle anyway.
Review(o) ==
  /\ o \in open /\ open' = open \ {o}
  /\ \E approved \in BOOLEAN :
       /\ task' = IF task[o] = "awaiting_review"
                  THEN [task EXCEPT ![o] = IF approved THEN ReadyStatus(active[o])
                                                       ELSE "rejected"]
                  ELSE task
       /\ life' = [life EXCEPT ![o] = IF approved THEN "risk_checked" ELSE "rejected"]
  /\ UNCHANGED <<mode, active, stop, retries, cooling, row, broker, user, pass, bounds>>

\* amendWaitingConditionalOrder: refused once the order has been triggered.
Amend(l) ==
  /\ Trouble /\ l \in CanAmend \ amended /\ amended' = amended \cup {l}
  /\ task[l] \in {"held", "conditional_wait", "awaiting_review"}
  /\ \E price \in Mark : stop' = [stop EXCEPT ![l] = price]
  /\ UNCHANGED <<mode, task, life, active, open, retries, cooling, row, broker, user, pass, pauses>>

-----------------------------------------------------------------------------
(* processExecutionTasks: poll, conditional orders, due tasks, conditional  *)
(* orders again.                                                            *)

Goto(p, to) == at' = [at EXCEPT ![p] = to]
Work(p, S) == todo' = [todo EXCEPT ![p] = S]
Take(p, o) == cur' = [cur EXCEPT ![p] = o] /\ Work(p, todo[p] \ {o})
Back(p, to) == Goto(p, to) /\ cur' = [cur EXCEPT ![p] = NoOrder]
Skip(p, o) == Work(p, todo[p] \ {o}) /\ UNCHANGED <<at, cur>>

PassStart(p) ==
  /\ at[p] = "idle" /\ enabled
  /\ Goto(p, "poll")
  /\ Work(p, {o \in Order : mode = "live" /\ task[o] = "waiting_ack"})
  /\ UNCHANGED <<stage, mode, orders, broker, enabled, pauser, cur, cancel, bounds>>

\* The first row of the intent decides whether the broker is asked.
PassPoll(p, o) ==
  /\ at[p] = "poll" /\ o \in todo[p]
  /\ IF row[o] # <<>> /\ Head(row[o]) = "submitted"
       THEN Take(p, o) /\ Goto(p, "asked") ELSE Skip(p, o)
  /\ UNCHANGED <<stage, mode, orders, broker, user, bounds>>

\* connector.getOrder answers, and what it says is written down.
PassAnswer(p) ==
  /\ at[p] = "asked" /\ Back(p, "poll")
  /\ LET o == cur[p] held == Head(broker[o])
     IN /\ row' = IF held = "open" THEN row ELSE [row EXCEPT ![o][1] = held]
        /\ \/ held = "open"      /\ UNCHANGED <<task, life>>
           \/ held = "filled"    /\ Settle(o, "filled", "filled")
           \/ held = "rejected"  /\ Settle(o, "failed", "broker_rejected")
           \/ held = "cancelled" /\ Settle(o, "cancelled", "cancelled")
  /\ UNCHANGED <<stage, todo, mode, active, stop, open, retries, cooling, broker, user, bounds>>

PassAnswerFails(p) ==
  /\ at[p] = "asked" /\ Back(p, "poll")
  /\ UNCHANGED <<stage, todo, mode, orders, broker, user, bounds>>

Held(l) == task[l] = "held"

\* Mutant: an entry that has come to any end frees its children.
FreedAnyEnd == {l \in Leg : Held(l) /\ task[Entry] \in Final}

\* Held children of an entry that has filled wait for their trigger; those of
\* one that was called off or rejected are called off.
Freed   == {l \in Leg : Held(l) /\ life[Entry] = "filled"}
Dropped == {l \in Leg : Held(l) /\ life[Entry] \in {"cancelled", "rejected"}}

\* evaluateConditionalTrigger for a leg with a stop price.
Reached(l, price) == IF l \in Above THEN price >= stop[l] ELSE price <= stop[l]

Winner(l) == l \in Leg /\ life[l] = "filled" /\ active[l] \in {"active", "triggered"}
Siblings  == {s \in Leg : life[s] \in OcoLife /\ \E w \in Leg \ {s} : Winner(w)}

\* processConditionalOrders up to its first call of the broker: held children,
\* then the waiting orders whose stop price is reached (without a price there
\* are none), then the siblings of the legs that have filled.
PassConditional(p) ==
  /\ at[p] \in {"poll", "due"} /\ todo[p] = {} /\ Goto(p, "siblings")
  /\ stage' = [stage EXCEPT ![p] = IF at[p] = "poll" THEN 1 ELSE 2]
  /\ \E price \in Mark \cup {NoPrice} :
       LET waiting == Freed \cup {l \in Leg : task[l] = "conditional_wait"}
           fired   == {l \in waiting : price # NoPrice /\ Reached(l, price)}
       IN /\ active' = [o \in Order |-> CASE o \in fired -> "triggered"
                                          [] o \in Freed \ fired -> "waiting_trigger"
                                          [] OTHER -> active[o]]
          /\ task' = [o \in Order |-> CASE o \in fired -> "pending"
                                        [] o \in Freed \ fired -> "conditional_wait"
                                        [] o \in Dropped -> "cancelled"
                                        [] OTHER -> task[o]]
          /\ cooling' = cooling \ fired
  /\ life' = [o \in Order |-> IF o \in Dropped THEN "cancelled" ELSE life[o]]
  /\ Work(p, Siblings)
  /\ UNCHANGED <<cur, mode, stop, open, retries, row, broker, user, bounds>>

\* Mutant: a sibling that the broker holds is called off without asking it.
PassSiblingUnasked(p, s) ==
  /\ at[p] = "siblings" /\ s \in todo[p] /\ Skip(p, s)
  /\ CallOff({o \in {s} : task[o] \in OcoTask})
  /\ UNCHANGED <<stage, mode, active, stop, open, retries, cooling, row, broker, user, bounds>>

\* Mutant: a sibling that is ready but not yet sent is left alone.
PassSiblingWaitingOnly(p, s) ==
  /\ at[p] = "siblings" /\ s \in todo[p]
  /\ IF task[s] = "waiting_ack"
       THEN Take(p, s) /\ Goto(p, "calling") /\ UNCHANGED <<task, life>>
       ELSE Skip(p, s) /\ CallOff({o \in {s} : task[o] \in OcoTask \ {"pending"}})
  /\ UNCHANGED <<stage, mode, active, stop, open, retries, cooling, row, broker, user, bounds>>

\* One that the broker holds needs its word; the others are called off at once.
PassSibling(p, s) ==
  /\ at[p] = "siblings" /\ s \in todo[p]
  /\ IF task[s] = "waiting_ack"
       THEN Take(p, s) /\ Goto(p, "calling") /\ UNCHANGED <<task, life>>
       ELSE Skip(p, s) /\ CallOff({o \in {s} : task[o] \in OcoTask})
  /\ UNCHANGED <<stage, mode, active, stop, open, retries, cooling, row, broker, user, bounds>>

\* connector.cancelOrder for row i: an order that is no longer open may be
\* answered as well.
CancelAtBroker(o, i) ==
  broker' = IF broker[o][i] = "open" THEN [broker EXCEPT ![o][i] = "cancelled"] ELSE broker

\* The first row of the sibling is the one that is cancelled and marked.
PassCalled(p) ==
  /\ at[p] = "calling" /\ Back(p, "siblings")
  /\ CancelAtBroker(cur[p], 1) /\ row' = [row EXCEPT ![cur[p]][1] = "cancelled"]
  /\ CallOff({cur[p]})
  /\ UNCHANGED <<stage, todo, mode, active, stop, open, retries, cooling, user, bounds>>

PassCallFails(p) ==
  /\ at[p] = "calling" /\ Back(p, "siblings")
  /\ UNCHANGED <<stage, todo, mode, orders, broker, user, bounds>>

\* After the first round the tasks that are due, after the second the end.
PassNext(p) ==
  /\ at[p] = "siblings" /\ todo[p] = {} /\ stage' = [stage EXCEPT ![p] = 1]
  /\ \/ /\ stage[p] = 1 /\ Goto(p, "due")
        /\ Work(p, {o \in Order \ cooling : task[o] = "pending"})
     \/ stage[p] = 2 /\ Goto(p, "idle") /\ UNCHANGED todo
  /\ UNCHANGED <<cur, mode, orders, broker, user, bounds>>

\* Mutant: a candidate is sent whatever has become of it since the scan.
PassAcquireStale(p, o) ==
  /\ at[p] = "due" /\ o \in todo[p]
  /\ \/ /\ ~enabled /\ Skip(p, o)
        /\ CallOff({o}) /\ UNCHANGED row
     \/ /\ enabled /\ mode = "paper" /\ Skip(p, o)
        /\ Settle(o, "filled", "filled") /\ row' = [row EXCEPT ![o] = Append(@, "filled")]
     \/ /\ enabled /\ mode = "live" /\ Take(p, o) /\ Goto(p, "sent")
        /\ Settle(o, "dispatching", "submitted") /\ UNCHANGED row
  /\ UNCHANGED <<stage, mode, active, stop, open, retries, cooling, broker, user, bounds>>

\* processOneTask up to the broker: the task is acquired if it is still ready.
\* A pause is noticed at once, the paper account fills at once.
PassAcquire(p, o) ==
  /\ at[p] = "due" /\ o \in todo[p]
  /\ \/ task[o] # "pending" /\ Skip(p, o) /\ UNCHANGED <<task, life, row>>
     \/ /\ task[o] = "pending" /\ ~enabled /\ Skip(p, o)
        /\ CallOff({o}) /\ UNCHANGED row
     \/ /\ task[o] = "pending" /\ enabled /\ mode = "paper" /\ Skip(p, o)
        /\ Settle(o, "filled", "filled") /\ row' = [row EXCEPT ![o] = Append(@, "filled")]
     \/ /\ task[o] = "pending" /\ enabled /\ mode = "live" /\ Take(p, o) /\ Goto(p, "sent")
        /\ Settle(o, "dispatching", "submitted") /\ UNCHANGED row
  /\ UNCHANGED <<stage, mode, active, stop, open, retries, cooling, broker, user, bounds>>

\* What the broker does with a submit, and the row written for it.
Placed(o, held, status) ==
  /\ broker' = [broker EXCEPT ![o] = Append(@, held)]
  /\ row' = [row EXCEPT ![o] = Append(@, status)]

\* Mutant: one failure more than maxRetries is taken back to pending.
FailedOnceMore(o) ==
  /\ retries' = [retries EXCEPT ![o] = @ + 1]
  /\ IF retries[o] <= MaxRetries
       THEN Settle(o, "pending", "risk_checked") /\ cooling' = cooling \cup {o}
       ELSE Settle(o, "failed", "rejected") /\ UNCHANGED cooling

\* A failure that is not a governance block burns one retry.
Failed(o) ==
  /\ retries' = [retries EXCEPT ![o] = @ + 1]
  /\ IF retries[o] + 1 < MaxRetries
       THEN Settle(o, "pending", "risk_checked") /\ cooling' = cooling \cup {o}
       ELSE Settle(o, "failed", "rejected") /\ UNCHANGED cooling

\* connector.submitOrder, or one of the gates before it, has answered.
PassSent(p) ==
  /\ at[p] = "sent" /\ Back(p, "due")
  /\ LET o == cur[p]
     IN \/ /\ Placed(o, "open", "submitted") /\ Settle(o, "waiting_ack", "submitted")
           /\ UNCHANGED <<retries, cooling>>
        \/ /\ Placed(o, "filled", "filled") /\ Settle(o, "filled", "filled")
           /\ UNCHANGED <<retries, cooling>>
        \/ /\ Trouble \/ retries[o] > 0
           /\ Failed(o)
           /\ Placed(o, "rejected", "rejected") \/ UNCHANGED <<broker, row>>
        \/ /\ Settle(o, "rejected", "rejected")
           /\ UNCHANGED <<broker, row, retries, cooling>>
  /\ UNCHANGED <<stage, todo, mode, active, stop, open, user, bounds>>

PassStep(p) ==
  \/ PassAnswer(p) \/ PassAnswerFails(p) \/ PassConditional(p)
  \/ PassCalled(p) \/ PassCallFails(p) \/ PassNext(p) \/ PassSent(p)
  \/ \E o \in Order : PassPoll(p, o) \/ PassSibling(p, o) \/ PassAcquire(p, o)

-----------------------------------------------------------------------------
(* The user: cancelTraderOrder and the pause route.                         *)

\* Without a row the task is cancelled whatever its status.
CancelOrder(o) ==
  /\ Trouble /\ o \in CanCancel /\ cancel[o].at = "idle" /\ task[o] # "none"
  /\ cancel' = [cancel EXCEPT ![o] =
       IF row[o] = <<>> \/ Last(row[o]) \in {"filled", "cancelled"}
       THEN [at |-> "done", row |-> 0] ELSE [at |-> "asked", row |-> Len(row[o])]]
  /\ task' = IF row[o] = <<>> THEN [task EXCEPT ![o] = "cancelled"] ELSE task
  /\ UNCHANGED <<mode, life, active, stop, open, retries, cooling, row, broker, enabled, pauser, pass, bounds>>

\* With one the broker is asked, and the row marked unless it throws.
CancelAnswered(o) ==
  /\ cancel[o].at = "asked" /\ cancel' = [cancel EXCEPT ![o] = [at |-> "done", row |-> 0]]
  /\ \/ /\ CancelAtBroker(o, cancel[o].row)
        /\ row' = [row EXCEPT ![o][cancel[o].row] = "cancelled"]
     \/ UNCHANGED <<broker, row>>
  /\ UNCHANGED <<mode, task, life, active, stop, open, retries, cooling, enabled,
                 pauser, pass, bounds>>

\* setTradingModuleEnabled; the strategy runtimes are stopped before the sweep.
Pause ==
  /\ enabled /\ pauser = "idle" /\ Trouble
  /\ enabled' = FALSE /\ pauser' = "sweep" /\ pauses' = pauses + 1
  /\ UNCHANGED <<mode, orders, broker, pass, cancel, amended>>

\* cancelPendingTradingWork.
PauseSweep ==
  /\ pauser = "sweep" /\ pauser' = "idle"
  /\ CallOff({o \in Order : task[o] \in Cancellable})
  /\ UNCHANGED <<mode, active, stop, open, retries, cooling, row, broker, enabled, pass,
                 cancel, bounds>>

Resume ==
  /\ ~enabled /\ enabled' = TRUE
  /\ UNCHANGED <<mode, orders, broker, pauser, pass, cancel, bounds>>

-----------------------------------------------------------------------------
(* The broker and the clock.                                                *)

BrokerMove(o, i) ==
  /\ broker[o][i] = "open"
  /\ \E s \in Answers \ {"open"} : broker' = [broker EXCEPT ![o][i] = s]
  /\ UNCHANGED <<mode, orders, user, pass, bounds>>

RetryDue(o) ==
  /\ o \in cooling /\ cooling' = cooling \ {o}
  /\ UNCHANGED <<mode, task, life, active, stop, open, retries, row, broker, user, pass, bounds>>

-----------------------------------------------------------------------------
Next ==
  \/ CreateBracket \/ Pause \/ PauseSweep \/ Resume
  \/ \E l \in Leg : Amend(l)
  \/ \E o \in Order : \/ Review(o) \/ CancelOrder(o) \/ CancelAnswered(o) \/ RetryDue(o)
                       \/ \E i \in DOMAIN broker[o] : BrokerMove(o, i)
  \/ \E p \in Pass : PassStart(p) \/ PassStep(p)

Spec == Init /\ [][Next]_vars

(* Promises that are pending are run, timers fire, the worker starts pass   *)
(* after pass, and a broker that is asked again and again answers.  Nobody  *)
(* has to review, resume or move the market.                                *)
Fairness ==
  /\ \A p \in Pass : /\ WF_vars(PassStart(p) \/ PassStep(p))
                     /\ SF_vars(PassAnswer(p)) /\ SF_vars(PassCalled(p))
  /\ \A o \in Order : WF_vars(RetryDue(o))
  /\ \A o \in CanCancel : WF_vars(CancelAnswered(o))
  /\ WF_vars(PauseSweep)

FairSpec == Spec /\ Fairness

-----------------------------------------------------------------------------
Sending(o) == \E p \in Pass : at[p] = "sent" /\ cur[p] = o

\* The bracket as OcoGroup sees it.
EntryState == CASE life[Entry] = "filled" -> "filled"
                [] task[Entry] \in Final \ {"filled"} /\ ~Sending(Entry) -> "off"
                [] OTHER -> "open"

LegState(l) == CASE task[l] = "filled" -> "filled"
                 [] \/ task[l] \in {"pending", "dispatching", "waiting_ack"}
                    \/ Sending(l) -> "working"
                 [] task[l] = "conditional_wait" -> "armed"
                 [] task[l] \in {"none", "held", "awaiting_review"} -> "dormant"
                 [] OTHER -> "off"

Oco == INSTANCE OcoGroup WITH entry <- EntryState, leg <- [l \in Leg |-> LegState(l)]

(* The bracket implements OcoGroup: whatever passes overlap and whoever     *)
(* reviews, amends, cancels or pauses, the entry is decided once, a leg     *)
(* never works before the entry has filled nor comes back once it is off.   *)
ImplementsOcoGroup == Oco!Spec

(* A leg is worked on only after the entry has filled and its own trigger   *)
(* has fired, whatever passes overlap, reviews come late, prices are        *)
(* amended and pauses are lifted: no stop loss without a position.          *)
LegsInOrder ==
  \A l \in Leg :
    /\ task[l] \in Started \cup {"conditional_wait"} => life[Entry] = "filled"
    /\ task[l] \in Started => active[l] = "triggered"

(* An order that is recorded as cancelled is not open at the broker, be it  *)
(* called off by a sibling, its parent, a pause or the user; while it is    *)
(* being sent the record does not count.  It takes a broker that refused no *)
(* earlier submit of the order: the OCO sweep looks at its first row.       *)
CalledOffIsOff ==
  \A o \in Order :
    task[o] = "cancelled" /\ ~Sending(o) /\ Len(broker[o]) = 1 => broker[o][1] # "open"

(* Once a leg has filled, no sibling is left that a later price could still *)
(* start, unless a pass has yet to make its last OCO sweep; a sibling that  *)
(* was under review when its turn came is the exception.                    *)
NoSurvivorAtRest ==
  \A w \in Leg : Winner(w) =>
    \A s \in Leg \ (CanReview \cup {w}) :
      \/ task[s] \notin {"held", "conditional_wait", "pending"}
      \/ \E p \in Pass : /\ at[p] # "idle"
                         /\ stage[p] = 1 \/ at[p] # "siblings" \/ s \in todo[p]

Settled(o) == \/ task[o] \in Final \cup {"awaiting_review"}
              \/ row[o] # <<>> /\ row[o][1] # "submitted"

(* After a leg has filled every sibling comes to an end, also one that the  *)
(* broker already holds: it is cancelled there or fills.  A pause suspends  *)
(* this with everything else.                                               *)
SiblingEnds ==
  \A s \in Leg : (\E w \in Leg \ {s} : Winner(w)) ~> (Settled(s) \/ ~enabled)
=============================================================================
