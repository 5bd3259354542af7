---------------------------- MODULE OrderExecution ----------------------------
(***************************************************************************)
(* Order execution in the Bun host: an order intent passes the pre-trade   *)
(* risk gate and perhaps a human review, its execution task is dispatched  *)
(* to the built-in paper account or to a broker, and the answer is polled. *)
(*                                                                         *)
(* The actors are the request that creates an intent, the approve and      *)
(* reject requests of its review ticket, the user who cancels, any number  *)
(* of concurrent execution passes (the ExecutionWorker's tick, which never *)
(* overlaps itself, and the passes that the trader, REIA, rebalance and    *)
(* strategy workers run directly), the operator who pauses trading, and    *)
(* the broker.                                                             *)
(* A step is one awaited statement: the database call or the broker call   *)
(* after which other promises run.  Database writes succeed.               *)
(*                                                                         *)
(* The idempotency entry of executeWithPolicy (15 s, kept on success only) *)
(* has always expired by the time of a retry (30 s): it is left out.       *)
(***************************************************************************)
EXTENDS Integers, Sequences, FiniteSets

CONSTANTS
  Order, NoOrder,   \* order intents, each with its one execution task
  Live, Sim,        \* those dispatched to a broker; the rest are paper
  Pass,             \* concurrent runs of processExecutionTasks
  MaxRetries,       \* executionTask.maxRetries
  MaxAttempts,      \* attempts of one submit call in executeWithPolicy
  MaxLost,          \* bound: submits whose answer is lost on the way back
  MaxPauses,        \* bound: pauses of the trading module
  MaxCrashes,       \* bound: restarts of the host
  CanReview,        \* bound: the requests a reviewer may make, once per order
  CanCancel         \* bound: the orders the user cancels, once each

ASSUME ModeAssumption == Live \subseteq Order /\ Sim \subseteq Order /\ Live \cap Sim = {}
ASSUME NullAssumption == NoOrder \notin Order
ASSUME LimitAssumption == /\ MaxRetries \in Nat \ {0} /\ MaxAttempts \in Nat \ {0}
                          /\ MaxLost \in Nat /\ MaxPauses \in Nat /\ MaxCrashes \in Nat

VARIABLES
  task,      \* executionTask.status
  life,      \* orderIntent.lifecycleStatus
  ticket,    \* riskReviewTicket.status
  retries,   \* executionTask.retryCount
  cooling,   \* orders whose nextRetryAt lies in the future
  row,       \* brokerOrder rows of each intent, in insertion order
  fills,     \* number of fill rows of each intent
  broker,    \* what the broker holds: one status per accepted submit
  enabled,   \* the trading module control
  creator,   \* progress of createOrderIntentWithExecution
  review,    \* progress of the approve and reject requests
  cancel,    \* progress of the user's cancel request
  phase, at, todo, cur, verdict, tries,  \* the state of each pass
  pauser, sweep, victim,                 \* the pause request
  lost, pauses, crashes                  \* bounds' counters

db      == <<task, life, ticket, retries, cooling, row, fills>>
pass    == <<phase, at, todo, cur, verdict, tries>>
control == <<enabled, pauser, sweep, victim, pauses>>
requests == <<creator, review, cancel>>
vars    == <<db, broker, requests, pass, control, lost, crashes>>

Cancellable == {"pending", "awaiting_review"}
Final       == {"filled", "cancelled", "rejected", "failed"}
TaskStatus  == {"none", "dispatching", "waiting_ack"} \cup Cancellable \cup Final
LifeStatus  == {"none", "created", "risk_checked", "pending_approval", "risk_blocked",
                "broker_rejected", "submitted", "filled", "cancelled", "rejected"}
Held        == {"open", "filled", "rejected", "cancelled"}
Paper       == Order \ (Live \cup Sim)
Act         == {"approve", "reject"}

\* How a pass ends its work on an order: what it writes to the task, then to
\* the lifecycle (execution-worker.ts, execution-dispatcher-poll.ts).
TaskOf == [filled |-> "filled", open |-> "waiting_ack", paused |-> "cancelled",
           blocked |-> "rejected", retry |-> "pending", giveUp |-> "failed",
           refused |-> "failed", dropped |-> "cancelled", expired |-> "rejected"]
LifeOf == [filled |-> "filled", open |-> "submitted", paused |-> "cancelled",
           blocked |-> "rejected", retry |-> "risk_checked", giveUp |-> "rejected",
           refused |-> "broker_rejected", dropped |-> "cancelled",
           expired |-> "rejected"]
Verdict == DOMAIN TaskOf

Rows == [id : Nat, status : {"submitted", "filled", "rejected", "cancelled"}]

TypeOK ==
  /\ task \in [Order -> TaskStatus] /\ life \in [Order -> LifeStatus]
  /\ ticket \in [Order -> {"none", "open", "approved", "rejected", "expired"}]
  /\ retries \in [Order -> 0 .. MaxRetries] /\ cooling \subseteq Order
  /\ row \in [Order -> Seq(Rows)] /\ fills \in [Order -> Nat]
  /\ broker \in [Order -> Seq(Held)] /\ enabled \in BOOLEAN
  /\ creator \in [Order -> {"none", "risk", "block", "blockTask", "review", "ticket",
                            "reviewTask", "allow", "allowTask", "done"}]
  /\ review \in [Order -> [Act -> {"idle", "ticket", "task", "life", "done",
                                     "refused", "lost"}]]
  /\ cancel \in [Order -> [at : {"idle", "task", "broker", "row", "cancelled", "done"},
                          row : Nat]]
  /\ phase \in [Pass -> {"idle", "expire", "poll", "due"}]
  /\ at \in [Pass -> {"start", "scan", "next", "task", "life", "ask", "fill", "row",
                      "mark", "gate", "submit", "insert", "refuse"}]
  /\ todo \in [Pass -> SUBSET Order] /\ cur \in [Pass -> Order \cup {NoOrder}]
  /\ verdict \in [Pass -> Verdict \cup {"none"}] /\ tries \in [Pass -> 0 .. MaxAttempts]
  /\ pauser \in {"idle", "scan", "cancel", "life"} /\ sweep \subseteq Order
  /\ victim \in Order \cup {NoOrder}
  /\ lost \in Nat /\ pauses \in Nat /\ crashes \in Nat

Init ==
  /\ task = [o \in Order |-> "none"] /\ life = [o \in Order |-> "none"]
  /\ ticket = [o \in Order |-> "none"] /\ retries = [o \in Order |-> 0]
  /\ cooling = {} /\ row = [o \in Order |-> <<>>] /\ fills = [o \in Order |-> 0]
  /\ broker = [o \in Order |-> <<>>] /\ enabled = TRUE
  /\ creator = [o \in Order |-> "none"]
  /\ review = [o \in Order |-> [a \in Act |-> "idle"]]
  /\ cancel = [o \in Order |-> [at |-> "idle", row |-> 0]]
  /\ phase = [p \in Pass |-> "idle"] /\ at = [p \in Pass |-> "start"]
  /\ todo = [p \in Pass |-> {}] /\ cur = [p \in Pass |-> NoOrder]
  /\ verdict = [p \in Pass |-> "none"] /\ tries = [p \in Pass |-> 0]
  /\ pauser = "idle" /\ sweep = {} /\ victim = NoOrder /\ lost = 0 /\ pauses = 0 /\ crashes = 0


WriteTask(o, s) == task' = [task EXCEPT ![o] = s]
WriteLife(o, s) == life' = [life EXCEPT ![o] = s]

-----------------------------------------------------------------------------
(* createOrderIntentWithExecution.  The trading gate is checked with the    *)
(* insert of the intent; a crash leaves what has been written so far.       *)

CreateIntent(o) ==
  /\ creator[o] = "none" /\ enabled
  /\ WriteLife(o, "created")
  /\ creator' = [creator EXCEPT ![o] = "risk"]
  /\ UNCHANGED <<task, ticket, retries, cooling, row, fills>>

\* evaluatePreTradeForIntent, or a caller that asks for a confirmation.
CreateRisk(o) ==
  /\ creator[o] = "risk"
  /\ \E outcome \in {"block", "review", "allow"} :
       creator' = [creator EXCEPT ![o] = outcome]
  /\ UNCHANGED db

CreateLife(o) ==
  /\ \/ /\ creator[o] = "block" /\ WriteLife(o, "risk_blocked")
        /\ creator' = [creator EXCEPT ![o] = "blockTask"]
     \/ /\ creator[o] = "review" /\ WriteLife(o, "pending_approval")
        /\ creator' = [creator EXCEPT ![o] = "ticket"]
     \/ /\ creator[o] = "allow" /\ WriteLife(o, "risk_checked")
        /\ creator' = [creator EXCEPT ![o] = "allowTask"]
  /\ UNCHANGED <<task, ticket, retries, cooling, row, fills>>

CreateTicket(o) ==
  /\ creator[o] = "ticket"
  /\ ticket' = [ticket EXCEPT ![o] = "open"]
  /\ creator' = [creator EXCEPT ![o] = "reviewTask"]
  /\ UNCHANGED <<task, life, retries, cooling, row, fills>>

\* Mutant: the task of a reviewed intent is ready at once.
CreateTaskReady(o) ==
  /\ creator[o] \in {"blockTask", "reviewTask", "allowTask"}
  /\ WriteTask(o, IF creator[o] = "blockTask" THEN "rejected" ELSE "pending")
  /\ creator' = [creator EXCEPT ![o] = "done"]
  /\ UNCHANGED <<life, ticket, retries, cooling, row, fills>>

CreateTask(o) ==
  /\ \/ creator[o] = "blockTask" /\ WriteTask(o, "rejected")
     \/ creator[o] = "reviewTask" /\ WriteTask(o, "awaiting_review")
     \/ creator[o] = "allowTask" /\ WriteTask(o, "pending")
  /\ creator' = [creator EXCEPT ![o] = "done"]
  /\ UNCHANGED <<life, ticket, retries, cooling, row, fills>>

CreateStep(o) ==
  /\ \/ CreateIntent(o) \/ CreateRisk(o) \/ CreateLife(o) \/ CreateTicket(o)
     \/ CreateTask(o)
  /\ UNCHANGED <<broker, review, cancel, pass, control, lost, crashes>>

-----------------------------------------------------------------------------
(* approveRiskReviewTicket and rejectRiskReviewTicket: the ticket is read,  *)
(* then ticket, task (if it still awaits review) and lifecycle are written. *)

Progress(o, a, to) == review' = [review EXCEPT ![o][a] = to]

ReviewRead(o, a) ==
  /\ a \in CanReview /\ review[o][a] = "idle" /\ ticket[o] # "none"
  /\ Progress(o, a, IF ticket[o] = "open" THEN "ticket" ELSE "refused")
  /\ UNCHANGED db

ReviewTicket(o, a) ==
  /\ review[o][a] = "ticket"
  /\ ticket' = [ticket EXCEPT ![o] = IF a = "approve" THEN "approved" ELSE "rejected"]
  /\ Progress(o, a, "task")
  /\ UNCHANGED <<task, life, retries, cooling, row, fills>>

\* Mutant: the task is updated whatever its status.
ReviewTaskAny(o, a) ==
  /\ review[o][a] = "task"
  /\ WriteTask(o, IF a = "approve" THEN "pending" ELSE "rejected")
  /\ Progress(o, a, "life")
  /\ UNCHANGED <<life, ticket, retries, cooling, row, fills>>

ReviewTask(o, a) ==
  /\ review[o][a] = "task"
  /\ IF task[o] = "awaiting_review"
       THEN WriteTask(o, IF a = "approve" THEN "pending" ELSE "rejected")
       ELSE UNCHANGED task
  /\ Progress(o, a, "life")
  /\ UNCHANGED <<life, ticket, retries, cooling, row, fills>>

ReviewLife(o, a) ==
  /\ review[o][a] = "life"
  /\ WriteLife(o, IF a = "approve" THEN "risk_checked" ELSE "rejected")
  /\ Progress(o, a, "done")
  /\ UNCHANGED <<task, ticket, retries, cooling, row, fills>>

ReviewStep(o, a) ==
  /\ \/ ReviewRead(o, a) \/ ReviewTicket(o, a) \/ ReviewTask(o, a)
     \/ ReviewLife(o, a)
  /\ UNCHANGED <<broker, creator, cancel, pass, control, lost, crashes>>

-----------------------------------------------------------------------------
(* cancelTraderOrder, by intent: without a broker row the task is cancelled *)
(* whatever its status, with one the broker is asked and the row marked.    *)

CancelTo(o, to) == cancel' = [cancel EXCEPT ![o].at = to]

CancelRead(o) ==
  /\ o \in CanCancel /\ cancel[o].at = "idle" /\ task[o] # "none"
  /\ LET last == Len(row[o])
     IN cancel' = [cancel EXCEPT ![o] =
          [row |-> last,
           at |-> IF last = 0 THEN "task"
                  ELSE IF row[o][last].status \in {"filled", "cancelled"}
                       THEN "done" ELSE "broker"]]
  /\ UNCHANGED <<db, broker>>

CancelTask(o) ==
  /\ cancel[o].at = "task"
  /\ WriteTask(o, "cancelled") /\ CancelTo(o, "cancelled")
  /\ UNCHANGED <<life, ticket, retries, cooling, row, fills, broker>>

\* connector.cancelOrder: it throws, or answers whether or not the order was
\* still open.
CancelBroker(o) ==
  /\ cancel[o].at = "broker"
  /\ LET i == row[o][cancel[o].row].id
         open == i \in DOMAIN broker[o] /\ broker[o][i] = "open"
     IN \/ open  /\ broker' = [broker EXCEPT ![o][i] = "cancelled"] /\ CancelTo(o, "row")
        \/ ~open /\ CancelTo(o, "row") /\ UNCHANGED broker
        \/ CancelTo(o, "done") /\ UNCHANGED broker
  /\ UNCHANGED db

CancelRow(o) ==
  /\ cancel[o].at = "row"
  /\ row' = [row EXCEPT ![o][cancel[o].row].status = "cancelled"]
  /\ CancelTo(o, "done")
  /\ UNCHANGED <<task, life, ticket, retries, cooling, fills, broker>>

CancelStep(o) ==
  /\ \/ CancelRead(o) \/ CancelTask(o) \/ CancelBroker(o) \/ CancelRow(o)
  /\ UNCHANGED <<creator, review, pass, control, lost, crashes>>

-----------------------------------------------------------------------------
(* processExecutionTasks: three sweeps one after the other, over expired    *)
(* tickets, over live orders that wait for the broker, over due tasks.      *)

Goto(p, to) == at' = [at EXCEPT ![p] = to]
Decide(p, v, to) == verdict' = [verdict EXCEPT ![p] = v] /\ Goto(p, to)
Take(p, o) == cur' = [cur EXCEPT ![p] = o] /\ todo' = [todo EXCEPT ![p] = @ \ {o}]

PassStart(p) ==
  /\ phase[p] = "idle" /\ enabled
  /\ phase' = [phase EXCEPT ![p] = "expire"] /\ Goto(p, "scan")
  /\ UNCHANGED <<todo, cur, verdict, tries, db, broker, lost>>

\* Mutant: only tasks without a nextRetryAt are due.
PassScanFirstTries(p) ==
  /\ at[p] = "scan"
  /\ todo' = [todo EXCEPT ![p] =
                IF phase[p] = "due"
                THEN {o \in Order : task[o] = "pending" /\ retries[o] = 0} ELSE {}]
  /\ Goto(p, "next")
  /\ UNCHANGED <<phase, cur, verdict, tries, db, broker, lost>>

\* The select at the head of each sweep; time decides which open tickets
\* have expired.  The limits of 10 and 20 rows are above the bounds here.
PassScan(p) ==
  /\ at[p] = "scan"
  /\ \/ /\ phase[p] = "expire"
        /\ \E due \in SUBSET {o \in Order : ticket[o] = "open"} :
             todo' = [todo EXCEPT ![p] = due]
     \/ /\ phase[p] = "poll"
        /\ todo' = [todo EXCEPT ![p] = {o \in Live : task[o] = "waiting_ack"}]
     \/ /\ phase[p] = "due"
        /\ todo' = [todo EXCEPT ![p] = {o \in Order \ cooling : task[o] = "pending"}]
  /\ Goto(p, "next")
  /\ UNCHANGED <<phase, cur, verdict, tries, db, broker, lost>>

PassNextSweep(p) ==
  /\ at[p] = "next" /\ todo[p] = {}
  /\ phase' = [phase EXCEPT ![p] = CASE phase[p] = "expire" -> "poll"
                                     [] phase[p] = "poll" -> "due"
                                     [] OTHER -> "idle"]
  /\ Goto(p, IF phase[p] = "due" THEN "start" ELSE "scan")
  /\ cur' = [cur EXCEPT ![p] = NoOrder]
  /\ UNCHANGED <<todo, verdict, tries, db, broker, lost>>

PassExpire(p, o) ==
  /\ phase[p] = "expire" /\ at[p] = "next" /\ o \in todo[p]
  /\ Take(p, o) /\ Decide(p, "expired", "task")
  /\ ticket' = [ticket EXCEPT ![o] = "expired"]
  /\ UNCHANGED <<phase, tries, task, life, retries, cooling, row, fills, broker, lost>>

\* limit(1) without an order: the first row that was inserted.
PassPoll(p, o) ==
  /\ phase[p] = "poll" /\ at[p] = "next" /\ o \in todo[p]
  /\ Take(p, o)
  /\ Goto(p, IF row[o] # <<>> /\ Head(row[o]).status = "submitted" THEN "ask" ELSE "next")
  /\ UNCHANGED <<phase, verdict, tries, db, broker, lost>>

\* Mutant: an order that is still open is taken for filled.
PassAskOpenFilled(p) ==
  /\ at[p] = "ask" /\ Decide(p, "filled", "fill")
  /\ UNCHANGED <<phase, todo, cur, tries, db, broker, lost>>

\* connector.getOrder answers for the order of the row.
PassAsk(p) ==
  /\ at[p] = "ask"
  /\ LET held == broker[cur[p]][Head(row[cur[p]]).id]
     IN \/ held = "open"      /\ Goto(p, "next") /\ UNCHANGED verdict
        \/ held = "filled"    /\ Decide(p, "filled", "fill")
        \/ held = "rejected"  /\ Decide(p, "refused", "row")
        \/ held = "cancelled" /\ Decide(p, "dropped", "row")
  /\ UNCHANGED <<phase, todo, cur, tries, db, broker, lost>>

\* It throws: the pass notes the error and goes on.
PassAskFails(p) ==
  /\ at[p] = "ask" /\ Goto(p, "next")
  /\ UNCHANGED <<phase, todo, cur, verdict, tries, db, broker, lost>>

PassFill(p) ==
  /\ at[p] = "fill"
  /\ fills' = [fills EXCEPT ![cur[p]] = @ + 1]
  /\ Goto(p, IF phase[p] = "poll" THEN "row" ELSE "task")
  /\ UNCHANGED <<phase, todo, cur, verdict, tries, task, life, ticket, retries, cooling,
                 row, broker, lost>>

PassRow(p) ==
  /\ at[p] = "row"
  /\ row' = [row EXCEPT ![cur[p]][1].status =
                CASE verdict[p] = "filled" -> "filled"
                  [] verdict[p] = "refused" -> "rejected"
                  [] OTHER -> "cancelled"]
  /\ Goto(p, "task")
  /\ UNCHANGED <<phase, todo, cur, verdict, tries, task, life, ticket, retries, cooling,
                 fills, broker, lost>>

\* Mutant: the task is dispatched whatever its status is by now.
PassAcquireAny(p, o) ==
  /\ phase[p] = "due" /\ at[p] = "next" /\ o \in todo[p]
  /\ Take(p, o) /\ WriteTask(o, "dispatching") /\ Goto(p, "mark")
  /\ UNCHANGED <<phase, verdict, tries, life, ticket, retries, cooling, row, fills,
                 broker, lost>>

PassAcquire(p, o) ==
  /\ phase[p] = "due" /\ at[p] = "next" /\ o \in todo[p]
  /\ Take(p, o)
  /\ IF task[o] = "pending" THEN WriteTask(o, "dispatching") /\ Goto(p, "mark")
                            ELSE UNCHANGED <<task, at>>
  /\ UNCHANGED <<phase, verdict, tries, life, ticket, retries, cooling, row, fills,
                 broker, lost>>

PassMark(p) ==
  /\ at[p] = "mark"
  /\ WriteLife(cur[p], "submitted") /\ Goto(p, "gate")
  /\ UNCHANGED <<phase, todo, cur, verdict, tries, task, ticket, retries, cooling, row,
                 fills, broker, lost>>

\* Mutant: retries are not bounded.
FailureAlwaysRetries(o) == "retry"

\* A failure that is not a governance block burns one retry.
Failure(o) == IF retries[o] + 1 < MaxRetries THEN "retry" ELSE "giveUp"

\* assertTradingModuleEnabled, the gates of a live order, the price checks.
PassGate(p) ==
  /\ at[p] = "gate"
  /\ \/ ~enabled /\ Decide(p, "paused", "task")
     \/ enabled /\ cur[p] \in Paper /\ Decide(p, "filled", "insert")
     \/ enabled /\ cur[p] \notin Paper /\ Goto(p, "submit") /\ UNCHANGED verdict
     \/ enabled /\ cur[p] \in Live /\ Decide(p, "blocked", "task")
     \/ enabled /\ Decide(p, Failure(cur[p]), "task")
  /\ tries' = [tries EXCEPT ![p] = 0]
  /\ UNCHANGED <<phase, todo, cur, db, broker, lost>>

Accept(o, s) == broker' = [broker EXCEPT ![o] = Append(@, s)]

\* One attempt of connector.submitOrder under executeWithPolicy.
PassSubmit(p) ==
  /\ at[p] = "submit"
  /\ tries' = [tries EXCEPT ![p] = @ + 1]
  /\ LET o == cur[p]
         Again == IF tries[p] + 1 < MaxAttempts THEN UNCHANGED <<at, verdict>>
                                               ELSE Decide(p, Failure(o), "task")
     IN \/ Accept(o, "filled")   /\ Decide(p, "filled", "insert")   /\ UNCHANGED lost
        \/ Accept(o, "open")     /\ Decide(p, "open", "insert")     /\ UNCHANGED lost
        \/ Accept(o, "rejected") /\ Decide(p, Failure(o), "insert") /\ UNCHANGED lost
        \/ Again /\ UNCHANGED <<broker, lost>>
        \/ lost < MaxLost /\ lost' = lost + 1 /\ Accept(o, "open") /\ Again
  /\ UNCHANGED <<phase, todo, cur, db>>

\* Mutant: the row is kept for filled orders only.
PassInsertFilledOnly(p) ==
  /\ at[p] = "insert"
  /\ IF verdict[p] = "filled"
       THEN row' = [row EXCEPT ![cur[p]] =
                      Append(@, [id |-> Len(broker[cur[p]]), status |-> "filled"])]
       ELSE UNCHANGED row
  /\ Goto(p, IF verdict[p] = "filled" THEN "fill" ELSE "task")
  /\ UNCHANGED <<phase, todo, cur, verdict, tries, task, life, ticket, retries, cooling,
                 fills, broker, lost>>

\* Mutant: the fill of an order that is filled at once is forgotten.
PassInsertNoFill(p) ==
  /\ at[p] = "insert"
  /\ row' = [row EXCEPT ![cur[p]] = Append(@,
       [id |-> Len(broker[cur[p]]),
        status |-> IF verdict[p] = "filled" THEN "filled" ELSE "submitted"])]
  /\ Goto(p, IF verdict[p] \in {"filled", "open"} THEN "task" ELSE "refuse")
  /\ UNCHANGED <<phase, todo, cur, verdict, tries, task, life, ticket, retries, cooling,
                 fills, broker, lost>>

PassInsert(p) ==
  /\ at[p] = "insert"
  /\ row' = [row EXCEPT ![cur[p]] = Append(@,
       [id |-> Len(broker[cur[p]]),
        status |-> IF verdict[p] = "filled" THEN "filled" ELSE "submitted"])]
  /\ Goto(p, CASE verdict[p] = "filled" -> "fill"
               [] verdict[p] = "open" -> "task"
               [] OTHER -> "refuse")
  /\ UNCHANGED <<phase, todo, cur, verdict, tries, task, life, ticket, retries, cooling,
                 fills, broker, lost>>

PassRefuse(p) ==
  /\ at[p] = "refuse"
  /\ row' = [row EXCEPT ![cur[p]][Len(row[cur[p]])].status = "rejected"]
  /\ Goto(p, "task")
  /\ UNCHANGED <<phase, todo, cur, verdict, tries, task, life, ticket, retries, cooling,
                 fills, broker, lost>>

\* Mutant: a retry does not write the lifecycle.
PassTaskForgetsLife(p) ==
  /\ at[p] = "task"
  /\ LET o == cur[p] v == verdict[p]
     IN /\ WriteTask(o, TaskOf[v])
        /\ retries' = IF v \in {"retry", "giveUp"}
                        THEN [retries EXCEPT ![o] = @ + 1] ELSE retries
        /\ cooling' = IF v = "retry" THEN cooling \cup {o} ELSE cooling
        /\ Goto(p, IF v = "retry" THEN "next" ELSE "life")
  /\ UNCHANGED <<phase, todo, cur, verdict, tries, life, ticket, row, fills, broker, lost>>

\* Mutant: a retry is not counted.
PassTaskUncounted(p) ==
  /\ at[p] = "task"
  /\ WriteTask(cur[p], TaskOf[verdict[p]])
  /\ cooling' = IF verdict[p] = "retry" THEN cooling \cup {cur[p]} ELSE cooling
  /\ Goto(p, "life")
  /\ UNCHANGED <<phase, todo, cur, verdict, tries, life, ticket, retries, row, fills,
                 broker, lost>>

\* The expiry of a ticket only touches a task that still awaits its review.
PassTask(p) ==
  /\ at[p] = "task"
  /\ LET o == cur[p] v == verdict[p]
     IN /\ IF v = "expired" /\ task[o] # "awaiting_review"
             THEN UNCHANGED task ELSE WriteTask(o, TaskOf[v])
        /\ retries' = IF v \in {"retry", "giveUp"}
                        THEN [retries EXCEPT ![o] = @ + 1] ELSE retries
        /\ cooling' = IF v = "retry" THEN cooling \cup {o} ELSE cooling
  /\ Goto(p, "life")
  /\ UNCHANGED <<phase, todo, cur, verdict, tries, life, ticket, row, fills, broker, lost>>

PassLife(p) ==
  /\ at[p] = "life"
  /\ WriteLife(cur[p], LifeOf[verdict[p]]) /\ Goto(p, "next")
  /\ UNCHANGED <<phase, todo, cur, verdict, tries, task, ticket, retries, cooling, row,
                 fills, broker, lost>>

PassStep(p) ==
  /\ \/ PassScan(p) \/ PassNextSweep(p) \/ PassAsk(p) \/ PassAskFails(p)
     \/ PassFill(p) \/ PassRow(p)
     \/ PassMark(p) \/ PassGate(p) \/ PassSubmit(p) \/ PassInsert(p) \/ PassRefuse(p)
     \/ PassTask(p) \/ PassLife(p)
     \/ \E o \in Order : PassExpire(p, o) \/ PassPoll(p, o) \/ PassAcquire(p, o)
  /\ UNCHANGED <<requests, control, crashes>>

PassBegin(p) == PassStart(p) /\ UNCHANGED <<requests, control, crashes>>

-----------------------------------------------------------------------------
(* setTradingModuleEnabled and cancelPendingTradingWork (the pause route).  *)

Pause ==
  /\ enabled /\ pauser = "idle" /\ pauses < MaxPauses
  /\ enabled' = FALSE /\ pauser' = "scan" /\ pauses' = pauses + 1
  /\ UNCHANGED <<sweep, victim, db>>

Resume ==
  /\ ~enabled /\ enabled' = TRUE
  /\ UNCHANGED <<pauser, sweep, victim, pauses, db>>

PauseScan ==
  /\ pauser = "scan" /\ pauser' = "cancel"
  /\ sweep' = {o \in Order : task[o] \in Cancellable}
  /\ UNCHANGED <<enabled, victim, pauses, db>>

\* Mutant: the status is not tested again by the update.
PauseCancelAny(o) ==
  /\ pauser = "cancel" /\ o \in sweep /\ sweep' = sweep \ {o}
  /\ WriteTask(o, "cancelled") /\ pauser' = "life" /\ victim' = o
  /\ UNCHANGED <<enabled, pauses, life, ticket, retries, cooling, row, fills>>

PauseCancel(o) ==
  /\ pauser = "cancel" /\ o \in sweep /\ sweep' = sweep \ {o}
  /\ IF task[o] \in Cancellable
       THEN WriteTask(o, "cancelled") /\ pauser' = "life" /\ victim' = o
       ELSE UNCHANGED <<task, pauser, victim>>
  /\ UNCHANGED <<enabled, pauses, life, ticket, retries, cooling, row, fills>>

PauseLife ==
  /\ pauser = "life" /\ pauser' = "cancel"
  /\ WriteLife(victim, "cancelled")
  /\ UNCHANGED <<enabled, sweep, victim, pauses, task, ticket, retries, cooling, row, fills>>

PauseReturn ==
  /\ pauser = "cancel" /\ sweep = {} /\ pauser' = "idle"
  /\ UNCHANGED <<enabled, sweep, victim, pauses, db>>

PauseStep ==
  /\ \/ Pause \/ Resume \/ PauseScan \/ PauseLife \/ PauseReturn
     \/ \E o \in Order : PauseCancel(o)
  /\ UNCHANGED <<broker, requests, pass, lost, crashes>>

-----------------------------------------------------------------------------
(* The broker, the clock, a restart of the host.                            *)

BrokerMove(o, i) ==
  /\ i \in DOMAIN broker[o] /\ broker[o][i] = "open"
  /\ \E s \in Held \ {"open"} : broker' = [broker EXCEPT ![o][i] = s]
  /\ UNCHANGED <<db, requests, pass, control, lost, crashes>>

RetryDue(o) ==
  /\ o \in cooling /\ cooling' = cooling \ {o}
  /\ UNCHANGED <<task, life, ticket, retries, row, fills, broker, requests, pass, control,
                 lost, crashes>>

\* Mutant: a restart puts the tasks it finds in dispatch back in the queue.
CrashRequeues ==
  /\ crashes < MaxCrashes /\ crashes' = crashes + 1
  /\ task' = [o \in Order |-> IF task[o] = "dispatching" THEN "pending" ELSE task[o]]
  /\ phase' = [p \in Pass |-> "idle"] /\ at' = [p \in Pass |-> "start"]
  /\ todo' = [p \in Pass |-> {}] /\ cur' = [p \in Pass |-> NoOrder]
  /\ UNCHANGED <<life, ticket, retries, cooling, row, fills, broker, requests, verdict,
                 tries, control, lost>>

\* A restart forgets every request and pass; nothing resumes them.
Crash ==
  /\ crashes < MaxCrashes /\ crashes' = crashes + 1
  /\ creator' = [o \in Order |-> IF creator[o] = "none" THEN "none" ELSE "done"]
  /\ review' = [o \in Order |-> [a \in Act |->
                  IF review[o][a] \in {"ticket", "task"} THEN "lost"
                  ELSE IF review[o][a] = "life" THEN "done" ELSE review[o][a]]]
  /\ cancel' = [o \in Order |-> IF cancel[o].at \in {"task", "broker", "row"}
                                THEN [at |-> "done", row |-> 0] ELSE cancel[o]]
  /\ phase' = [p \in Pass |-> "idle"] /\ at' = [p \in Pass |-> "start"]
  /\ todo' = [p \in Pass |-> {}] /\ cur' = [p \in Pass |-> NoOrder]
  /\ verdict' = [p \in Pass |-> "none"] /\ tries' = [p \in Pass |-> 0]
  /\ pauser' = "idle" /\ sweep' = {} /\ victim' = NoOrder
  /\ UNCHANGED <<db, broker, enabled, pauses, lost>>

-----------------------------------------------------------------------------
Next ==
  \/ \E o \in Order : \/ CreateStep(o) \/ RetryDue(o) \/ CancelStep(o)
                       \/ \E a \in Act : ReviewStep(o, a)
                       \/ \E i \in DOMAIN broker[o] : BrokerMove(o, i)
  \/ \E p \in Pass : PassBegin(p) \/ PassStep(p)
  \/ PauseStep \/ Crash

Spec == Init /\ [][Next]_vars

(* Promises that are pending are run, timers fire, a worker starts pass     *)
(* after pass, and a broker that is asked again and again answers.  Nobody  *)
(* has to create, review or pause, and a broker may leave an order open.    *)
Fairness ==
  /\ \A o \in Order : WF_vars(CreateStep(o)) /\ WF_vars(RetryDue(o))
  /\ \A p \in Pass :
       /\ WF_vars(PassBegin(p)) /\ WF_vars(PassStep(p))
       /\ SF_vars(PassAsk(p) /\ UNCHANGED <<requests, control, crashes>>)

FairSpec == Spec /\ Fairness

-----------------------------------------------------------------------------
Owns(p, o) == /\ phase[p] = "due" /\ cur[p] = o
              /\ at[p] \in {"mark", "gate", "submit", "insert", "fill", "refuse", "task"}
Placed(o)  == \E i \in DOMAIN broker[o] : broker[o][i] # "rejected"

(* The guarded update to dispatching gives a task to one pass, whatever     *)
(* other passes, reviewers and the pause route do meanwhile; only the       *)
(* unguarded update of a user's cancel takes it away.                       *)
ExclusiveDispatch ==
  \A o \in Order :
    /\ \A p, q \in Pass : Owns(p, o) /\ Owns(q, o) => p = q
    /\ \A p \in Pass : Owns(p, o) => task[o] = "dispatching" \/ cancel[o].at = "cancelled"

(* While no answer of the broker is lost, it holds at most one order for an *)
(* intent that it has not rejected, over any retries and restarts.          *)
OneLiveOrder ==
  \A o \in Order : \A i, j \in DOMAIN broker[o] :
    broker[o][i] # "rejected" /\ broker[o][j] # "rejected" => i = j

(* With lost answers the attempts and the retries bound what is submitted.  *)
SubmitsBounded ==
  \A o \in Order : Len(broker[o]) <= retries[o] * MaxAttempts
                      + (IF task[o] \in {"dispatching", "waiting_ack"} \cup Final
                         THEN MaxAttempts ELSE 0)

(* An intent that needed a review is only dispatched after an approve       *)
(* request has come as far as the task.                                     *)
NothingSentUnreviewed ==
  \A o \in Order :
    ticket[o] # "none" /\ (row[o] # <<>> \/ broker[o] # <<>>)
      => review[o]["approve"] \in {"life", "done"}

(* A task reported filled has a fill row and, at a broker, a filled order.  *)
FilledIsBacked ==
  \A o \in Order : task[o] = "filled" =>
    /\ fills[o] >= 1
    /\ o \in Paper \/ \E i \in DOMAIN broker[o] : broker[o][i] = "filled"

(* Every order the broker has answered for is in the local books, but for   *)
(* the one a pass is about to write down.                                   *)
EveryOrderOnBooks ==
  \A o \in Order \ Paper : \A i \in DOMAIN broker[o] :
    \/ \E k \in DOMAIN row[o] : row[o][k].id = i
    \/ \E p \in Pass : Owns(p, o) /\ at[p] = "insert" /\ i = Len(broker[o])

(* No fill of the broker is booked twice (passes one at a time, no crash).  *)
FillOnce ==
  \A o \in Order :
    fills[o] <= IF o \in Paper THEN 1
                ELSE Cardinality({i \in DOMAIN broker[o] : broker[o][i] = "filled"})

Busy(o) ==
  \/ creator[o] \notin {"none", "done"}
  \/ \E a \in Act : review[o][a] \in {"ticket", "task", "life"}
  \/ \E p \in Pass : cur[p] = o /\ at[p] \notin {"start", "scan", "next"}

(* The lifecycle an intent may show for the status of its task, as the      *)
(* backfill of migration 0089 relates the two.                              *)
LifeFor == [pending |-> {"risk_checked"}, waiting_ack |-> {"submitted"},
            filled |-> {"filled"}, cancelled |-> {"cancelled"},
            rejected |-> {"rejected", "risk_blocked"},
            failed |-> {"rejected", "broker_rejected"}]

(* When nothing is under way for an order, lifecycle and task agree (passes *)
(* one at a time; a user's cancel leaves the lifecycle as it was).          *)
LifecycleMatches ==
  \A o \in Order :
    ~Busy(o) /\ task[o] \in DOMAIN LifeFor /\ cancel[o].at # "cancelled"
      => life[o] \in LifeFor[task[o]]

(* A task that has reached a final status keeps it, whichever passes,       *)
(* reviewers, pauses, answers and restarts follow, and whatever is          *)
(* cancelled at the broker; only the unguarded update of a user's cancel    *)
(* that found no row takes a final status away.                             *)
FinalStays ==
  [][\A o \in Order : task[o] \in Final /\ cancel'[o].at # "cancelled" => task'[o] = task[o]]_vars

(* A ready task comes to a final status or to the wait for the broker.      *)
OrderSettles ==
  \A o \in Order : task[o] \in {"pending", "dispatching"}
                      ~> task[o] \in Final \cup {"waiting_ack"}

(* A user who is told that the task was cancelled before it was submitted   *)
(* has no order at the broker.                                              *)
CancelHolds == \A o \in Order : cancel[o].at = "cancelled" => ~Placed(o)

Service == INSTANCE OrderService
             WITH phase <- task, placed <- [o \in Order |-> Placed(o)], Paper <- Paper

(* Order execution implements the service that its callers rely on.         *)
ImplementsService == Service!Spec
=============================================================================
