----------------------------- MODULE WorkflowRuns -----------------------------
(***************************************************************************)
(* The status of one workflow run and everybody who writes it: the user,   *)
(* who starts, asks, stops, pauses, approves and resumes; the runs of the  *)
(* orchestrator, each of which starts a turn of the core and waits for its *)
(* end; the watchdog; and, after a restart, the restore and the            *)
(* compensation queue.                                                     *)
(*                                                                         *)
(* A step runs from one wait for the outside world (the core, the file     *)
(* system, a timer) to the next, as in BracketOrders.  A crash may cut a   *)
(* step between two statements that are not in one transaction.  Only      *)
(* workflows of the native loop are modelled.                              *)
(***************************************************************************)
EXTENDS Integers, Sequences

CONSTANTS
  Task,        \* the rows of workflow_compensation_task
  MaxTries,    \* maxRetries of a compensation task
  MaxRuns,     \* bound: dispatches to the orchestrator
  MaxStops,    \* bound: requests to stop
  MaxCrashes   \* bound: crashes of the host

ASSUME BoundAssumption == /\ MaxTries \in Nat \ {0} /\ MaxRuns \in Nat
                          /\ MaxStops \in Nat /\ MaxCrashes \in Nat

VARIABLES
  status,   \* workflow_run.status
  runs,     \* the orchestrator's runs: where each is, and its turn in the core
  active,   \* the run whose turn is the active turn of the core session, 0 if none
  heard,    \* who has heard that the last dispatch or run left nobody at work
  message,  \* a user message is between its status write and its dispatch
  stop,     \* a stop request on its way to the core, and the turn it is about
  asks,     \* the runs whose HITL request is pending
  comp, tries,  \* status and retryCount of the compensation tasks
  host,     \* the process; "queue": the restart is about to process the queue
  stops, crashes  \* bounds' counters

core  == <<runs, active>>
queue == <<comp, tries>>
user  == <<message, stop, asks>>
count == <<stops, crashes>>
vars  == <<status, core, heard, user, queue, host, count>>

Terminal == {"completed", "partial", "failed", "cancelled"}
Statuses == {"pending", "running", "awaiting_approval"} \cup Terminal
Ends     == {"completed", "partial", "failed", "hitl"}

\* "new": nothing has been dispatched yet.  "sent": the last dispatch went
\* through, or the process has died since.  The dispatch has thrown, and the
\* caller has the error ("user"), the task of the queue ("row") or nothing but
\* the log ("log").  "nobody": the run waits for an approval nobody is asked for.
Heard == {"new", "sent", "user", "row", "log", "nobody"}

TypeOK ==
  /\ status \in Statuses
  /\ runs \in Seq([at : {"preparing", "waiting", "closing", "over", "lost"},
                   turn : {"none", "live", "ended", "cancelled"}, result : {"none"} \cup Ends])
  /\ \A i \in DOMAIN runs : runs[i].at = "closing" <=> runs[i].result # "none"
  /\ Len(runs) <= MaxRuns /\ active \in 0 .. Len(runs)
  /\ heard \in Heard /\ message \in BOOLEAN
  /\ stop \in [at : {"idle", "look", "cancel"}, turn : 0 .. Len(runs)]
  /\ asks \subseteq DOMAIN runs
  /\ comp \in [Task -> {"none", "pending", "running", "completed", "failed"}]
  /\ tries \in [Task -> 0 .. MaxTries]
  /\ \A t \in Task : comp[t] = "failed" <=> tries[t] = MaxTries
  /\ host \in {"up", "down", "queue"}
  /\ stops \in 0 .. MaxStops /\ crashes \in 0 .. MaxCrashes

Idle == [at |-> "idle", turn |-> 0]

Init ==
  /\ status = "pending" /\ runs = <<>> /\ active = 0 /\ heard = "new"
  /\ message = FALSE /\ stop = Idle /\ asks = {}
  /\ comp = [t \in Task |-> "none"] /\ tries = [t \in Task |-> 0]
  /\ host = "up" /\ stops = 0 /\ crashes = 0

-----------------------------------------------------------------------------
\* Mutant: a late writer may undo the user's stop.
Unlatched(from, to) == to

\* setWorkflowState: after a stop only "pending" is let through; every other
\* transition is made, be it in the table or not.
Latched(from, to) == IF from = "cancelled" /\ to # "pending" THEN from ELSE to

Write(to) == status' = Latched(status, to)

InFlight == {i \in DOMAIN runs : runs[i].at \in {"preparing", "waiting", "closing"}}

\* dispatchTaskToRole, and the run up to its first call of the core: both
\* write "running".
Dispatched(from) ==
  /\ Len(runs) < MaxRuns
  /\ runs' = Append(runs, [at |-> "preparing", turn |-> "none", result |-> "none"])
  /\ status' = Latched(from, "running") /\ heard' = "sent"

\* The dispatch throws: no agent of the role, a message that is refused.  Where
\* the error goes is the caller's affair.
NotDispatched(from, who) == status' = from /\ heard' = who /\ UNCHANGED runs

\* A request of the user: the error of the dispatch is the answer.
Dispatch(from) == Dispatched(from) \/ NotDispatched(from, "user")

\* The process dies: its runs die with it, the turns of the core do not.
Die ==
  /\ crashes < MaxCrashes /\ crashes' = crashes + 1 /\ host' = "down"
  /\ runs' = [i \in DOMAIN runs |-> IF i \in InFlight THEN [runs[i] EXCEPT !.at = "lost", !.result = "none"]
                                    ELSE runs[i]]
  /\ message' = FALSE /\ stop' = Idle /\ heard' = "sent"

-----------------------------------------------------------------------------
(* The user.                                                                *)

\* createWorkflow, new or reused.
StartGoal ==
  /\ host = "up" /\ Dispatch("pending")
  /\ UNCHANGED <<active, user, queue, host, count>>

\* createConversationTurn writes "running" past the latch, opens the workspace
\* and only then dispatches.
Message ==
  /\ host = "up" /\ ~message /\ Len(runs) < MaxRuns
  /\ status' = "running" /\ message' = TRUE
  /\ UNCHANGED <<core, heard, stop, asks, queue, host, count>>

MessageDispatched ==
  /\ message /\ message' = FALSE /\ Dispatch(status)
  /\ UNCHANGED <<active, stop, asks, queue, host, count>>

\* A run has left its verdict; the hint of an interruption is read from it.
Interrupted == \E i \in DOMAIN runs : runs[i].at \in {"closing", "over"}

\* resumeWorkflow.
Resume ==
  /\ host = "up" /\ Dispatch("pending")
  /\ \/ status \in {"partial", "failed", "awaiting_approval"}
     \/ status \in {"running", "pending"} /\ Interrupted
  /\ UNCHANGED <<active, user, queue, host, count>>

\* resolveHitlRequest: request and status in one transaction, then the dispatch,
\* whatever the latch has made of the status; a crash may come in between.
Approve(i) ==
  /\ host = "up" /\ i \in asks /\ asks' = asks \ {i}
  /\ \/ Dispatch(Latched(status, "running")) /\ UNCHANGED <<message, stop, host, crashes>>
     \/ Write("running") /\ Die
  /\ UNCHANGED <<active, queue, stops>>

Reject(i) ==
  /\ host = "up" /\ i \in asks /\ asks' = asks \ {i} /\ Write("failed")
  /\ UNCHANGED <<core, heard, message, stop, queue, host, count>>

\* POST /:id/interrupt: the status first, then the core.
Stop ==
  /\ host = "up" /\ stop = Idle /\ status \notin Terminal /\ stops < MaxStops
  /\ Write("cancelled") /\ stops' = stops + 1 /\ stop' = [at |-> "look", turn |-> 0]
  /\ UNCHANGED <<core, heard, message, asks, queue, host, crashes>>

\* cancelActiveCoreTurnForWorkflow: the active turn of the session is looked up
\* once, and cancelled if it is not over.
StopLook ==
  /\ stop.at = "look"
  /\ stop' = IF active # 0 /\ runs[active].turn = "live"
             THEN [at |-> "cancel", turn |-> active] ELSE Idle
  /\ UNCHANGED <<status, core, heard, message, asks, queue, host, count>>

StopCancel ==
  /\ stop.at = "cancel" /\ stop' = Idle
  /\ \/ /\ runs[stop.turn].turn = "live" /\ active' = stop.turn
        /\ runs' = [runs EXCEPT ![stop.turn].turn = "cancelled"]
     \/ UNCHANGED core
  /\ UNCHANGED <<status, heard, message, asks, queue, host, count>>

\* DELETE /:id without hard, and the pause of a goal: the status alone.
SoftDelete ==
  /\ host = "up" /\ stops < MaxStops /\ stops' = stops + 1 /\ Write("cancelled")
  /\ UNCHANGED <<core, heard, user, queue, host, crashes>>

PauseGoal ==
  /\ host = "up" /\ stops < MaxStops /\ stops' = stops + 1 /\ Write("awaiting_approval")
  /\ UNCHANGED <<core, heard, user, queue, host, crashes>>

\* PATCH /:id: the user sets any status by hand.
Patch ==
  /\ host = "up" /\ stops < MaxStops /\ stops' = stops + 1
  /\ \E to \in Statuses : Write(to)
  /\ heard' = "user" /\ UNCHANGED <<core, user, queue, host, crashes>>

-----------------------------------------------------------------------------
(* The orchestrator's runs, the core and the watchdog.                      *)

Closes(i, result) == [runs[i] EXCEPT !.at = "closing", !.result = result]

\* ensureCoreSession, startTurn; what throws here ends the run as failed.
StartTurn(i) ==
  /\ runs[i].at = "preparing"
  /\ \/ runs' = [runs EXCEPT ![i].at = "waiting", ![i].turn = "live"] /\ active' = i
     \/ runs' = [runs EXCEPT ![i] = Closes(i, "failed")] /\ UNCHANGED active
  /\ UNCHANGED <<status, heard, user, queue, host, count>>

\* The core: a live turn writes itself into its session, and may end with it.
TurnWrites(i) ==
  /\ runs[i].turn = "live" /\ active' = i
  /\ \E now \in {"live", "ended"} : runs' = [runs EXCEPT ![i].turn = now]
  /\ UNCHANGED <<status, heard, user, queue, host, count>>

Seen(i) == active = i /\ runs[i].turn # "live"

\* awaitTurnTerminal returns only on the session's active turn.
Observe(i) ==
  /\ runs[i].at = "waiting" /\ Seen(i)
  /\ \E result \in IF runs[i].turn = "cancelled" THEN {"failed"} ELSE Ends :
       runs' = [runs EXCEPT ![i] = Closes(i, result)]
  /\ UNCHANGED <<status, active, heard, user, queue, host, count>>

\* Mutant: no deadline; a wait ends early only if another turn has taken over.
GiveUpTakenOver(i) ==
  /\ runs[i].at = "waiting" /\ active # i /\ active' = i
  /\ runs' = [runs EXCEPT ![i] = [Closes(i, "failed") EXCEPT !.turn = "ended"]]
  /\ UNCHANGED <<status, heard, user, queue, host, count>>

\* The wait times out or breaks; the turn is failed in the core, which makes it
\* the session's active turn, unless the core cannot be reached.
GiveUp(i) ==
  /\ runs[i].at = "waiting" /\ ~Seen(i)
  /\ \E result \in {"partial", "failed"} :
       \/ /\ runs' = [runs EXCEPT ![i] = [Closes(i, result) EXCEPT !.turn = "ended"]]
          /\ active' = i
       \/ runs' = [runs EXCEPT ![i] = Closes(i, result)] /\ UNCHANGED active
  /\ UNCHANGED <<status, heard, user, queue, host, count>>

\* projectCoreAwaitingHitl: request and status in one transaction.  If the core's
\* inbox has no item there is neither, and the run ends all the same.
ProjectHitl(i) ==
  \/ Write("awaiting_approval") /\ asks' = asks \cup {i} /\ UNCHANGED heard
  \/ heard' = "nobody" /\ UNCHANGED <<status, asks>>

Close(i) ==
  /\ runs[i].at = "closing" /\ runs' = [runs EXCEPT ![i].at = "over", ![i].result = "none"]
  /\ \/ runs[i].result = "hitl" /\ ProjectHitl(i)
     \/ runs[i].result # "hitl" /\ Write(runs[i].result) /\ UNCHANGED <<asks, heard>>
  /\ UNCHANGED <<active, message, stop, queue, host, count>>

\* cancelInactiveWorkflows: running, and no step for a while.
Watchdog ==
  /\ host = "up" /\ status = "running" /\ Write("failed")
  /\ UNCHANGED <<core, heard, user, queue, host, count>>

-----------------------------------------------------------------------------
(* Compensation queue, crash and restart.                                   *)

Unused == {t \in Task : comp[t] = "none"}
Fresh  == CHOOSE t \in Unused : TRUE

\* Mutant: a task is enqueued whatever is pending.
EnqueuedAgain == Unused # {} /\ comp' = [comp EXCEPT ![Fresh] = "pending"]

\* enqueueCompensationTask, for one action type and reason.
Enqueued ==
  IF \E t \in Task : comp[t] = "pending" THEN UNCHANGED comp
  ELSE Unused # {} /\ comp' = [comp EXCEPT ![Fresh] = "pending"]

Enqueue ==
  /\ host = "up" /\ Enqueued
  /\ UNCHANGED <<status, core, heard, user, tries, host, count>>

\* Mutant: one try more than maxRetries.
AfterFailureOnceMore(n) == IF n > MaxTries THEN "failed" ELSE "pending"

AfterFailure(n) == IF n >= MaxTries THEN "failed" ELSE "pending"

\* processCompensationQueue on one task; a crash may come at any of its waits
\* for the database.
Compensate(t) ==
  /\ host \in {"up", "queue"} /\ comp[t] = "pending"
  /\ \/ /\ Dispatched("pending") /\ comp' = [comp EXCEPT ![t] = "completed"]
        /\ host' = "up" /\ UNCHANGED <<message, stop, tries, crashes>>
     \/ /\ NotDispatched("pending", "row") /\ tries' = [tries EXCEPT ![t] = @ + 1]
        /\ comp' = [comp EXCEPT ![t] = AfterFailure(tries[t] + 1)]
        /\ host' = "up" /\ UNCHANGED <<message, stop, crashes>>
     \/ /\ Die /\ comp' = [comp EXCEPT ![t] = "running"]
        /\ status' \in {status, "pending"} /\ UNCHANGED tries
  /\ UNCHANGED <<active, asks, stops>>

Crash ==
  /\ host # "down" /\ Die
  /\ UNCHANGED <<status, active, asks, queue, stops>>

\* Mutant: only runs that were under way are restored.
RestorableRunning == status = "running"

Restorable == status \in {"running", "pending"}

\* restoreRunningWorkflows: resumed from a snapshot if there is one, otherwise
\* enqueued to be tried again, in a queue it processes at once.  A dispatch that
\* throws is logged, and nothing else.
Restart ==
  /\ host = "down"
  /\ \/ /\ Restorable /\ (Dispatched(status) \/ NotDispatched(status, "log"))
        /\ host' = "up" /\ UNCHANGED comp
     \/ /\ Restorable /\ Enqueued /\ status' = "pending" /\ host' = "queue"
        /\ UNCHANGED <<runs, heard>>
     \/ ~Restorable /\ host' = "up" /\ UNCHANGED <<status, runs, heard, comp>>
  /\ UNCHANGED <<active, user, tries, count>>

\* A task that has been tried is not due for another while.
NotDue ==
  /\ host = "queue" /\ host' = "up"
  /\ \E t \in Task : comp[t] = "pending" /\ tries[t] > 0
  /\ UNCHANGED <<status, core, heard, user, queue, count>>

-----------------------------------------------------------------------------
Run(i) == StartTurn(i) \/ Observe(i) \/ GiveUp(i) \/ Close(i)

UserSteps == \/ StartGoal \/ Message \/ Resume \/ Stop \/ SoftDelete \/ PauseGoal \/ Patch
             \/ \E i \in asks : Approve(i) \/ Reject(i)

Next ==
  \/ UserSteps \/ MessageDispatched \/ StopLook \/ StopCancel
  \/ \E i \in DOMAIN runs : Run(i) \/ TurnWrites(i)
  \/ Watchdog \/ Enqueue \/ \E t \in Task : Compensate(t)
  \/ Crash \/ Restart \/ NotDue

Spec == Init /\ [][Next]_vars

\* The process runs its runs, its messages and its watchdog, and is restarted
\* after a crash.  The watchdog is sure to act only where no run is under way:
\* a run may write steps.  Nothing is asked of the core or of the user.
Fairness ==
  /\ \A i \in 1 .. MaxRuns : WF_vars(i \in DOMAIN runs /\ Run(i))
  /\ WF_vars(MessageDispatched) /\ WF_vars(InFlight = {} /\ Watchdog)
  /\ WF_vars(Restart) /\ WF_vars(NotDue \/ \E t \in Task : host = "queue" /\ Compensate(t))

FairSpec == Spec /\ Fairness

-----------------------------------------------------------------------------
\* A workflow that says it is running, or about to, while nobody works on it or
\* is going to, is accounted for: nothing was ever asked of it, the user's own
\* request failed before his eyes, or a row of the queue says that its tries are
\* used up.  The code loses it without a trace in two ways and no more: the
\* dispatch of the restart throws, which is only logged, and a run waits for an
\* approval of which the inbox knows nothing.  No crash, between any two writes,
\* is a third.
LimboAccounted ==
  host = "up" /\ status \in {"running", "pending"} =>
    \/ InFlight # {} \/ message \/ \E t \in Task : comp[t] = "pending"
    \/ heard \in {"new", "user"}
    \/ heard = "row" /\ \E t \in Task : comp[t] = "failed"
    \/ heard \in {"log", "nobody"}

\* However often the process restarts and the user asks again, one reason for a
\* retry is in the queue once: a workflow is not started twice by one pass.
OnePendingRetry == \A t, u \in Task : comp[t] = "pending" /\ comp[u] = "pending" => t = u

\* The user's stop lasts: no run, reply or watchdog that ends after it, and no
\* restart, brings the workflow back; only a new start or a task of the
\* compensation queue, which write "pending" first, or a new message does.
StopLasts ==
  [][status = "cancelled" /\ status' # "cancelled" =>
       \/ Len(runs') > Len(runs)
       \/ status' = "pending" /\ host # "down"
       \/ message' /\ ~message]_vars

\* Nothing stays "running" for ever: a crash, a lost message or a turn that
\* never ends is noticed by the restart, the watchdog or the deadline.
RunningEnds == (status = "running") ~> (status # "running")

=============================================================================
