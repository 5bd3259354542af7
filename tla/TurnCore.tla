------------------------------- MODULE TurnCore -------------------------------
(***************************************************************************)
(* The turn engine of Prime Core with everything that shares a turn's      *)
(* state: the supervisor that admits it, the cancel registry, the task     *)
(* that runs it and the task that joins it, the session store, the         *)
(* checkpoint table, the turn.cancel and turn.fail handlers, recovery at   *)
(* boot, and the Bun host that starts a turn, polls for its end and gives  *)
(* up on it.                                                               *)
(*                                                                         *)
(* Every access to the store, the checkpoints, the registry or the bus is  *)
(* a step of its own, because the code awaits (or releases a lock) between *)
(* any two of them.  set_active_turn and its write-through to SQLite are   *)
(* one step here.                                                          *)
(***************************************************************************)
EXTENDS Integers, Sequences, FiniteSets

CONSTANTS
  Turn, Session,     \* turn ids (fresh uuids) and sessions
  NoTurn, NoSession,
  Limit,             \* RuntimeLimits::max_concurrent_turns, at least 1
  MaxIterations,     \* max_iterations of the agent spec, at least 1
  CanCancel,         \* bound: the turns a user may cancel (once each)
  CanTimeOut,        \* bound: the turns the host may give up on
  MaxCrashes         \* bound: the number of process crashes

ASSUME LimitAssumption == Limit \in Nat \ {0}
ASSUME IterationsAssumption == MaxIterations \in Nat \ {0}
ASSUME BoundsAssumption == /\ CanCancel \subseteq Turn
                           /\ CanTimeOut \subseteq Turn
                           /\ MaxCrashes \in Nat
ASSUME NullAssumption == NoTurn \notin Turn /\ NoSession \notin Session

VARIABLES
  mode,       \* "up" serving requests, "boot" in recover_on_boot
  crashes,
  host,       \* what the Bun host is doing about each turn
  sess,       \* the session a turn was started on
  active,     \* SessionRecord.active_turn, durable
  cp,         \* state in the checkpoint row of each turn, durable
  inbox,      \* turns with a pending row in hitl_inbox, durable
  pc,         \* the inner task of each turn: where run_turn_scoped is,
  view,       \*   its local `turn`,
  iter,       \*   its local `iteration`,
  why,        \*   and the error it ended with
  task,       \* the outer task: joins the run, fails, heals, unregisters
  proc,       \* fail_turn / heal_orphan_turn in progress, per caller
  token,      \* turns whose CancelToken is set
  registered, \* keys of TurnCancelRegistry
  avail,      \* free permits of the semaphore
  activeTurns,\* TurnSupervisor.active
  todo,       \* checkpoint rows recover_on_boot has still to fail
  log,        \* the events each turn's subscribers have been sent

  \* History, written from the state and read by no action:
  met,        \* turns that had another turn of the session beside them
  contested   \* turns whose row more than one writer may hold for its own: a
              \* run read one back in the place of the other, or the host had
              \* one failed

run     == <<pc, view, iter, why>>
shared  == <<active, cp, inbox, log>>
admit   == <<avail, activeTurns, registered, token>>
control == <<mode, crashes, todo>>
past    == <<met, contested>>
vars == <<host, sess, task, proc, run, shared, admit, control, past>>

-----------------------------------------------------------------------------
MidFlight == {"accepted", "preparing", "reasoning", "acting", "observing"}
Terminal  == {"completed", "failed", "cancelled"}
Settled   == Terminal \cup {"awaiting_hitl"}
State     == MidFlight \cup Settled
View      == [turn : Turn \cup {NoTurn}, state : State \cup {"none"}]
Event     == {"started"} \cup Settled
Caller    == {"task", "fail", "cancel", "boot"}

RunPc == {"none", "accept", "announce", "prepare", "prepareCp", "build", "loop",
          "reasonCp", "sample", "actCp", "act", "reread", "observeCp", "enqueue",
          "saveHitl", "pause", "endCp", "endEmit", "ok", "err"}
TaskPc == {"none", "run", "failing", "healing", "dropCount", "dropPermit", "end"}
ProcPc == {"off", "heal", "read", "set", "cp", "emit", "back", "done"}
HostPc == {"idle", "starting", "waiting", "failing", "done"}

NullView == [turn |-> NoTurn, state |-> "none"]

TypeOK ==
  /\ mode \in {"up", "boot"}
  /\ crashes \in 0..MaxCrashes
  /\ host \in [Turn -> HostPc]
  /\ sess \in [Turn -> Session \cup {NoSession}]
  /\ active \in [Session -> View]
  /\ cp \in [Turn -> State \cup {"none"}]
  /\ inbox \subseteq Turn
  /\ pc \in [Turn -> RunPc]
  /\ view \in [Turn -> View]
  /\ iter \in [Turn -> 0..MaxIterations]
  /\ why \in [Turn -> {"none", "error", "cancelled"}]
  /\ task \in [Turn -> TaskPc]
  /\ proc \in [Caller -> [Turn -> ProcPc]]
  /\ token \subseteq Turn
  /\ registered \subseteq Turn
  /\ avail \in Int /\ activeTurns \in Int
  /\ todo \subseteq Turn
  /\ log \in [Turn -> Seq(Event)]
  /\ met \subseteq Turn /\ contested \subseteq Turn

Init ==
  /\ mode = "up" /\ crashes = 0 /\ todo = {}
  /\ host = [t \in Turn |-> "idle"]
  /\ sess = [t \in Turn |-> NoSession]
  /\ active = [s \in Session |-> NullView]
  /\ cp = [t \in Turn |-> "none"]
  /\ inbox = {}
  /\ pc = [t \in Turn |-> "none"] /\ view = [t \in Turn |-> NullView]
  /\ iter = [t \in Turn |-> 0] /\ why = [t \in Turn |-> "none"]
  /\ task = [t \in Turn |-> "none"]
  /\ proc = [c \in Caller |-> [t \in Turn |-> "off"]]
  /\ token = {} /\ registered = {}
  /\ avail = Limit /\ activeTurns = 0
  /\ log = [t \in Turn |-> <<>>]
  /\ met = {} /\ contested = {}

-----------------------------------------------------------------------------
(* turn.start.  A message starts a turn on the session of its conversation  *)
(* whatever runs there: nothing in the host or in the core waits for the    *)
(* turn before.                                                             *)

Live(t) == task[t] \in {"run", "failing", "healing"}

\* History: the turns of a session that may still write to it.
Busy(u) ==
  \/ host[u] \notin {"idle", "done"} \/ Live(u)
  \/ \E c \in Caller : proc[c][u] \notin {"off", "done"}
  \/ active[sess[u]].turn = u /\ active[sess[u]].state \in MidFlight

Company(s) == {u \in Turn : sess[u] = s /\ Busy(u)}

Admit(t, s) ==
  /\ mode = "up" /\ host[t] = "idle"
  /\ avail > 0
  /\ avail' = avail - 1 /\ activeTurns' = activeTurns + 1
  /\ host' = [host EXCEPT ![t] = "starting"]
  /\ sess' = [sess EXCEPT ![t] = s]
  /\ met' = IF Company(s) = {} THEN met ELSE met \cup Company(s) \cup {t}
  /\ UNCHANGED <<run, task, proc, registered, token, shared, control, contested>>

Register(t) ==
  /\ host[t] = "starting"
  /\ host' = [host EXCEPT ![t] = "waiting"]
  /\ registered' = registered \cup {t}
  /\ task' = [task EXCEPT ![t] = "run"]
  /\ pc' = [pc EXCEPT ![t] = "accept"]
  /\ view' = [view EXCEPT ![t] = [turn |-> t, state |-> "accepted"]]
  /\ UNCHANGED <<sess, proc, iter, why, avail, activeTurns, token, shared, control, past>>

-----------------------------------------------------------------------------
(* run_turn_scoped.                                                         *)

Goto(t, to) == pc' = [pc EXCEPT ![t] = to] /\ UNCHANGED <<view, iter, why>>

\* turn.state = st; store.set_active_turn(session, turn.clone())
Write(t, st, to) ==
  LET v == [turn |-> view[t].turn, state |-> st]
  IN /\ active' = [active EXCEPT ![sess[t]] = v]
     /\ view' = [view EXCEPT ![t] = v]
     /\ pc' = [pc EXCEPT ![t] = to]
     /\ UNCHANGED <<why, cp, inbox, log>>

Fail(t, error) == /\ pc' = [pc EXCEPT ![t] = "err"]
                  /\ why' = [why EXCEPT ![t] = error]
                  /\ UNCHANGED <<view, iter, shared>>

RunAccept(t)  == /\ pc[t] = "accept" /\ Write(t, "accepted", "announce")
                 /\ UNCHANGED iter
RunPrepare(t) == /\ pc[t] = "prepare" /\ Write(t, "preparing", "prepareCp")
                 /\ UNCHANGED iter

\* The recipe of the agent spec may be unknown to the policy catalog.
RunAnnounce(t) ==
  /\ pc[t] = "announce"
  /\ \/ /\ log' = [log EXCEPT ![t] = Append(@, "started")]
        /\ Goto(t, "prepare")
        /\ UNCHANGED <<active, cp, inbox>>
     \/ Fail(t, "error")

\* The checkpoint that follows a write: a row for whatever `turn` now is.
AfterCp == [prepareCp |-> "build", reasonCp |-> "sample", actCp |-> "act",
            observeCp |-> "loop", endCp |-> "endEmit"]

RunCheckpoint(t) ==
  /\ pc[t] \in DOMAIN AfterCp
  /\ cp' = [cp EXCEPT ![view[t].turn] = view[t].state]
  /\ Goto(t, AfterCp[pc[t]])
  /\ UNCHANGED <<active, inbox, log>>

\* Context assembly may fail.
RunBuild(t) ==
  /\ pc[t] = "build"
  /\ \/ Goto(t, "loop") /\ UNCHANGED shared
     \/ Fail(t, "error")

\* Mutant: one iteration too many.
ExhaustedLate(t) == iter[t] > MaxIterations

Exhausted(t) == iter[t] >= MaxIterations

RunLoop(t) ==
  /\ pc[t] = "loop"
  /\ \/ /\ t \in token
        /\ Write(t, "cancelled", "endCp") /\ UNCHANGED iter
     \/ /\ t \notin token /\ Exhausted(t)
        /\ Write(t, "completed", "endCp") /\ UNCHANGED iter
     \/ /\ t \notin token /\ ~Exhausted(t)
        /\ iter' = [iter EXCEPT ![t] = @ + 1]
        /\ Write(t, "reasoning", "reasonCp")

\* The model answers: cancelled, failed (or a denied tool), a request for
\* approval (its own or the tool gate's), a final text, or tool calls.
RunSample(t) ==
  /\ pc[t] = "sample"
  /\ \/ t \in token /\ Write(t, "cancelled", "endCp")
     \/ Fail(t, "error")
     \/ Goto(t, "enqueue") /\ UNCHANGED shared
     \/ Write(t, "completed", "endCp")
     \/ Write(t, "acting", "actCp")
  /\ UNCHANGED iter

\* invoke_all: an error ends the run, a timeout of the batch is an answer.
RunAct(t) ==
  /\ pc[t] = "act"
  /\ \/ t \in token /\ Fail(t, "cancelled")
     \/ Fail(t, "error")
     \/ Write(t, "observing", "reread")
  /\ UNCHANGED iter

\* turn = store.get_session(session).active_turn.unwrap()
RunReread(t) ==
  /\ pc[t] = "reread"
  /\ view' = [view EXCEPT ![t] = active[sess[t]]]
  /\ pc' = [pc EXCEPT ![t] = "observeCp"]
  /\ UNCHANGED <<iter, why, shared>>

\* raise_hitl: the inbox row (enqueue, then save_hitl again), then the turn.
RunRaise(t) ==
  /\ pc[t] \in {"enqueue", "saveHitl"}
  /\ inbox' = inbox \cup {t}
  /\ Goto(t, IF pc[t] = "enqueue" THEN "saveHitl" ELSE "pause")
  /\ UNCHANGED <<active, cp, log>>

\* Mutant: the pause is announced without its checkpoint.
RunPauseUnsaved(t) == /\ pc[t] = "pause" /\ Write(t, "awaiting_hitl", "endEmit")
                      /\ UNCHANGED iter

RunPause(t) == /\ pc[t] = "pause" /\ Write(t, "awaiting_hitl", "endCp")
               /\ UNCHANGED iter

\* Mutant: the cancelled branch falls through to the loop.
RunEmitFallsThrough(t) ==
  /\ pc[t] = "endEmit"
  /\ log' = [log EXCEPT ![t] = Append(@, view[t].state)]
  /\ Goto(t, IF view[t].state = "cancelled" THEN "loop" ELSE "ok")
  /\ UNCHANGED <<active, cp, inbox>>

RunEmit(t) ==
  /\ pc[t] = "endEmit"
  /\ log' = [log EXCEPT ![t] = Append(@, view[t].state)]
  /\ Goto(t, "ok")
  /\ UNCHANGED <<active, cp, inbox>>

\* History: the run of t is about to take another turn for its own.
Confused(t) == {u \in Turn : /\ pc[t] = "reread" /\ active[sess[t]].turn # t
                             /\ u \in {t, active[sess[t]].turn}}

RunStep(t) ==
  /\ \/ RunAccept(t) \/ RunAnnounce(t) \/ RunPrepare(t) \/ RunCheckpoint(t)
     \/ RunBuild(t) \/ RunLoop(t) \/ RunSample(t) \/ RunAct(t) \/ RunReread(t)
     \/ RunRaise(t) \/ RunPause(t) \/ RunEmit(t)
  /\ contested' = contested \cup Confused(t)
  /\ UNCHANGED <<host, sess, task, proc, admit, control, met>>

-----------------------------------------------------------------------------
(* TurnEngine::fail_turn and heal_orphan_turn, called by the outer task, by *)
(* the turn.fail and turn.cancel handlers and by recovery at boot.          *)

SetProc(c, t, to) == proc' = [proc EXCEPT ![c][t] = to]

HealRead(c, t) ==
  /\ proc[c][t] = "heal"
  /\ LET v == active[sess[t]]
     IN SetProc(c, t, IF v.turn = t /\ v.state \in MidFlight
                      THEN "read" ELSE "back")
  /\ UNCHANGED shared

\* Mutant: a turn at rest is failed as well.
FailReadAlways(c, t) ==
  /\ proc[c][t] = "read" /\ SetProc(c, t, "set")
  /\ UNCHANGED shared

\* A row of another turn counts as a fresh view of this one.
FailRead(c, t) ==
  /\ proc[c][t] = "read"
  /\ LET v == active[sess[t]]
     IN SetProc(c, t, IF v.turn = t /\ v.state \in Settled THEN "back" ELSE "set")
  /\ UNCHANGED shared

FailSet(c, t) ==
  /\ proc[c][t] = "set"
  /\ active' = [active EXCEPT ![sess[t]] = [turn |-> t, state |-> "failed"]]
  /\ SetProc(c, t, "cp")
  /\ UNCHANGED <<cp, inbox, log>>

FailCheckpoint(c, t) ==
  /\ proc[c][t] = "cp"
  /\ cp' = [cp EXCEPT ![t] = "failed"]
  /\ SetProc(c, t, "emit")
  /\ UNCHANGED <<active, inbox, log>>

FailEmit(c, t) ==
  /\ proc[c][t] = "emit"
  /\ log' = [log EXCEPT ![t] = Append(@, "failed")]
  /\ SetProc(c, t, "back")
  /\ UNCHANGED <<active, cp, inbox>>

ProcStep(c, t) ==
  /\ \/ HealRead(c, t) \/ FailRead(c, t) \/ FailSet(c, t)
     \/ FailCheckpoint(c, t) \/ FailEmit(c, t)
  /\ UNCHANGED <<host, sess, run, task, admit, control, past>>

-----------------------------------------------------------------------------
(* The outer task of start_turn_abortable.                                  *)

\* Mutant: an error of the run returns from the task at once.
TaskJoinLeaks(t) ==
  /\ task[t] = "run" /\ pc[t] \in {"ok", "err"}
  /\ IF pc[t] = "err"
       THEN UNCHANGED proc /\ task' = [task EXCEPT ![t] = "end"]
       ELSE SetProc("task", t, "heal") /\ task' = [task EXCEPT ![t] = "healing"]
  /\ UNCHANGED <<host, sess, run, shared, admit, control, past>>

\* Mutant: an error of the run is only logged and the heal forgotten.
TaskJoinIgnoresError(t) ==
  /\ task[t] = "run" /\ pc[t] \in {"ok", "err"}
  /\ SetProc("task", t, "back") /\ task' = [task EXCEPT ![t] = "healing"]
  /\ UNCHANGED <<host, sess, run, shared, admit, control, past>>

\* Mutant: the turn is unregistered and counted down before it is failed.
TaskJoinUnregisters(t) ==
  /\ task[t] = "run" /\ pc[t] \in {"ok", "err"}
  /\ SetProc("task", t, "read") /\ task' = [task EXCEPT ![t] = "failing"]
  /\ registered' = registered \ {t} /\ activeTurns' = activeTurns - 1
  /\ UNCHANGED <<host, sess, run, shared, avail, token, control, past>>

TaskJoin(t) ==
  /\ task[t] = "run" /\ pc[t] \in {"ok", "err"}
  /\ IF pc[t] = "err"
       THEN SetProc("task", t, "read") /\ task' = [task EXCEPT ![t] = "failing"]
       ELSE SetProc("task", t, "heal") /\ task' = [task EXCEPT ![t] = "healing"]
  /\ UNCHANGED <<host, sess, run, shared, admit, control, past>>

TaskHeal(t) ==
  /\ task[t] = "failing" /\ proc["task"][t] = "back"
  /\ SetProc("task", t, "heal")
  /\ task' = [task EXCEPT ![t] = "healing"]
  /\ UNCHANGED <<host, sess, run, shared, admit, control, past>>

TaskUnregister(t) ==
  /\ task[t] = "healing" /\ proc["task"][t] = "back"
  /\ SetProc("task", t, "off")
  /\ registered' = registered \ {t}
  /\ task' = [task EXCEPT ![t] = "dropCount"]
  /\ UNCHANGED <<host, sess, run, shared, avail, activeTurns, token, control, past>>

\* Drop of TurnPermit: its own drop counts down, then the field is released.
TaskDropCount(t) ==
  /\ task[t] = "dropCount"
  /\ activeTurns' = activeTurns - 1
  /\ task' = [task EXCEPT ![t] = "dropPermit"]
  /\ UNCHANGED <<host, sess, run, proc, shared, avail, registered, token, control, past>>

\* Mutant: the permit is released by hand and again by its drop.
TaskDropPermitTwice(t) ==
  /\ task[t] = "dropPermit"
  /\ avail' = avail + 2
  /\ task' = [task EXCEPT ![t] = "end"]
  /\ UNCHANGED <<host, sess, run, proc, shared, activeTurns, registered, token,
                 control, past>>

TaskDropPermit(t) ==
  /\ task[t] = "dropPermit"
  /\ avail' = avail + 1
  /\ task' = [task EXCEPT ![t] = "end"]
  /\ UNCHANGED <<host, sess, run, proc, shared, activeTurns, registered, token,
                 control, past>>

TaskStep(t) == \/ TaskJoin(t) \/ TaskHeal(t) \/ TaskUnregister(t)
               \/ TaskDropCount(t) \/ TaskDropPermit(t)

-----------------------------------------------------------------------------
(* The handlers of turn.cancel and turn.fail, and the host behind them.     *)

\* TurnCancelRegistry::cancel: sets the token of a registered turn.
TokenAfterCancel(t) == IF t \in registered THEN token \cup {t} ELSE token

\* Mutant: an unregistered turn is failed without the look at the session.
CancelRpcFails(t) ==
  /\ mode = "up" /\ t \in CanCancel
  /\ host[t] \notin {"idle", "starting"} /\ proc["cancel"][t] = "off"
  /\ token' = TokenAfterCancel(t)
  /\ SetProc("cancel", t, IF t \in registered THEN "done" ELSE "read")
  /\ UNCHANGED <<host, sess, run, task, shared, avail, activeTurns, registered,
                 control, past>>

CancelRpc(t) ==
  /\ mode = "up" /\ t \in CanCancel
  /\ host[t] \notin {"idle", "starting"} /\ proc["cancel"][t] = "off"
  /\ token' = TokenAfterCancel(t)
  /\ SetProc("cancel", t, IF t \in registered THEN "done" ELSE "heal")
  /\ UNCHANGED <<host, sess, run, task, shared, avail, activeTurns, registered,
                 control, past>>

CancelReturn(t) ==
  /\ proc["cancel"][t] = "back"
  /\ SetProc("cancel", t, "done")
  /\ UNCHANGED <<host, sess, run, task, shared, admit, control, past>>

HasSettled(t) == active[sess[t]].turn = t /\ active[sess[t]].state \in Settled

\* awaitTurnTerminal: a snapshot shows the turn at rest.
HostObserve(t) ==
  /\ mode = "up" /\ host[t] = "waiting" /\ HasSettled(t)
  /\ host' = [host EXCEPT ![t] = "done"]
  /\ UNCHANGED <<sess, run, task, proc, shared, admit, control, past>>

\* Its deadline (or its orphan watch) fires, the last snapshot is not at
\* rest, and the orchestrator calls turn.fail.
HostTimeout(t) ==
  /\ mode = "up" /\ t \in CanTimeOut
  /\ host[t] = "waiting" /\ ~HasSettled(t)
  /\ host' = [host EXCEPT ![t] = "failing"]
  /\ token' = TokenAfterCancel(t)
  /\ SetProc("fail", t, "read")
  /\ contested' = contested \cup {t}
  /\ UNCHANGED <<sess, run, task, shared, avail, activeTurns, registered, control,
                 met>>

HostGiveUp(t) ==
  /\ host[t] = "failing" /\ proc["fail"][t] = "back"
  /\ host' = [host EXCEPT ![t] = "done"]
  /\ SetProc("fail", t, "off")
  /\ UNCHANGED <<sess, run, task, shared, admit, control, past>>

-----------------------------------------------------------------------------
(* kill -9, restart, recover_on_boot.  Requests in flight are lost with     *)
(* the process; the store is what SQLite holds.                             *)

Crash ==
  /\ crashes < MaxCrashes
  /\ crashes' = crashes + 1
  /\ mode' = "boot"
  /\ todo' = {t \in Turn : cp[t] \in MidFlight}
  /\ pc' = [t \in Turn |-> "none"] /\ view' = [t \in Turn |-> NullView]
  /\ iter' = [t \in Turn |-> 0] /\ why' = [t \in Turn |-> "none"]
  /\ task' = [t \in Turn |-> "none"]
  /\ proc' = [c \in Caller |-> [t \in Turn |->
                IF c = "cancel" /\ proc[c][t] # "off" THEN "done" ELSE "off"]]
  /\ token' = {} /\ registered' = {} /\ avail' = Limit /\ activeTurns' = 0
  /\ host' = [t \in Turn |-> IF host[t] \in {"starting", "failing"}
                             THEN "done" ELSE host[t]]
  /\ UNCHANGED <<sess, shared, past>>

Recovering == \E t \in Turn : proc["boot"][t] # "off"

\* Mutant: recovery only counts the rows it finds.
BootSkips(t) ==
  /\ mode = "boot" /\ ~Recovering /\ t \in todo
  /\ todo' = todo \ {t}
  /\ UNCHANGED <<mode, crashes, host, sess, run, task, proc, shared, admit,
                 past>>

BootFail(t) ==
  /\ mode = "boot" /\ ~Recovering /\ t \in todo
  /\ todo' = todo \ {t}
  /\ SetProc("boot", t, "read")
  /\ UNCHANGED <<mode, crashes, host, sess, run, task, shared, admit, past>>

BootReturn(t) ==
  /\ proc["boot"][t] = "back"
  /\ SetProc("boot", t, "off")
  /\ UNCHANGED <<host, sess, run, task, shared, admit, control, past>>

BootDone ==
  /\ mode = "boot" /\ todo = {} /\ ~Recovering
  /\ mode' = "up"
  /\ UNCHANGED <<crashes, todo, host, sess, run, task, proc, shared, admit,
                 past>>

-----------------------------------------------------------------------------
Progress(t) ==
  \/ Register(t) \/ RunStep(t) \/ TaskStep(t) \/ CancelReturn(t)
  \/ HostObserve(t) \/ HostGiveUp(t) \/ BootFail(t) \/ BootReturn(t)
  \/ \E c \in Caller : ProcStep(c, t)

Request(t) == (\E s \in Session : Admit(t, s)) \/ CancelRpc(t) \/ HostTimeout(t)

Next == Crash \/ BootDone \/ \E t \in Turn : Progress(t) \/ Request(t)

Spec == Init /\ [][Next]_vars

(* Tokio keeps polling a spawned task and a handler that can go on, a model *)
(* call and a tool batch end by their own timeouts, and the host keeps      *)
(* polling.  Nobody has to start, cancel or give up on a turn.              *)
Fairness ==
  /\ WF_vars(BootDone)
  /\ \A t \in Turn :
       /\ WF_vars(Register(t)) /\ WF_vars(RunStep(t)) /\ WF_vars(TaskStep(t))
       /\ WF_vars(HostObserve(t)) /\ WF_vars(HostGiveUp(t))
       /\ WF_vars(CancelReturn(t))
       /\ WF_vars(BootFail(t)) /\ WF_vars(BootReturn(t))
       /\ \A c \in Caller : WF_vars(ProcStep(c, t))

FairSpec == Spec /\ Fairness

-----------------------------------------------------------------------------
Finished(t) == task[t] \in {"dropCount", "dropPermit", "end"}
Outcomes(t) == {i \in DOMAIN log[t] : log[t][i] \in Settled}
Admitted    == {t \in Turn : \/ host[t] = "starting"
                             \/ task[t] \notin {"none", "end"}}
Counted     == {t \in Admitted : task[t] # "dropPermit"}

(* Permits are neither lost nor duplicated by a turn's tasks, and the count *)
(* that health reports never exceeds the permits in use (supervisor.rs).    *)
PermitAccounting ==
  /\ avail >= 0 /\ avail + Cardinality(Admitted) = Limit
  /\ activeTurns = Cardinality(Counted)

(* The host's orphan watch kills a turn when health shows no active and no  *)
(* registered turn; that never happens to a turn whose task can still write.*)
OrphanSignalSound ==
  (activeTurns = 0 /\ registered = {}) => \A t \in Turn : ~Live(t)

(* A state that is mid-flight has a live task behind it while requests are  *)
(* served: no zombie a poller would wait for (turn.rs, heal_orphan_turn).   *)
MidFlightHasTask ==
  mode = "up" => \A s \in Session :
    active[s].state \in MidFlight => \E t \in Turn : sess[t] = s /\ Live(t)

(* Recovery at boot leaves no session in the middle that it has a mid-flight*)
(* checkpoint row for, whichever turn of the session that row is about and  *)
(* however the turns of the session overlapped before the crash.            *)
RecoveryHeals ==
  mode = "up" => \A t \in Turn :
    cp[t] \in MidFlight /\ active[sess[t]].state \in MidFlight
      => \E u \in Turn : sess[u] = sess[t] /\ Live(u)

(* The turn that a task reads back from the store after a tool batch is its *)
(* own when nothing of another turn of the session was going on beside it   *)
(* (engine.rs takes whatever the session's active turn is by then): neither *)
(* a late cancel nor recovery puts an older turn in its place.              *)
OwnIdentity ==
  \A t \in Turn \ met : pc[t] # "none" => view[t].turn = t

(* The four properties that follow hold of turns that overlap on a session, *)
(* as long as no run took one of them for another and the host did not have *)
(* it failed while it ran.                                                  *)

(* A turn is reported as over, or paused, at most once, whichever of its    *)
(* task, a cancel handler and recovery at boot reports it.                  *)
OneOutcome == \A t \in Turn \ contested : Cardinality(Outcomes(t)) <= 1

(* When a turn's task is gone its checkpoint row is at rest, so that a later*)
(* boot does not take the turn for an orphan.                               *)
FinishedIsCheckpointed ==
  \A t \in Turn \ contested : Finished(t) => cp[t] \in Settled

(* No run, no fail_turn and no heal_orphan_turn changes a turn at rest.     *)
SettledIsFinal ==
  [][\A s \in Session :
       active[s].state \in Settled /\ active[s].turn \notin contested
         => active'[s] = active[s] \/ active'[s].turn # active[s].turn]_vars

(* The end of a turn, or its pause, is in the checkpoint row (and the pause *)
(* in the inbox) before any subscriber hears of it.                         *)
NotifyAfterPersist ==
  [][\A t \in Turn \ contested : \A e \in Settled :
       log'[t] = Append(log[t], e)
         => cp[t] = e /\ (e = "awaiting_hitl" => t \in inbox)]_vars


(* The host's wait for a turn ends without its deadline, unless another     *)
(* turn has taken its place in the session's row when its task is gone.     *)
Replaced(t) == Finished(t) /\ active[sess[t]].turn # t

WaitEnds ==
  \A t \in Turn : host[t] = "waiting" ~> host[t] = "done" \/ Replaced(t)

(* Every admitted turn gives its permit and its registry entry back.        *)
PermitReturned == \A t \in Turn : t \in Admitted ~> t \notin Admitted \cup registered

(* What the subscribers of the event bus have been told of a turn; a turn   *)
(* that ran when the process died is interrupted.                           *)
Phase(t) == IF t \in contested THEN "unclear"
            ELSE IF log[t] = <<>> THEN "idle"
            ELSE IF Outcomes(t) # {} THEN log[t][CHOOSE i \in Outcomes(t) : TRUE]
            ELSE IF task[t] = "none" THEN "interrupted" ELSE "running"

Service == INSTANCE TurnService
             WITH phase <- [t \in Turn |-> Phase(t)], Outcome <- Settled,
                  Failed <- "failed"

(* The turn engine implements the service its subscribers rely on.          *)
ImplementsService == Service!Spec
=============================================================================
