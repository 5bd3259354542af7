--------------------------- MODULE AgentInvocation ---------------------------
(***************************************************************************)
(* The tool batch of a turn in which the model hands work to other agents: *)
(* its agent.invoke calls, one after the other, each with a child session, *)
(* a child turn, a record in the parent's session and a deadline; the      *)
(* ceiling on the whole batch; and the parent's cancel token, which a task *)
(* of its own watches for every child.                                     *)
(*                                                                         *)
(* The core is multi-threaded: every access to the store, every wait and   *)
(* both halves of a wait for the token are steps of their own.  A future   *)
(* that loses its race with a timer is dropped where it stands.            *)
(***************************************************************************)
EXTENDS Integers

CONSTANT Calls   \* the agent.invoke calls of the batch

ASSUME CallsAssumption == Calls \in Nat

Call == 1 .. Calls

VARIABLES
  batch,     \* "acting", "answered", or "cut" by the ceiling
  at,        \* where each call is
  rec,       \* the InvocationRecord's state in the parent's session
  turn,      \* the child turn in the child's session
  flag,      \* the parent token's AtomicBool
  waking,    \* cancel() has stored the flag and not yet notified the waiters
  watcher,   \* the task that carries the parent's cancel to the child
  childFlag, \* the child token's AtomicBool
  missed     \* history: watchers caught between the test and the registration

child  == <<at, rec, turn>>
cancel == <<flag, waking, watcher, childFlag, missed>>
vars   == <<batch, child, cancel>>

AtRest == {"completed", "cancelled", "hitl", "failed"}

TypeOK ==
  /\ batch \in {"acting", "answered", "cut"}
  /\ at \in [Call -> {"todo", "opening", "run", "ending", "returned", "error", "failed",
                      "timed", "told", "dropped"}]
  /\ rec \in [Call -> {"none", "running", "completed", "failed", "cancelled", "timedOut"}]
  /\ turn \in [Call -> {"none", "live"} \cup AtRest]
  /\ flag \in BOOLEAN /\ waking \in BOOLEAN
  /\ watcher \in [Call -> {"none", "test", "gap", "wait", "done"}]
  /\ childFlag \in [Call -> BOOLEAN] /\ missed \subseteq Call

Init ==
  /\ batch = "acting" /\ flag = FALSE /\ waking = FALSE /\ missed = {}
  /\ at = [i \in Call |-> "todo"] /\ rec = [i \in Call |-> "none"]
  /\ turn = [i \in Call |-> "none"] /\ watcher = [i \in Call |-> "none"]
  /\ childFlag = [i \in Call |-> FALSE]

-----------------------------------------------------------------------------
(* A call.                                                                  *)

Goto(i, to) == at' = [at EXCEPT ![i] = to]

\* handle_agent_invoke: the next call of the batch, whatever became of the last.
Open(i) ==
  /\ batch = "acting" /\ at[i] = "todo" /\ \A j \in 1 .. i - 1 : at[j] = "told"
  /\ Goto(i, "opening") /\ UNCHANGED <<batch, rec, turn, cancel>>

\* No such callee, or one the admission refuses.
Refuse(i) ==
  /\ at[i] = "opening" /\ Goto(i, "told") /\ UNCHANGED <<batch, rec, turn, cancel>>

\* The child session exists: the record says running, and the watcher is spawned.
Announce(i) ==
  /\ at[i] = "opening" /\ Goto(i, "run")
  /\ rec' = [rec EXCEPT ![i] = "running"] /\ watcher' = [watcher EXCEPT ![i] = "test"]
  /\ UNCHANGED <<batch, turn, flag, waking, childFlag, missed>>

\* The child's run stores its turn.
ChildBegins(i) ==
  /\ at[i] = "run" /\ turn[i] = "none" /\ turn' = [turn EXCEPT ![i] = "live"]
  /\ UNCHANGED <<batch, at, rec, cancel>>

\* The child's run sees its token, before a sample or in it.
ChildStops(i) ==
  /\ at[i] = "run" /\ turn[i] = "live" /\ childFlag[i]
  /\ turn' = [turn EXCEPT ![i] = "cancelled"] /\ Goto(i, "ending")
  /\ UNCHANGED <<batch, rec, cancel>>

ChildEnds(i) ==
  /\ at[i] = "run" /\ turn[i] = "live" /\ Goto(i, "ending")
  /\ \E end \in {"completed", "hitl"} : turn' = [turn EXCEPT ![i] = end]
  /\ UNCHANGED <<batch, rec, cancel>>

\* After the store, the checkpoint, which may be refused.
ChildReturns(i) ==
  /\ at[i] = "ending" /\ \E to \in {"returned", "error"} : Goto(i, to)
  /\ UNCHANGED <<batch, rec, turn, cancel>>

\* The model fails, a tool is denied, or a cancelled batch comes back as an error.
ChildErrs(i) ==
  /\ at[i] = "run" /\ Goto(i, "error") /\ UNCHANGED <<batch, rec, turn, cancel>>

\* Mutant: an error of the child is passed on without failing its turn.
FailChildSkipped(i) ==
  /\ at[i] = "error" /\ Goto(i, "failed") /\ UNCHANGED <<batch, rec, turn, cancel>>

\* engine.fail_turn on the child: a turn at rest is left as it is.
FailChild(i) ==
  /\ at[i] = "error" /\ Goto(i, "failed")
  /\ turn' = [turn EXCEPT ![i] = IF @ \in AtRest THEN @ ELSE "failed"]
  /\ UNCHANGED <<batch, rec, cancel>>

\* Mutant: the time counts from the child's first write.
DeadlineOfLive(i) ==
  /\ at[i] \in {"run", "ending"} /\ turn[i] # "none" /\ Goto(i, "timed")
  /\ childFlag' = [childFlag EXCEPT ![i] = TRUE]
  /\ UNCHANGED <<batch, rec, turn, flag, waking, watcher, missed>>

\* tokio::time::timeout drops the child's run.
Deadline(i) ==
  /\ at[i] \in {"run", "ending"} /\ Goto(i, "timed")
  /\ childFlag' = [childFlag EXCEPT ![i] = TRUE]
  /\ UNCHANGED <<batch, rec, turn, flag, waking, watcher, missed>>

\* Mutant: a child that waits for an approval is passed on as it is.
VerdictRaw(i) == IF at[i] = "timed" THEN "timedOut"
                 ELSE IF at[i] = "returned" THEN turn[i] ELSE "failed"

\* What the record says in the end; a child cannot wait for an approval.
Verdict(i) ==
  CASE at[i] = "timed" -> "timedOut"
    [] at[i] = "returned" /\ turn[i] \in {"completed", "cancelled"} -> turn[i]
    [] OTHER -> "failed"

Tell(i) ==
  /\ at[i] \in {"returned", "failed", "timed"} /\ Goto(i, "told")
  /\ rec' = [rec EXCEPT ![i] = Verdict(i)] /\ UNCHANGED <<batch, turn, cancel>>

-----------------------------------------------------------------------------
(* The batch.                                                               *)

Answer ==
  /\ batch = "acting" /\ batch' = "answered" /\ \A i \in Call : at[i] = "told"
  /\ UNCHANGED <<child, cancel>>

\* The ceiling of the engine drops the batch, with the call that is under way;
\* its child token is not set, its record not touched.
CutShort ==
  /\ batch = "acting" /\ batch' = "cut"
  /\ at' = [i \in Call |-> IF at[i] \in {"todo", "told"} THEN at[i] ELSE "dropped"]
  /\ UNCHANGED <<rec, turn, cancel>>

-----------------------------------------------------------------------------
(* The parent's token.                                                      *)

\* CancelToken::cancel, first half.
Cancel ==
  /\ ~flag /\ flag' = TRUE /\ waking' = TRUE
  /\ UNCHANGED <<batch, child, watcher, childFlag, missed>>

InGap == {i \in Call : watcher[i] = "gap"}

\* Mutant: notify_one, which wakes the waiter that registered first.
WakeOne ==
  /\ waking /\ waking' = FALSE /\ missed' = missed \cup InGap
  /\ watcher' = [i \in Call |-> IF watcher[i] = "wait" /\ \A j \in 1 .. i - 1 : watcher[j] # "wait"
                                THEN "test" ELSE watcher[i]]
  /\ UNCHANGED <<batch, child, flag, childFlag>>

\* Second half: notify_waiters wakes those that have registered.
Wake ==
  /\ waking /\ waking' = FALSE /\ missed' = missed \cup InGap
  /\ watcher' = [i \in Call |-> IF watcher[i] = "wait" THEN "test" ELSE watcher[i]]
  /\ UNCHANGED <<batch, child, flag, childFlag>>

\* cancelled(): test the flag, then register; the child's token is set at once.
WatcherTests(i) ==
  /\ watcher[i] = "test"
  /\ IF flag THEN /\ watcher' = [watcher EXCEPT ![i] = "done"]
                  /\ childFlag' = [childFlag EXCEPT ![i] = TRUE]
     ELSE watcher' = [watcher EXCEPT ![i] = "gap"] /\ UNCHANGED childFlag
  /\ UNCHANGED <<batch, child, flag, waking, missed>>

WatcherRegisters(i) ==
  /\ watcher[i] = "gap" /\ watcher' = [watcher EXCEPT ![i] = "wait"]
  /\ UNCHANGED <<batch, child, flag, waking, childFlag, missed>>

-----------------------------------------------------------------------------
Handler(i) == Open(i) \/ Refuse(i) \/ Announce(i) \/ FailChild(i) \/ Deadline(i) \/ Tell(i)

ChildStep(i) == \/ ChildBegins(i) \/ ChildStops(i) \/ ChildEnds(i)
                \/ ChildReturns(i) \/ ChildErrs(i)

Watch(i) == WatcherTests(i) \/ WatcherRegisters(i)

Next == \/ \E i \in Call : Handler(i) \/ ChildStep(i) \/ Watch(i)
        \/ Answer \/ CutShort \/ Cancel \/ Wake

Spec == Init /\ [][Next]_vars

\* The handler is polled and its timer fires; nothing is asked of the child, of
\* the watcher or of the ceiling.
FairSpec == Spec /\ \A i \in Call : WF_vars(Handler(i))

-----------------------------------------------------------------------------
\* What a parent is told of a child is what became of it: completed only if the
\* child's turn is, cancelled only if the parent's token was set and the child
\* saw it, failed only if its turn is at rest.  A child turn that nobody runs is
\* left in the middle only by a deadline, which the record reports, or by the
\* ceiling; a record is left saying "running" only by the ceiling.
ChildAccounted ==
  \A i \in Call :
    /\ rec[i] = "completed" => turn[i] = "completed"
    /\ rec[i] = "cancelled" => turn[i] = "cancelled" /\ flag
    /\ rec[i] = "failed" => turn[i] \in AtRest
    /\ turn[i] = "live" /\ at[i] \in {"told", "dropped"} => rec[i] = "timedOut" \/ batch = "cut"
    /\ rec[i] = "running" /\ at[i] \in {"told", "dropped"} => batch = "cut"

\* A watcher that has registered, or that comes later, hears of the cancel; only
\* one that was between its test and its registration can miss it.
CancelHeard ==
  flag /\ ~waking => \A i \in Call : watcher[i] = "wait" => i \in missed

\* However the child hangs and whether or not its watcher heard of the cancel,
\* a call returns to the batch, or the ceiling ends the batch.
CallReturns == \A i \in Call : (at[i] = "opening") ~> (at[i] \in {"told", "dropped"})

=============================================================================
