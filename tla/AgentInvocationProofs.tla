------------------------ MODULE AgentInvocationProofs ------------------------
(***************************************************************************)
(* Proofs about AgentInvocation, for any number of calls.                  *)
(***************************************************************************)
EXTENDS AgentInvocation, TLAPS

\* The child's side of the inductive invariant: what the place of a call says of
\* its record and of the child's turn.
PlaceOK ==
  \A i \in Call :
    /\ at[i] \in {"todo", "opening"} => rec[i] = "none" /\ turn[i] = "none"
    /\ at[i] \in {"run", "ending", "returned", "error", "failed", "timed"} => rec[i] = "running"
    /\ at[i] \in {"ending", "returned"} => turn[i] \in AtRest
    /\ at[i] = "failed" => turn[i] \in AtRest
    /\ at[i] = "dropped" => batch = "cut"
    /\ at[i] = "told" => rec[i] # "running"
    /\ rec[i] = "none" => turn[i] = "none"

\* Every final record agrees with the child's turn, and a child is cancelled
\* only by the parent's token while its run is alive.
RecordOK ==
  \A i \in Call :
    /\ rec[i] = "completed" => turn[i] = "completed" /\ at[i] = "told"
    /\ rec[i] = "cancelled" => turn[i] = "cancelled" /\ at[i] = "told"
    /\ rec[i] = "failed" => turn[i] \in AtRest /\ at[i] = "told"
    /\ turn[i] = "cancelled" => flag
    /\ childFlag[i] /\ at[i] \in {"todo", "opening", "run", "ending"} => flag
    /\ watcher[i] # "none" => at[i] \notin {"todo", "opening"}

ChildInv == TypeOK /\ PlaceOK /\ RecordOK

\* The token's side: once the flag is set and the waiters are notified, nobody
\* enters the gap, and who was in it is in the history.
TokenOK ==
  /\ waking => flag
  /\ flag /\ ~waking => \A i \in Call : watcher[i] \in {"gap", "wait"} => i \in missed

-----------------------------------------------------------------------------
LEMMA TypeInit == Init => TypeOK
  BY DEF Init, TypeOK, AtRest

LEMMA TypeStep == TypeOK /\ [Next]_vars => TypeOK'
<1> SUFFICES ASSUME TypeOK, [Next]_vars PROVE TypeOK'
  OBVIOUS
<1> USE DEF TypeOK, AtRest
<1>1. ASSUME NEW i \in Call, Handler(i) PROVE TypeOK'
  <2>1. CASE Open(i) \/ Refuse(i) \/ Announce(i)
    BY <2>1 DEF Open, Refuse, Announce, Goto, cancel
  <2>2. CASE FailChild(i)
    BY <2>2 DEF FailChild, Goto, cancel
  <2>3. CASE Deadline(i)
    BY <2>3 DEF Deadline, Goto
  <2>4. CASE Tell(i)
    <3>1. Verdict(i) \in {"completed", "failed", "cancelled", "timedOut"}
      BY DEF Verdict
    <3>2. QED
      BY <2>4, <3>1 DEF Tell, Goto, cancel
  <2>5. QED
    BY <1>1, <2>1, <2>2, <2>3, <2>4 DEF Handler
<1>2. ASSUME NEW i \in Call, ChildStep(i) PROVE TypeOK'
  <2>1. CASE ChildBegins(i) \/ ChildStops(i) \/ ChildEnds(i)
    BY <2>1 DEF ChildBegins, ChildStops, ChildEnds, Goto, cancel
  <2>2. CASE ChildReturns(i) \/ ChildErrs(i)
    BY <2>2 DEF ChildReturns, ChildErrs, Goto, cancel
  <2>3. QED
    BY <1>2, <2>1, <2>2 DEF ChildStep
<1>3. ASSUME NEW i \in Call, Watch(i) PROVE TypeOK'
  BY <1>3 DEF Watch, WatcherTests, WatcherRegisters, child
<1>4. CASE Answer
  BY <1>4 DEF Answer, child, cancel
<1>5. CASE CutShort
  BY <1>5 DEF CutShort, cancel
<1>6. CASE Cancel
  BY <1>6 DEF Cancel, child
<1>7. CASE Wake
  BY <1>7 DEF Wake, InGap, child
<1>8. CASE UNCHANGED vars
  BY <1>8 DEF vars, child, cancel
<1>9. QED
  BY <1>1, <1>2, <1>3, <1>4, <1>5, <1>6, <1>7, <1>8 DEF Next

\* For any number of calls every reachable state is well typed.
THEOREM TypeCorrect == Spec => []TypeOK
  BY TypeInit, TypeStep, PTL DEF Spec

-----------------------------------------------------------------------------
LEMMA ChildInit == Init => ChildInv
<1> SUFFICES ASSUME Init PROVE ChildInv
  OBVIOUS
<1>1. TypeOK
  BY TypeInit
<1>2. PlaceOK /\ RecordOK
  BY DEF Init, PlaceOK, RecordOK, AtRest
<1>3. QED
  BY <1>1, <1>2 DEF ChildInv

\* The steps of the handler of a call.
LEMMA HandlerStep ==
  ASSUME ChildInv, NEW i \in Call, Handler(i)
  PROVE  PlaceOK' /\ RecordOK'
<1> USE DEF ChildInv, TypeOK, PlaceOK, RecordOK, AtRest, Goto, cancel
<1>1. CASE Open(i)
  BY <1>1 DEF Open
<1>2. CASE Refuse(i)
  BY <1>2 DEF Refuse
<1>3. CASE Announce(i)
  BY <1>3 DEF Announce
<1>4. CASE FailChild(i)
  BY <1>4 DEF FailChild
<1>5. CASE Deadline(i)
  BY <1>5 DEF Deadline
<1>6. CASE Tell(i)
  <2>1. /\ Verdict(i) = "completed" => turn[i] = "completed"
        /\ Verdict(i) = "cancelled" => turn[i] = "cancelled"
        /\ Verdict(i) = "failed" => turn[i] \in AtRest
        /\ Verdict(i) \in {"completed", "failed", "cancelled", "timedOut"}
    BY <1>6 DEF Tell, Verdict
  <2>2. QED
    BY <1>6, <2>1 DEF Tell
<1>7. QED
  BY <1>1, <1>2, <1>3, <1>4, <1>5, <1>6 DEF Handler

\* The steps of the child's run.
LEMMA ChildStepOK ==
  ASSUME ChildInv, NEW i \in Call, ChildStep(i)
  PROVE  PlaceOK' /\ RecordOK'
<1> USE DEF ChildInv, TypeOK, PlaceOK, RecordOK, AtRest, Goto, cancel
<1>1. CASE ChildBegins(i)
  BY <1>1 DEF ChildBegins
<1>2. CASE ChildStops(i)
  BY <1>2 DEF ChildStops
<1>3. CASE ChildEnds(i)
  BY <1>3 DEF ChildEnds
<1>4. CASE ChildReturns(i)
  BY <1>4 DEF ChildReturns
<1>5. CASE ChildErrs(i)
  BY <1>5 DEF ChildErrs
<1>6. QED
  BY <1>1, <1>2, <1>3, <1>4, <1>5, ChildStep(i) DEF ChildStep

\* The token, its watchers and the batch.
LEMMA TokenStepOK ==
  ASSUME ChildInv, \/ Answer \/ CutShort \/ Cancel \/ Wake
                   \/ \E i \in Call : Watch(i)
                   \/ UNCHANGED vars
  PROVE  PlaceOK' /\ RecordOK'
<1> USE DEF ChildInv, TypeOK, PlaceOK, RecordOK, AtRest
<1>1. CASE Answer
  BY <1>1 DEF Answer, child, cancel
<1>2. CASE CutShort
  BY <1>2 DEF CutShort, cancel
<1>3. CASE Cancel
  BY <1>3 DEF Cancel, child
<1>4. CASE Wake
  BY <1>4 DEF Wake, child
<1>5. ASSUME NEW i \in Call, Watch(i) PROVE PlaceOK' /\ RecordOK'
  BY <1>5 DEF Watch, WatcherTests, WatcherRegisters, child
<1>6. CASE UNCHANGED vars
  BY <1>6 DEF vars, child, cancel
<1>7. QED
  BY <1>1, <1>2, <1>3, <1>4, <1>5, <1>6

LEMMA ChildStepInv == ChildInv /\ [Next]_vars => ChildInv'
<1> SUFFICES ASSUME ChildInv, [Next]_vars PROVE ChildInv'
  OBVIOUS
<1>1. TypeOK'
  BY TypeStep DEF ChildInv
<1>2. PlaceOK' /\ RecordOK'
  BY HandlerStep, ChildStepOK, TokenStepOK DEF Next
<1>3. QED
  BY <1>1, <1>2 DEF ChildInv

LEMMA ChildImplies == ChildInv => ChildAccounted
  BY DEF ChildInv, TypeOK, PlaceOK, RecordOK, ChildAccounted, AtRest

\* However deadlines, the ceiling, errors and cancels interleave, the record of
\* an invocation tells what became of the child, and a child turn is left in the
\* middle only where the record or the ceiling says so.
THEOREM ChildrenAccounted == Spec => []ChildAccounted
<1>1. Init => ChildInv
  BY ChildInit
<1>2. ChildInv /\ [Next]_vars => ChildInv'
  BY ChildStepInv
<1>3. QED
  BY <1>1, <1>2, ChildImplies, PTL DEF Spec

-----------------------------------------------------------------------------
LEMMA TokenStep == TypeOK /\ TokenOK /\ [Next]_vars => TokenOK'
<1> SUFFICES ASSUME TypeOK, TokenOK, [Next]_vars PROVE TokenOK'
  OBVIOUS
<1> USE DEF TypeOK, TokenOK
<1>1. ASSUME NEW i \in Call, Handler(i) PROVE TokenOK'
  <2>1. CASE Announce(i)
    BY <2>1 DEF Announce
  <2>2. CASE Deadline(i)
    BY <2>2 DEF Deadline
  <2>3. CASE Open(i) \/ Refuse(i) \/ FailChild(i) \/ Tell(i)
    BY <2>3 DEF Open, Refuse, FailChild, Tell, cancel
  <2>4. QED
    BY <1>1, <2>1, <2>2, <2>3 DEF Handler
<1>2. ASSUME NEW i \in Call, ChildStep(i) PROVE TokenOK'
  BY <1>2 DEF ChildStep, ChildBegins, ChildStops, ChildEnds, ChildReturns, ChildErrs, cancel
<1>3. ASSUME NEW i \in Call, Watch(i) PROVE TokenOK'
  BY <1>3 DEF Watch, WatcherTests, WatcherRegisters
<1>4. CASE Answer \/ CutShort
  BY <1>4 DEF Answer, CutShort, cancel
<1>5. CASE Cancel
  BY <1>5 DEF Cancel
<1>6. CASE Wake
  BY <1>6 DEF Wake, InGap
<1>7. CASE UNCHANGED vars
  BY <1>7 DEF vars, cancel
<1>8. QED
  BY <1>1, <1>2, <1>3, <1>4, <1>5, <1>6, <1>7 DEF Next

\* A cancel reaches every watcher but those between test and registration, for
\* any number of watchers and wherever the calls are.
THEOREM EveryWaiterWoken == Spec => []CancelHeard
<1>1. Init => TokenOK
  BY DEF Init, TokenOK
<1>2. TypeOK /\ TokenOK /\ [Next]_vars => TokenOK'
  BY TokenStep
<1>3. TokenOK => CancelHeard
  BY DEF TokenOK, CancelHeard
<1>4. QED
  BY <1>1, <1>2, <1>3, TypeCorrect, PTL DEF Spec

=============================================================================
