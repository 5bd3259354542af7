------------------------ MODULE OrderExecutionProofs ------------------------
(***************************************************************************)
(* Theorems about OrderExecution, for any orders, passes, retries, lost    *)
(* answers, pauses and restarts.                                           *)
(***************************************************************************)
EXTENDS OrderExecution, SequenceTheorems, TLAPS

(* Where a pass can be, and with which verdict, in each of its sweeps.      *)
OwnPlace(p) ==
  /\ at[p] = "start" <=> phase[p] = "idle"
  /\ at[p] \notin {"start", "scan", "next"} => cur[p] \in Order
  /\ at[p] \in {"ask", "row"} => phase[p] = "poll"
  /\ at[p] = "fill" => phase[p] \in {"poll", "due"}
  /\ at[p] \in {"mark", "gate", "submit", "insert", "refuse"} => phase[p] = "due"
  /\ at[p] = "submit" => tries[p] < MaxAttempts
  /\ at[p] \in {"row", "fill", "task", "life"} /\ phase[p] = "poll"
       => verdict[p] \in {"filled", "refused", "dropped"}
  /\ at[p] \in {"task", "life"} /\ phase[p] = "expire" => verdict[p] = "expired"
  /\ at[p] = "fill" => verdict[p] = "filled"
  /\ at[p] \in {"insert", "refuse", "task", "life"} /\ phase[p] = "due"
       => verdict[p] \in {"filled", "open", "paused", "blocked", "retry", "giveUp"}

PassOK == \A p \in Pass : OwnPlace(p)

(* A pass that polls for an order, or is about to.                          *)
Polls(p, o) ==
  /\ phase[p] = "poll"
  /\ \/ at[p] # "scan" /\ o \in todo[p]
     \/ cur[p] = o /\ at[p] \in {"ask", "fill", "row", "task"}

(* At most one pass dispatches a task, the task says so unless the user's   *)
(* cancel has overwritten it, and nobody polls for it meanwhile.            *)
OwnOK ==
  \A o \in Order : \A p \in Pass :
    /\ Owns(p, o) => /\ \A q \in Pass : Owns(q, o) => p = q
                     /\ \/ task[o] = "dispatching"
                        \/ task[o] = "cancelled" /\ cancel[o].at = "cancelled"
    /\ Polls(p, o) => /\ task[o] \in Final \cup {"waiting_ack"}
                      /\ \A q \in Pass : ~Owns(q, o)

(* A retry is left for every task that may still be dispatched.             *)
RetryOK ==
  \A o \in Order :
    /\ task[o] \in {"none", "awaiting_review", "pending", "dispatching"}
         => retries[o] < MaxRetries
    /\ \A p \in Pass : Owns(p, o) =>
         /\ retries[o] < MaxRetries
         /\ at[p] \in {"insert", "refuse", "task"} /\ verdict[p] = "retry"
              => retries[o] + 1 < MaxRetries

(* Nothing happens to a task before it exists, and only an intent with a    *)
(* ticket is reviewed or expires.                                           *)
CreateOK ==
  \A o \in Order :
    /\ creator[o] # "done" => task[o] = "none"
    /\ creator[o] \notin {"reviewTask", "done"} => ticket[o] = "none"
    /\ task[o] = "none" => /\ row[o] = <<>> /\ broker[o] = <<>>
                           /\ cancel[o].at = "idle" /\ retries[o] = 0
    /\ \A a \in Act : review[o][a] # "idle" => ticket[o] # "none"
    /\ \A p \in Pass : phase[p] = "expire" /\ at[p] # "scan" /\ o \in todo[p]
                        => ticket[o] # "none"

TypeInv == TypeOK /\ PassOK /\ OwnOK /\ RetryOK /\ CreateOK

(* A reviewed order that can be or has been sent has been approved.         *)
Approved(o) == review[o]["approve"] \in {"life", "done"}

ReviewOK ==
  \A o \in Order :
    ticket[o] # "none"
    /\ (\/ task[o] \in {"pending", "dispatching"} \/ row[o] # <<>> \/ broker[o] # <<>>
        \/ \E p \in Pass : Owns(p, o))
      => Approved(o)

-----------------------------------------------------------------------------
(* Types.                                                                   *)

LEMMA InitInv == Init => TypeInv /\ ReviewOK
BY LimitAssumption, NullAssumption
   DEF Init, TypeInv, TypeOK, PassOK, OwnPlace, OwnOK, RetryOK, CreateOK, ReviewOK, Polls, Owns,
       TaskStatus, LifeStatus, Cancellable, Final, Verdict, TaskOf, Rows, Held, Act

(* A row whose status is overwritten is still a row.                        *)
LEMMA RowsKeepType ==
  ASSUME row \in [Order -> Seq(Rows)], NEW o \in Order, NEW k,
         NEW s \in {"submitted", "filled", "rejected", "cancelled"}
  PROVE  [row EXCEPT ![o][k].status = s] \in [Order -> Seq(Rows)]
<1>1. row[o] \in Seq(Rows)
  OBVIOUS
<1>2. [row[o] EXCEPT ![k] = [row[o][k] EXCEPT !.status = s]] \in Seq(Rows)
  <2>1. CASE k \in 1 .. Len(row[o])
    <3>1. row[o][k] \in Rows
      BY <1>1, <2>1
    <3>2. [row[o][k] EXCEPT !.status = s] \in Rows
      BY <3>1 DEF Rows
    <3> QED BY <1>1, <2>1, <3>2, ExceptSeq
  <2>2. CASE k \notin 1 .. Len(row[o])
    <3>1. [row[o] EXCEPT ![k] = [row[o][k] EXCEPT !.status = s]] = row[o]
      BY <1>1, <2>2
    <3> QED BY <1>1, <3>1
  <2> QED BY <2>1, <2>2
<1> QED BY <1>2

LEMMA TasksType == \A v \in Verdict : TaskOf[v] \in TaskStatus /\ LifeOf[v] \in LifeStatus
BY DEF Verdict, TaskOf, LifeOf, TaskStatus, LifeStatus, Cancellable, Final

LEMMA CreateType == ASSUME TypeOK, NEW o \in Order, CreateStep(o) PROVE TypeOK'
<1> USE DEF TypeOK, CreateStep, WriteLife, WriteTask, pass, control, db,
            TaskStatus, LifeStatus, Cancellable, Final
<1>1. CASE CreateIntent(o)
  BY <1>1 DEF CreateIntent
<1>2. CASE CreateRisk(o)
  BY <1>2 DEF CreateRisk
<1>3. CASE CreateLife(o)
  <2>1. life' \in [Order -> LifeStatus]
    <3>1. PICK s \in LifeStatus : WriteLife(o, s)
      BY <1>3 DEF CreateLife
    <3> QED BY <3>1
  <2>2. creator' \in [Order -> {"none", "risk", "block", "blockTask", "review", "ticket",
                                "reviewTask", "allow", "allowTask", "done"}]
    <3>1. PICK s \in {"blockTask", "ticket", "allowTask"} : creator' = [creator EXCEPT ![o] = s]
      BY <1>3 DEF CreateLife
    <3> QED BY <3>1
  <2> QED BY <1>3, <2>1, <2>2 DEF CreateLife
<1>4. CASE CreateTicket(o)
  BY <1>4 DEF CreateTicket
<1>5. CASE CreateTask(o)
  <2>1. task' \in [Order -> TaskStatus]
    <3>1. PICK s \in TaskStatus : WriteTask(o, s)
      BY <1>5 DEF CreateTask
    <3> QED BY <3>1
  <2> QED BY <1>5, <2>1 DEF CreateTask
<1> QED BY <1>1, <1>2, <1>3, <1>4, <1>5

LEMMA ReviewType ==
  ASSUME TypeOK, NEW o \in Order, NEW a \in Act, ReviewStep(o, a) PROVE TypeOK'
<1> USE DEF TypeOK, ReviewStep, Progress, WriteLife, WriteTask, pass, control, db,
            TaskStatus, LifeStatus, Cancellable, Final
<1>1. CASE ReviewRead(o, a)
  BY <1>1 DEF ReviewRead
<1>2. CASE ReviewTicket(o, a)
  BY <1>2 DEF ReviewTicket
<1>3. CASE ReviewTask(o, a)
  BY <1>3 DEF ReviewTask
<1>4. CASE ReviewLife(o, a)
  BY <1>4 DEF ReviewLife
<1> QED BY <1>1, <1>2, <1>3, <1>4

LEMMA CancelType == ASSUME TypeOK, NEW o \in Order, CancelStep(o) PROVE TypeOK'
<1> USE DEF TypeOK, CancelStep, CancelTo, WriteTask, pass, control, db
<1>1. CASE CancelRead(o)
  <2>1. Len(row[o]) \in Nat
    OBVIOUS
  <2>2. cancel' \in [Order -> [at : {"idle", "task", "broker", "row", "cancelled", "done"},
                              row : Nat]]
    BY <1>1, <2>1 DEF CancelRead
  <2> QED BY <1>1, <2>2 DEF CancelRead
<1>2. CASE CancelTask(o)
  BY <1>2 DEF CancelTask, TaskStatus, Final
<1>3. CASE CancelBroker(o)
  <2>1. broker' \in [Order -> Seq(Held)]
    <3> DEFINE i == row[o][cancel[o].row].id
    <3>1. CASE /\ i \in DOMAIN broker[o] /\ broker' = [broker EXCEPT ![o][i] = "cancelled"]
      <4>1. broker[o] \in Seq(Held) /\ i \in 1 .. Len(broker[o])
        BY <3>1
      <4>2. [broker[o] EXCEPT ![i] = "cancelled"] \in Seq(Held)
        BY <4>1, ExceptSeq DEF Held
      <4> QED BY <3>1, <4>2
    <3>2. CASE UNCHANGED broker
      BY <3>2
    <3> QED BY <1>3, <3>1, <3>2 DEF CancelBroker
  <2>2. cancel' \in [Order -> [at : {"idle", "task", "broker", "row", "cancelled", "done"},
                              row : Nat]]
    <3>1. PICK s \in {"row", "done"} : CancelTo(o, s)
      BY <1>3 DEF CancelBroker
    <3> QED BY <3>1
  <2> QED BY <1>3, <2>1, <2>2 DEF CancelBroker
<1>4. CASE CancelRow(o)
  <2>1. row' \in [Order -> Seq(Rows)]
    BY <1>4, RowsKeepType DEF CancelRow
  <2> QED BY <1>4, <2>1 DEF CancelRow
<1> QED BY <1>1, <1>2, <1>3, <1>4

LEMMA PauseType == ASSUME TypeOK, PauseStep PROVE TypeOK'
<1> USE DEF TypeOK, PauseStep, WriteLife, WriteTask, requests, pass, db,
            TaskStatus, LifeStatus, Cancellable, Final
<1>1. CASE Pause
  <2>1. pauses' \in Nat
    BY <1>1 DEF Pause
  <2> QED BY <1>1, <2>1 DEF Pause
<1>2. CASE Resume
  BY <1>2 DEF Resume
<1>3. CASE PauseScan
  BY <1>3 DEF PauseScan
<1>4. CASE \E o \in Order : PauseCancel(o)
  BY <1>4 DEF PauseCancel
<1>5. CASE PauseLife
  BY <1>5 DEF PauseLife
<1>6. CASE PauseReturn
  BY <1>6 DEF PauseReturn
<1> QED BY <1>1, <1>2, <1>3, <1>4, <1>5, <1>6

LEMMA BrokerType ==
  ASSUME TypeOK, NEW o \in Order, NEW i \in DOMAIN broker[o], BrokerMove(o, i) PROVE TypeOK'
<1>1. broker' \in [Order -> Seq(Held)]
  BY ExceptSeq DEF TypeOK, BrokerMove, Held
<1> QED BY <1>1 DEF TypeOK, BrokerMove, db, requests, pass, control

LEMMA CrashType == ASSUME TypeOK, Crash PROVE TypeOK'
<1>1. creator' \in [Order -> {"none", "risk", "block", "blockTask", "review", "ticket",
                            "reviewTask", "allow", "allowTask", "done"}]
  BY DEF TypeOK, Crash
<1>2. review' \in [Order -> [Act -> {"idle", "ticket", "task", "life", "done",
                                     "refused", "lost"}]]
  BY DEF TypeOK, Crash
<1>3. cancel' \in [Order -> [at : {"idle", "task", "broker", "row", "cancelled", "done"},
                          row : Nat]]
  BY DEF TypeOK, Crash
<1>4. tries' \in [Pass -> 0 .. MaxAttempts]
  BY LimitAssumption DEF Crash
<1> QED BY <1>1, <1>2, <1>3, <1>4 DEF TypeOK, Crash, db

LEMMA FailureIs == \A o : Failure(o) \in {"retry", "giveUp"}
BY DEF Failure

(* What one attempt of a submit does to the broker and to the pass.         *)
LEMMA SubmitDoes ==
  ASSUME NEW p \in Pass, PassSubmit(p)
  PROVE  /\ UNCHANGED broker \/ \E s \in Held : Accept(cur[p], s)
         /\ \/ UNCHANGED <<at, verdict>> /\ tries[p] + 1 < MaxAttempts
            \/ \E v \in {"filled", "open"} : Decide(p, v, "insert")
            \/ \E to \in {"insert", "task"} : Decide(p, Failure(cur[p]), to)
         /\ tries' = [tries EXCEPT ![p] = @ + 1]
         /\ lost' \in {lost, lost + 1}
         /\ UNCHANGED <<phase, todo, cur, db>>
BY DEF PassSubmit, Held

LEMMA PassType ==
  ASSUME TypeInv, NEW p \in Pass, PassStep(p) PROVE TypeOK'
<1> USE DEF TypeInv, TypeOK, Goto, Decide, Take, WriteTask, WriteLife, db, requests, control
<1> UNCHANGED <<requests, control, crashes>>
  BY DEF PassStep
<1>1. CASE PassScan(p)
  <2>1. todo' \in [Pass -> SUBSET Order]
    <3>1. PICK due \in SUBSET Order : todo' = [todo EXCEPT ![p] = due]
      BY <1>1, ModeAssumption DEF PassScan
    <3> QED BY <3>1
  <2> QED BY <1>1, <2>1 DEF PassScan
<1>2. CASE PassNextSweep(p)
  <2>1. PICK ph \in {"poll", "due", "idle"} : phase' = [phase EXCEPT ![p] = ph]
    BY <1>2 DEF PassNextSweep
  <2>2. PICK to \in {"start", "scan"} : Goto(p, to)
    BY <1>2 DEF PassNextSweep
  <2> QED BY <1>2, <2>1, <2>2 DEF PassNextSweep
<1>3. CASE PassAsk(p)
  <2>1. verdict' \in [Pass -> Verdict \cup {"none"}]
    BY <1>3 DEF PassAsk, Verdict, TaskOf
  <2>2. PICK to \in {"next", "fill", "row"} : Goto(p, to)
    BY <1>3 DEF PassAsk
  <2> QED BY <1>3, <2>1, <2>2 DEF PassAsk
<1>4. CASE PassAskFails(p)
  BY <1>4 DEF PassAskFails
<1>5. CASE PassFill(p)
  <2>1. fills' \in [Order -> Nat]
    <3>1. cur[p] \in Order /\ fills' = [fills EXCEPT ![cur[p]] = @ + 1]
      BY <1>5 DEF PassFill, PassOK, OwnPlace
    <3>2. fills[cur[p]] + 1 \in Nat
      BY <3>1
    <3> QED BY <3>1, <3>2
  <2>2. PICK to \in {"row", "task"} : Goto(p, to)
    BY <1>5 DEF PassFill
  <2> QED BY <1>5, <2>1, <2>2 DEF PassFill
<1>6. CASE PassRow(p)
  <2>1. PICK s \in {"filled", "rejected", "cancelled"} : row' = [row EXCEPT ![cur[p]][1].status = s]
    BY <1>6 DEF PassRow
  <2>2. cur[p] \in Order
    BY <1>6 DEF PassRow, PassOK, OwnPlace
  <2>3. row' \in [Order -> Seq(Rows)]
    BY <2>1, <2>2, RowsKeepType
  <2> QED BY <1>6, <2>3 DEF PassRow
<1>7. CASE PassMark(p)
  BY <1>7 DEF PassMark, LifeStatus
<1>8. CASE PassGate(p)
  <2>1. verdict' \in [Pass -> Verdict \cup {"none"}]
    <3>1. CASE UNCHANGED verdict
      BY <3>1
    <3>2. CASE \E v \in {"paused", "filled", "blocked", "retry", "giveUp"} :
                 verdict' = [verdict EXCEPT ![p] = v]
      BY <3>2 DEF Verdict, TaskOf
    <3> QED BY <1>8, <3>1, <3>2 DEF PassGate, Failure
  <2>2. PICK to \in {"task", "insert", "submit"} : Goto(p, to)
    BY <1>8 DEF PassGate
  <2>3. tries' \in [Pass -> 0 .. MaxAttempts]
    <3>1. tries' = [tries EXCEPT ![p] = 0]
      BY <1>8 DEF PassGate
    <3> QED BY <3>1, LimitAssumption
  <2> QED BY <1>8, <2>1, <2>2, <2>3 DEF PassGate
<1>9. CASE PassSubmit(p)
  <2>1. verdict' \in [Pass -> Verdict \cup {"none"}]
    <3>1. CASE UNCHANGED verdict
      BY <3>1
    <3>2. CASE \E v \in {"filled", "open", "retry", "giveUp"} :
                 verdict' = [verdict EXCEPT ![p] = v]
      BY <3>2 DEF Verdict, TaskOf
    <3> QED BY <1>9, <3>1, <3>2, SubmitDoes, FailureIs
  <2>2. UNCHANGED at \/ \E to \in {"insert", "task"} : Goto(p, to)
    BY <1>9, SubmitDoes
  <2>3. tries' \in [Pass -> 0 .. MaxAttempts]
    <3>1. tries[p] < MaxAttempts /\ tries' = [tries EXCEPT ![p] = @ + 1]
      BY <1>9 DEF PassSubmit, PassOK, OwnPlace
    <3> QED BY <3>1, LimitAssumption
  <2>4. broker' \in [Order -> Seq(Held)]
    <3>1. cur[p] \in Order
      BY <1>9 DEF PassSubmit, PassOK, OwnPlace
    <3>2. ASSUME NEW s \in Held, Accept(cur[p], s) PROVE broker' \in [Order -> Seq(Held)]
      BY <3>1, <3>2 DEF Accept
    <3> QED BY <1>9, <3>2, SubmitDoes
  <2>5. lost' \in Nat
    <3>1. lost' \in {lost, lost + 1}
      BY <1>9, SubmitDoes
    <3> QED BY <3>1
  <2>6. UNCHANGED <<phase, todo, cur, db>>
    BY <1>9, SubmitDoes
  <2>7. UNCHANGED <<enabled, creator, review, cancel, pauser, sweep, victim, pauses, crashes>>
    OBVIOUS
  <2>8. at' \in [Pass -> {"start", "scan", "next", "task", "life", "ask", "fill", "row",
                          "mark", "gate", "submit", "insert", "refuse"}]
    BY <2>2
  <2> QED BY <2>1, <2>3, <2>4, <2>5, <2>6, <2>7, <2>8
<1>10. CASE PassInsert(p)
  <2>1. cur[p] \in Order
    BY <1>10 DEF PassInsert, PassOK, OwnPlace
  <2>2. PICK r \in Rows : row' = [row EXCEPT ![cur[p]] = Append(@, r)]
    <3> DEFINE r == [id |-> Len(broker[cur[p]]),
                     status |-> IF verdict[p] = "filled" THEN "filled" ELSE "submitted"]
    <3>1. r \in Rows
      BY <2>1 DEF Rows
    <3>2. row' = [row EXCEPT ![cur[p]] = Append(@, r)]
      BY <1>10 DEF PassInsert
    <3> QED BY <3>1, <3>2
  <2>3. row' \in [Order -> Seq(Rows)]
    BY <2>1, <2>2
  <2>4. PICK to \in {"fill", "task", "refuse"} : Goto(p, to)
    BY <1>10 DEF PassInsert
  <2> QED BY <1>10, <2>3, <2>4 DEF PassInsert
<1>11. CASE PassRefuse(p)
  <2>1. cur[p] \in Order
    BY <1>11 DEF PassRefuse, PassOK, OwnPlace
  <2>2. row' \in [Order -> Seq(Rows)]
    BY <1>11, <2>1, RowsKeepType DEF PassRefuse
  <2> QED BY <1>11, <2>2 DEF PassRefuse
<1>12. CASE PassTask(p)
  <2>1. cur[p] \in Order /\ verdict[p] \in Verdict
    BY <1>12 DEF PassTask, PassOK, OwnPlace, Verdict, TaskOf
  <2>2. task' \in [Order -> TaskStatus]
    <3>1. CASE UNCHANGED task
      BY <3>1
    <3>2. CASE task' = [task EXCEPT ![cur[p]] = TaskOf[verdict[p]]]
      BY <3>2, <2>1, TasksType
    <3> QED BY <1>12, <3>1, <3>2 DEF PassTask
  <2>3. retries' \in [Order -> 0 .. MaxRetries]
    <3>1. CASE UNCHANGED retries
      BY <3>1
    <3>2. CASE verdict[p] \in {"retry", "giveUp"} /\ retries' = [retries EXCEPT ![cur[p]] = @ + 1]
      <4>1. Owns(p, cur[p])
        BY <1>12, <2>1, <3>2 DEF PassTask, PassOK, OwnPlace, Owns
      <4>2. retries[cur[p]] < MaxRetries
        BY <2>1, <4>1 DEF RetryOK
      <4> QED BY <2>1, <3>2, <4>2, LimitAssumption
    <3> QED BY <1>12, <3>1, <3>2 DEF PassTask
  <2>4. cooling' \subseteq Order
    BY <1>12, <2>1 DEF PassTask
  <2> QED BY <1>12, <2>2, <2>3, <2>4 DEF PassTask
<1>13. CASE PassLife(p)
  <2>1. cur[p] \in Order /\ verdict[p] \in Verdict
    BY <1>13 DEF PassLife, PassOK, OwnPlace, Verdict, TaskOf
  <2>2. life' \in [Order -> LifeStatus]
    BY <1>13, <2>1, TasksType DEF PassLife
  <2> QED BY <1>13, <2>2 DEF PassLife
<1>14. ASSUME NEW o \in Order, PassExpire(p, o) PROVE TypeOK'
  BY <1>14 DEF PassExpire, Verdict, TaskOf
<1>15. ASSUME NEW o \in Order, PassPoll(p, o) PROVE TypeOK'
  BY <1>15 DEF PassPoll
<1>16. ASSUME NEW o \in Order, PassAcquire(p, o) PROVE TypeOK'
  BY <1>16 DEF PassAcquire, TaskStatus
<1> QED
  BY <1>1, <1>2, <1>3, <1>4, <1>5, <1>6, <1>7, <1>8, <1>9, <1>10, <1>11, <1>12, <1>13,
     <1>14, <1>15, <1>16 DEF PassStep

LEMMA BeginType == ASSUME TypeOK, NEW p \in Pass, PassBegin(p) PROVE TypeOK'
BY DEF TypeOK, PassBegin, PassStart, Goto, db, requests, control

LEMMA DueType == ASSUME TypeOK, NEW o \in Order, RetryDue(o) PROVE TypeOK'
BY DEF TypeOK, RetryDue, requests, pass, control

-----------------------------------------------------------------------------
(* Where a pass can be.                                                     *)

LEMMA PassMoves ==
  ASSUME TypeInv, NEW p \in Pass, PassStep(p) PROVE OwnPlace(p)'
<1> USE DEF TypeInv, TypeOK, PassOK, OwnPlace, Goto, Decide, Take
<1>1. CASE PassScan(p)
  BY <1>1 DEF PassScan
<1>2. CASE PassNextSweep(p)
  BY <1>2 DEF PassNextSweep
<1>3. CASE PassAsk(p)
  <2>1. /\ at[p] = "ask" /\ UNCHANGED <<phase, cur, tries>>
        /\ \/ Goto(p, "next") /\ UNCHANGED verdict
           \/ Decide(p, "filled", "fill") \/ Decide(p, "refused", "row")
           \/ Decide(p, "dropped", "row")
    BY <1>3 DEF PassAsk
  <2> QED BY <2>1
<1>4. CASE PassAskFails(p)
  BY <1>4 DEF PassAskFails
<1>5. CASE PassFill(p)
  BY <1>5 DEF PassFill
<1>6. CASE PassRow(p)
  BY <1>6 DEF PassRow
<1>7. CASE PassMark(p)
  BY <1>7 DEF PassMark
<1>8. CASE PassGate(p)
  <2>1. at[p] = "gate" /\ phase[p] = "due" /\ cur[p] \in Order
    BY <1>8 DEF PassGate
  <2>2. tries' = [tries EXCEPT ![p] = 0] /\ UNCHANGED <<phase, cur>>
    BY <1>8 DEF PassGate
  <2>3. CASE Goto(p, "submit") /\ UNCHANGED verdict
    BY <2>1, <2>2, <2>3, LimitAssumption
  <2>4. ASSUME NEW v \in {"paused", "filled", "blocked", "retry", "giveUp"},
               NEW to \in {"insert", "task"}, Decide(p, v, to)
        PROVE  OwnPlace(p)'
    BY <2>1, <2>2, <2>4
  <2> QED BY <1>8, <2>3, <2>4, FailureIs DEF PassGate
<1>9. CASE PassSubmit(p)
  <2>1. /\ at[p] = "submit" /\ phase[p] = "due" /\ cur[p] \in Order
        /\ tries[p] \in Nat /\ tries' = [tries EXCEPT ![p] = @ + 1]
        /\ UNCHANGED <<phase, cur>>
    <3>1. at[p] = "submit"
      BY <1>9 DEF PassSubmit
    <3>2. tries' = [tries EXCEPT ![p] = @ + 1] /\ UNCHANGED <<phase, cur>>
      BY <1>9, SubmitDoes
    <3>3. OwnPlace(p) /\ tries[p] \in 0 .. MaxAttempts
      OBVIOUS
    <3> QED BY <3>1, <3>2, <3>3, LimitAssumption
  <2>2. CASE UNCHANGED <<at, verdict>> /\ tries[p] + 1 < MaxAttempts
    BY <2>1, <2>2
  <2>3. ASSUME NEW v \in {"filled", "open", "retry", "giveUp"}, NEW to \in {"insert", "task"},
               Decide(p, v, to)
        PROVE  OwnPlace(p)'
    BY <2>1, <2>3
  <2> QED BY <1>9, <2>2, <2>3, SubmitDoes, FailureIs
<1>10. CASE PassInsert(p)
  BY <1>10 DEF PassInsert
<1>11. CASE PassRefuse(p)
  BY <1>11 DEF PassRefuse
<1>12. CASE PassTask(p)
  BY <1>12 DEF PassTask
<1>13. CASE PassLife(p)
  BY <1>13 DEF PassLife
<1>14. ASSUME NEW o \in Order, PassExpire(p, o) PROVE OwnPlace(p)'
  BY <1>14 DEF PassExpire
<1>15. ASSUME NEW o \in Order, PassPoll(p, o) PROVE OwnPlace(p)'
  BY <1>15 DEF PassPoll
<1>16. ASSUME NEW o \in Order, PassAcquire(p, o) PROVE OwnPlace(p)'
  BY <1>16 DEF PassAcquire
<1> QED
  BY <1>1, <1>2, <1>3, <1>4, <1>5, <1>6, <1>7, <1>8, <1>9, <1>10, <1>11, <1>12, <1>13,
     <1>14, <1>15, <1>16 DEF PassStep

(* A step of one pass leaves the others where they are.                     *)
LEMMA OthersStay ==
  ASSUME TypeInv, NEW p \in Pass, PassBegin(p) \/ PassStep(p), NEW q \in Pass, q # p
  PROVE  /\ phase'[q] = phase[q] /\ at'[q] = at[q] /\ todo'[q] = todo[q]
         /\ cur'[q] = cur[q] /\ verdict'[q] = verdict[q] /\ tries'[q] = tries[q]
<1> USE DEF TypeInv, TypeOK, Goto, Decide, Take
<1>0. CASE PassBegin(p)
  BY <1>0 DEF PassBegin, PassStart
<1>1. CASE PassScan(p)
  BY <1>1 DEF PassScan
<1>2. CASE PassNextSweep(p)
  BY <1>2 DEF PassNextSweep
<1>3. CASE PassAsk(p)
  BY <1>3 DEF PassAsk
<1>4. CASE PassAskFails(p) \/ PassFill(p) \/ PassRow(p) \/ PassMark(p)
  BY <1>4 DEF PassAskFails, PassFill, PassRow, PassMark
<1>8. CASE PassGate(p)
  BY <1>8 DEF PassGate
<1>9. CASE PassSubmit(p)
  <2>1. UNCHANGED <<phase, todo, cur>> /\ tries' = [tries EXCEPT ![p] = @ + 1]
    BY <1>9, SubmitDoes
  <2>2. UNCHANGED <<at, verdict>> \/ \E v, to : Decide(p, v, to)
    BY <1>9, SubmitDoes
  <2> QED BY <2>1, <2>2
<1>10. CASE PassInsert(p) \/ PassRefuse(p)
  BY <1>10 DEF PassInsert, PassRefuse
<1>12. CASE PassTask(p) \/ PassLife(p)
  BY <1>12 DEF PassTask, PassLife
<1>14. ASSUME NEW o \in Order, PassExpire(p, o) \/ PassPoll(p, o) \/ PassAcquire(p, o)
       PROVE  /\ phase'[q] = phase[q] /\ at'[q] = at[q] /\ todo'[q] = todo[q]
              /\ cur'[q] = cur[q] /\ verdict'[q] = verdict[q] /\ tries'[q] = tries[q]
  BY <1>14 DEF PassExpire, PassPoll, PassAcquire
<1> QED
  BY <1>0, <1>1, <1>2, <1>3, <1>4, <1>8, <1>9, <1>10, <1>12, <1>14 DEF PassStep

LEMMA PassPlaces ==
  ASSUME TypeInv, NEW p \in Pass, PassBegin(p) \/ PassStep(p) PROVE PassOK'
<1> SUFFICES ASSUME NEW q \in Pass PROVE OwnPlace(q)'
  BY DEF PassOK
<1>1. CASE q # p
  BY <1>1, OthersStay DEF TypeInv, PassOK, OwnPlace
<1>2. CASE q = p /\ PassStep(p)
  BY <1>2, PassMoves
<1>3. CASE q = p /\ PassBegin(p)
  BY <1>3 DEF TypeInv, TypeOK, PassOK, OwnPlace, PassBegin, PassStart, Goto
<1> QED BY <1>1, <1>2, <1>3

LEMMA AllPlaces == TypeInv /\ [Next]_vars => PassOK'
<1> SUFFICES ASSUME TypeInv, [Next]_vars PROVE PassOK'
  OBVIOUS
<1>1. ASSUME NEW p \in Pass, PassBegin(p) \/ PassStep(p) PROVE PassOK'
  BY <1>1, PassPlaces
<1>2. CASE UNCHANGED pass
  BY <1>2 DEF TypeInv, PassOK, OwnPlace, pass
<1>3. CASE Crash
  BY <1>3 DEF Crash, PassOK, OwnPlace
<1>4. CASE PauseStep
  BY <1>2, <1>4 DEF PauseStep
<1>5. ASSUME NEW o \in Order,
             \/ CreateStep(o) \/ RetryDue(o) \/ CancelStep(o)
             \/ \E a \in Act : ReviewStep(o, a)
             \/ \E i \in DOMAIN broker[o] : BrokerMove(o, i)
      PROVE  PassOK'
  BY <1>2, <1>5 DEF CreateStep, RetryDue, CancelStep, ReviewStep, BrokerMove
<1> QED BY <1>1, <1>2, <1>3, <1>4, <1>5 DEF Next, vars

LEMMA AllTypes == TypeInv /\ [Next]_vars => TypeOK'
<1> SUFFICES ASSUME TypeInv, [Next]_vars PROVE TypeOK'
  OBVIOUS
<1> USE DEF TypeInv
<1>1. ASSUME NEW p \in Pass, PassBegin(p) \/ PassStep(p) PROVE TypeOK'
  BY <1>1, BeginType, PassType
<1>2. CASE UNCHANGED vars
  BY <1>2 DEF TypeOK, vars, db, pass, control, requests
<1>3. ASSUME NEW o \in Order,
             \/ CreateStep(o) \/ RetryDue(o) \/ CancelStep(o)
             \/ \E a \in Act : ReviewStep(o, a)
             \/ \E i \in DOMAIN broker[o] : BrokerMove(o, i)
      PROVE  TypeOK'
  BY <1>3, CreateType, DueType, CancelType, ReviewType, BrokerType
<1> QED BY <1>1, <1>2, <1>3, PauseType, CrashType DEF Next

-----------------------------------------------------------------------------
(* Who works on a task.                                                     *)

(* Steps after which nobody new works on or polls for an order, and that    *)
(* change its task only as its owner and its pollers allow.                 *)
LeavesOwner(o) ==
  \/ /\ task'[o] = task[o]
     /\ cancel[o].at = "cancelled" => cancel'[o].at = "cancelled"
  \/ task'[o] = "cancelled" /\ cancel'[o].at = "cancelled"
  \/ task[o] \in {"none"} \cup Cancellable
  \/ /\ \A r \in Pass : ~Owns(r, o)'
     /\ task'[o] \in Final \/ \A r \in Pass : ~Polls(r, o)'

NobodyNew(o) ==
  \A r \in Pass : (Owns(r, o)' => Owns(r, o)) /\ (Polls(r, o)' => Polls(r, o))

LEMMA OwnKept ==
  ASSUME OwnOK, \A o \in Order : NobodyNew(o) /\ LeavesOwner(o) PROVE OwnOK'
<1> SUFFICES ASSUME NEW o \in Order, NEW p \in Pass
             PROVE  /\ Owns(p, o)' => /\ \A q \in Pass : Owns(q, o)' => p = q
                                     /\ \/ task'[o] = "dispatching"
                                        \/ task'[o] = "cancelled" /\ cancel'[o].at = "cancelled"
                    /\ Polls(p, o)' => /\ task'[o] \in Final \cup {"waiting_ack"}
                                      /\ \A q \in Pass : ~Owns(q, o)'
  BY DEF OwnOK
<1>1. NobodyNew(o) /\ LeavesOwner(o)
  OBVIOUS
<1>2. Owns(p, o) => /\ \A q \in Pass : Owns(q, o) => p = q
                    /\ \/ task[o] = "dispatching"
                       \/ task[o] = "cancelled" /\ cancel[o].at = "cancelled"
  BY DEF OwnOK
<1>3. Polls(p, o) => /\ task[o] \in Final \cup {"waiting_ack"}
                     /\ \A q \in Pass : ~Owns(q, o)
  BY DEF OwnOK
<1>4. ASSUME NEW q \in Pass PROVE Owns(q, o)' => Owns(q, o)
  BY <1>1 DEF NobodyNew
<1> QED BY <1>1, <1>2, <1>3, <1>4 DEF NobodyNew, LeavesOwner, Final, Cancellable

LEMMA SamePasses ==
  ASSUME UNCHANGED pass PROVE \A o \in Order : NobodyNew(o)
BY DEF pass, NobodyNew, Owns, Polls

LEMMA OthersNotNew ==
  ASSUME TypeInv, NEW p \in Pass, PassBegin(p) \/ PassStep(p), NEW o \in Order,
         (Owns(p, o)' => Owns(p, o)) /\ (Polls(p, o)' => Polls(p, o))
  PROVE  NobodyNew(o)
BY OthersStay DEF NobodyNew, Owns, Polls

LEMMA OutsideOwn ==
  ASSUME TypeInv, NEW o \in Order,
         \/ CreateStep(o) \/ RetryDue(o) \/ CancelStep(o)
         \/ \E a \in Act : ReviewStep(o, a)
         \/ \E i \in DOMAIN broker[o] : BrokerMove(o, i)
  PROVE  OwnOK'
<1> UNCHANGED pass
  BY DEF CreateStep, RetryDue, CancelStep, ReviewStep, BrokerMove
<1> USE DEF TypeInv, TypeOK, WriteTask
<1> SUFFICES ASSUME NEW u \in Order PROVE LeavesOwner(u)
  BY OwnKept, SamePasses
<1>1. CASE UNCHANGED <<task, cancel>>
  BY <1>1 DEF LeavesOwner
<1>2. CASE CreateTask(o) /\ UNCHANGED cancel
  <2>1. creator[o] # "done" /\ task[o] = "none"
    BY <1>2 DEF CreateTask, CreateOK
  <2> QED BY <1>2, <2>1 DEF CreateTask, LeavesOwner
<1>3. ASSUME NEW a \in Act, ReviewTask(o, a), UNCHANGED cancel PROVE LeavesOwner(u)
  BY <1>3 DEF ReviewTask, LeavesOwner, Cancellable
<1>4. CASE CancelTask(o)
  BY <1>4 DEF CancelTask, CancelTo, LeavesOwner
<1>5. CASE UNCHANGED task /\ cancel[o].at # "cancelled" /\ \E r : cancel' = [cancel EXCEPT ![o] = r]
  BY <1>5 DEF LeavesOwner
<1>6. CASE CancelRead(o) \/ CancelBroker(o) \/ CancelRow(o)
  BY <1>5, <1>6 DEF CancelRead, CancelBroker, CancelRow, CancelTo, db
<1> QED
  BY <1>1, <1>2, <1>3, <1>4, <1>6
     DEF CreateStep, CreateIntent, CreateRisk, CreateLife, CreateTicket, RetryDue, CancelStep,
         ReviewStep, ReviewRead, ReviewTicket, ReviewLife, BrokerMove, db, requests

LEMMA PauseOwn == ASSUME TypeInv, PauseStep PROVE OwnOK'
<1> UNCHANGED <<pass, cancel>>
  BY DEF PauseStep, requests
<1> SUFFICES ASSUME NEW u \in Order PROVE LeavesOwner(u)
  BY OwnKept, SamePasses DEF TypeInv
<1>1. CASE UNCHANGED task
  BY <1>1 DEF LeavesOwner
<1>2. ASSUME NEW o \in Order, PauseCancel(o) PROVE LeavesOwner(u)
  BY <1>2 DEF PauseCancel, WriteTask, LeavesOwner, TypeInv, TypeOK
<1> QED
  BY <1>1, <1>2 DEF PauseStep, Pause, Resume, PauseScan, PauseLife, PauseReturn, db

LEMMA CrashOwn == ASSUME Crash PROVE OwnOK'
BY DEF Crash, OwnOK, Owns, Polls

(* A pass that takes nothing new, and leaves tasks alone.                   *)
LEMMA QuietOwn ==
  ASSUME TypeInv, NEW p \in Pass, PassBegin(p) \/ PassStep(p), UNCHANGED <<task, cancel>>,
         \A o \in Order : (Owns(p, o)' => Owns(p, o)) /\ (Polls(p, o)' => Polls(p, o))
  PROVE  OwnOK'
<1>1. \A o \in Order : NobodyNew(o)
  BY OthersNotNew
<1>2. \A o \in Order : LeavesOwner(o)
  BY DEF LeavesOwner
<1> QED BY <1>1, <1>2, OwnKept DEF TypeInv

LEMMA ScanOwn ==
  ASSUME TypeInv, NEW p \in Pass, PassStep(p), PassScan(p) PROVE OwnOK'
<1> USE DEF TypeInv, TypeOK, PassOK, OwnPlace, PassScan, Goto
<1> UNCHANGED <<task, cancel, phase, cur, verdict>> /\ at'[p] = "next" /\ at[p] = "scan"
  BY DEF PassStep, requests, db
<1>1. CASE phase[p] # "poll"
  BY <1>1, QuietOwn DEF Owns, Polls
<1>2. CASE phase[p] = "poll"
  <2>1. ASSUME NEW o \in Order, Polls(p, o)' PROVE task[o] = "waiting_ack"
    BY <1>2, <2>1 DEF Polls
  <2>2. ASSUME NEW o \in Order PROVE ~Owns(p, o)' /\ ~Owns(p, o)
    BY <1>2 DEF Owns
  <2>3. ASSUME NEW o \in Order, NEW q \in Pass, q # p
        PROVE  (Owns(q, o)' <=> Owns(q, o)) /\ (Polls(q, o)' <=> Polls(q, o))
    BY <2>3, OthersStay DEF Owns, Polls
  <2>4. ASSUME NEW o \in Order, task[o] = "waiting_ack" PROVE \A q \in Pass : ~Owns(q, o)
    BY <2>4 DEF OwnOK
  <2>5. SUFFICES ASSUME NEW o \in Order, NEW r \in Pass
        PROVE  /\ Owns(r, o)' => /\ \A q \in Pass : Owns(q, o)' => r = q
                                /\ \/ task[o] = "dispatching"
                                   \/ task[o] = "cancelled" /\ cancel[o].at = "cancelled"
               /\ Polls(r, o)' => /\ task[o] \in Final \cup {"waiting_ack"}
                                 /\ \A q \in Pass : ~Owns(q, o)'
    BY DEF OwnOK
  <2>6. CASE r = p
    BY <2>1, <2>2, <2>3, <2>4, <2>6
  <2>7. CASE r # p
    BY <2>2, <2>3, <2>7 DEF OwnOK
  <2> QED BY <2>6, <2>7
<1> QED BY <1>1, <1>2

LEMMA AcquireOwn ==
  ASSUME TypeInv, NEW p \in Pass, PassStep(p), NEW u \in Order, PassAcquire(p, u) PROVE OwnOK'
<1> USE DEF TypeInv, TypeOK, PassOK, OwnPlace, PassAcquire, Goto, Take, WriteTask
<1> UNCHANGED <<cancel, phase, verdict>> /\ phase[p] = "due" /\ at[p] = "next"
  BY DEF PassStep, requests
<1>1. CASE task[u] # "pending"
  BY <1>1, QuietOwn DEF Owns, Polls
<1>2. CASE task[u] = "pending"
  <2>1. task' = [task EXCEPT ![u] = "dispatching"] /\ cur'[p] = u
    BY <1>2
  <2>2. ASSUME NEW o \in Order PROVE ~Polls(p, o)' /\ (Owns(p, o)' => o = u) /\ ~Owns(p, o)
    BY <2>1 DEF Owns, Polls
  <2>3. ASSUME NEW o \in Order, NEW q \in Pass, q # p
        PROVE  (Owns(q, o)' <=> Owns(q, o)) /\ (Polls(q, o)' <=> Polls(q, o))
    BY <2>3, OthersStay DEF Owns, Polls
  <2>4. \A q \in Pass : ~Owns(q, u) /\ ~Polls(q, u)
    BY <1>2 DEF OwnOK, Final
  <2>5. SUFFICES ASSUME NEW o \in Order, NEW r \in Pass
        PROVE  /\ Owns(r, o)' => /\ \A q \in Pass : Owns(q, o)' => r = q
                                /\ \/ task'[o] = "dispatching"
                                   \/ task'[o] = "cancelled" /\ cancel[o].at = "cancelled"
               /\ Polls(r, o)' => /\ task'[o] \in Final \cup {"waiting_ack"}
                                 /\ \A q \in Pass : ~Owns(q, o)'
    BY DEF OwnOK
  <2>6. CASE r = p \/ o = u
    BY <2>1, <2>2, <2>3, <2>4, <2>6
  <2>7. CASE r # p /\ o # u
    <3>1. task'[o] = task[o]
      BY <2>1, <2>7
    <3> QED BY <2>2, <2>3, <2>7, <3>1 DEF OwnOK
  <2> QED BY <2>6, <2>7
<1> QED BY <1>1, <1>2

LEMMA TaskOwn ==
  ASSUME TypeInv, NEW p \in Pass, PassStep(p), PassTask(p) PROVE OwnOK'
<1> USE DEF TypeInv, TypeOK, PassOK, OwnPlace, PassTask, Goto, WriteTask
<1> DEFINE u == cur[p]
<1>1. /\ UNCHANGED <<cancel, phase, cur, todo, verdict>> /\ u \in Order
      /\ at[p] = "task" /\ at'[p] = "life"
  BY DEF PassStep, requests
<1>2. \A o \in Order : NobodyNew(o)
  BY <1>1, OthersNotNew DEF Owns, Polls
<1>3. SUFFICES ASSUME NEW o \in Order PROVE LeavesOwner(o)
  BY <1>2, OwnKept
<1>4. CASE o # u
  BY <1>1, <1>4 DEF LeavesOwner
<1>5. CASE o = u /\ phase[p] = "due"
  <2>1. Owns(p, u)
    BY <1>1, <1>5 DEF Owns
  <2>2. \A q \in Pass : (Owns(q, u) => q = p) /\ ~Polls(q, u)
    BY <1>1, <2>1 DEF OwnOK
  <2>3. ~Owns(p, u)'
    BY <1>1 DEF Owns
  <2> QED BY <1>1, <1>2, <1>5, <2>2, <2>3 DEF NobodyNew, LeavesOwner
<1>6. CASE o = u /\ phase[p] = "poll"
  <2>1. Polls(p, u)
    BY <1>1, <1>6 DEF Polls
  <2>2. \A q \in Pass : ~Owns(q, u)
    BY <1>1, <2>1 DEF OwnOK
  <2>3. task'[u] \in Final
    BY <1>1, <1>6 DEF TaskOf, Final
  <2> QED BY <1>1, <1>2, <1>6, <2>2, <2>3 DEF NobodyNew, LeavesOwner
<1>7. CASE o = u /\ phase[p] = "expire"
  BY <1>1, <1>7 DEF LeavesOwner, Cancellable
<1> QED BY <1>1, <1>4, <1>5, <1>6, <1>7

LEMMA PassOwn ==
  ASSUME TypeInv, NEW p \in Pass, PassBegin(p) \/ PassStep(p) PROVE OwnOK'
<1> USE DEF TypeInv, TypeOK, PassOK, OwnPlace, Goto, Decide, Take, db, requests
<1> DEFINE Less == /\ UNCHANGED <<task, cancel>>
                   /\ \A o \in Order : /\ Owns(p, o)' => Owns(p, o)
                                       /\ Polls(p, o)' => Polls(p, o)
<1>0. CASE PassBegin(p)
  BY <1>0, QuietOwn DEF PassBegin, PassStart, Owns, Polls
<1> SUFFICES ASSUME PassStep(p) PROVE OwnOK'
  BY <1>0
<1> UNCHANGED cancel
  BY DEF PassStep
<1>a. SUFFICES ASSUME ~PassScan(p), ~PassTask(p), ~\E o \in Order : PassAcquire(p, o)
               PROVE  Less
  BY QuietOwn, ScanOwn, TaskOwn, AcquireOwn
<1>2. CASE PassNextSweep(p)
  BY <1>2 DEF PassNextSweep, Owns, Polls
<1>3. CASE PassAsk(p)
  BY <1>3 DEF PassAsk, Owns, Polls
<1>4. CASE PassAskFails(p) \/ PassFill(p) \/ PassRow(p)
  BY <1>4 DEF PassAskFails, PassFill, PassRow, Owns, Polls
<1>7. CASE PassMark(p)
  BY <1>7 DEF PassMark, Owns, Polls
<1>8. CASE PassGate(p)
  BY <1>8 DEF PassGate, Owns, Polls
<1>9. CASE PassSubmit(p)
  <2>1. phase[p] = "due" /\ at[p] = "submit" /\ UNCHANGED <<phase, todo, cur, task>>
    BY <1>9, SubmitDoes DEF PassSubmit
  <2> QED BY <2>1 DEF Owns, Polls
<1>10. CASE PassInsert(p) \/ PassRefuse(p)
  BY <1>10 DEF PassInsert, PassRefuse, Owns, Polls
<1>13. CASE PassLife(p)
  BY <1>13 DEF PassLife, Owns, Polls
<1>14. ASSUME NEW o \in Order, PassExpire(p, o) PROVE Less
  BY <1>14 DEF PassExpire, Owns, Polls
<1>15. ASSUME NEW o \in Order, PassPoll(p, o) PROVE Less
  BY <1>15 DEF PassPoll, Owns, Polls
<1> QED
  BY <1>a, <1>2, <1>3, <1>4, <1>7, <1>8, <1>9, <1>10, <1>13, <1>14, <1>15 DEF PassStep

LEMMA AllOwn == TypeInv /\ [Next]_vars => OwnOK'
<1> SUFFICES ASSUME TypeInv, [Next]_vars PROVE OwnOK'
  OBVIOUS
<1>1. ASSUME NEW p \in Pass, PassBegin(p) \/ PassStep(p) PROVE OwnOK'
  BY <1>1, PassOwn
<1>2. CASE UNCHANGED vars
  BY <1>2 DEF TypeInv, OwnOK, Owns, Polls, vars, db, pass, requests
<1>3. ASSUME NEW o \in Order,
             \/ CreateStep(o) \/ RetryDue(o) \/ CancelStep(o)
             \/ \E a \in Act : ReviewStep(o, a)
             \/ \E i \in DOMAIN broker[o] : BrokerMove(o, i)
      PROVE  OwnOK'
  BY <1>3, OutsideOwn
<1> QED BY <1>1, <1>2, <1>3, PauseOwn, CrashOwn DEF Next

-----------------------------------------------------------------------------
(* Retries.                                                                 *)

Ready == {"none", "awaiting_review", "pending", "dispatching"}

Retrying(p) == at[p] \in {"insert", "refuse", "task"} /\ verdict[p] = "retry"

LEMMA RetryKept ==
  ASSUME RetryOK, UNCHANGED retries,
         \A o \in Order : task'[o] \in Ready => task[o] \in Ready,
         \A o \in Order : \A p \in Pass :
           Owns(p, o)' => /\ Owns(p, o)
                          /\ Retrying(p)' => Retrying(p) \/ retries[o] + 1 < MaxRetries
  PROVE  RetryOK'
BY DEF RetryOK, Ready, Retrying

LEMMA OutsideRetry ==
  ASSUME TypeInv, NEW o \in Order,
         \/ CreateStep(o) \/ RetryDue(o) \/ CancelStep(o)
         \/ \E a \in Act : ReviewStep(o, a)
         \/ \E i \in DOMAIN broker[o] : BrokerMove(o, i)
  PROVE  RetryOK'
<1> UNCHANGED pass
  BY DEF CreateStep, RetryDue, CancelStep, ReviewStep, BrokerMove
<1> USE DEF TypeInv, TypeOK, WriteTask
<1>1. UNCHANGED retries
  BY DEF CreateStep, CreateIntent, CreateRisk, CreateLife, CreateTicket, CreateTask, RetryDue,
         CancelStep, CancelRead, CancelTask, CancelBroker, CancelRow,
         ReviewStep, ReviewRead, ReviewTicket, ReviewTask, ReviewLife, BrokerMove, db
<1>2. SUFFICES \A u \in Order : task'[u] \in Ready => task[u] \in Ready
  BY <1>1, RetryKept DEF pass, Owns, Retrying
<1>3. CASE CreateTask(o)
  <2>1. creator[o] # "done" /\ task[o] = "none"
    BY <1>3 DEF CreateTask, CreateOK
  <2> QED BY <1>3, <2>1 DEF CreateTask, Ready
<1>4. ASSUME NEW a \in Act, ReviewTask(o, a)
      PROVE  \A u \in Order : task'[u] \in Ready => task[u] \in Ready
  BY <1>4 DEF ReviewTask, Ready
<1>5. CASE CancelTask(o)
  BY <1>5 DEF CancelTask, Ready
<1> QED
  BY <1>3, <1>4, <1>5
     DEF CreateStep, CreateIntent, CreateRisk, CreateLife, CreateTicket, RetryDue, CancelStep,
         CancelRead, CancelBroker, CancelRow,
         ReviewStep, ReviewRead, ReviewTicket, ReviewLife, BrokerMove, db, requests

LEMMA PauseRetry == ASSUME TypeInv, PauseStep PROVE RetryOK'
<1> UNCHANGED <<pass, retries>>
  BY DEF PauseStep, Pause, Resume, PauseScan, PauseCancel, PauseLife, PauseReturn, db
<1> SUFFICES \A u \in Order : task'[u] \in Ready => task[u] \in Ready
  BY RetryKept DEF TypeInv, pass, Owns, Retrying
<1>2. ASSUME NEW o \in Order, PauseCancel(o)
      PROVE  \A u \in Order : task'[u] \in Ready => task[u] \in Ready
  BY <1>2 DEF PauseCancel, WriteTask, TypeInv, TypeOK, Ready
<1> QED
  BY <1>2 DEF PauseStep, Pause, Resume, PauseScan, PauseLife, PauseReturn, db

LEMMA CrashRetry == ASSUME TypeInv, Crash PROVE RetryOK'
<1> UNCHANGED <<task, retries>> /\ \A p \in Pass : at'[p] = "start"
  BY DEF Crash, db
<1> QED BY DEF TypeInv, RetryOK, Owns

LEMMA RetryBound ==
  ASSUME TypeInv, NEW p \in Pass, NEW o \in Order, Owns(p, o), Failure(o) = "retry"
  PROVE  retries[o] + 1 < MaxRetries
BY DEF Failure

LEMMA PassRetry ==
  ASSUME TypeInv, NEW p \in Pass, PassBegin(p) \/ PassStep(p) PROVE RetryOK'
<1> USE DEF TypeInv, TypeOK, PassOK, OwnPlace, Goto, Decide, Take, db
<1> DEFINE Less == /\ UNCHANGED <<task, retries>>
                   /\ \A o \in Order :
                        Owns(p, o)' => /\ Owns(p, o)
                                       /\ Retrying(p)' => Retrying(p) \/ retries[o] + 1 < MaxRetries
<1>a. ASSUME NEW o \in Order, NEW q \in Pass, q # p, Owns(q, o)'
      PROVE  Owns(q, o) /\ (Retrying(q)' => Retrying(q))
  BY <1>a, OthersStay DEF Owns, Retrying
<1>b. SUFFICES ASSUME ~Less PROVE RetryOK'
  BY <1>a, RetryKept
<1>0. CASE PassBegin(p)
  BY <1>0, <1>b DEF PassBegin, PassStart, Owns
<1>1. CASE PassScan(p)
  BY <1>1, <1>b DEF PassScan, Owns
<1>2. CASE PassNextSweep(p)
  BY <1>2, <1>b DEF PassNextSweep, Owns
<1>3. CASE PassAsk(p)
  BY <1>3, <1>b DEF PassAsk, Owns
<1>4. CASE PassAskFails(p) \/ PassFill(p) \/ PassRow(p) \/ PassMark(p)
  BY <1>4, <1>b DEF PassAskFails, PassFill, PassRow, PassMark, Owns, Retrying
<1>8. CASE PassGate(p)
  <2>1. Owns(p, cur[p]) /\ cur[p] \in Order /\ UNCHANGED <<phase, cur, db>>
    BY <1>8 DEF PassGate, Owns
  <2>2. \/ at'[p] = "submit"
        \/ verdict'[p] \in {"paused", "filled", "blocked", Failure(cur[p])}
    BY <1>8 DEF PassGate
  <2> QED BY <1>b, <2>1, <2>2, RetryBound DEF Owns, Retrying
<1>9. CASE PassSubmit(p)
  <2>1. Owns(p, cur[p]) /\ cur[p] \in Order /\ at[p] = "submit"
    BY <1>9 DEF PassSubmit, Owns
  <2>2. UNCHANGED <<phase, cur, db>>
    BY <1>9, SubmitDoes
  <2>3. \/ UNCHANGED <<at, verdict>>
        \/ verdict'[p] \in {"filled", "open", Failure(cur[p])}
    BY <1>9, SubmitDoes
  <2> QED BY <1>b, <2>1, <2>2, <2>3, RetryBound DEF Owns, Retrying
<1>10. CASE PassInsert(p) \/ PassRefuse(p)
  BY <1>10, <1>b DEF PassInsert, PassRefuse, Owns, Retrying
<1>12. CASE PassTask(p)
  <2>0. PICK u \in Order : cur[p] = u
    BY <1>12 DEF PassTask
  <2>1. /\ UNCHANGED <<phase, cur, todo, verdict>> /\ verdict[p] \in Verdict
        /\ cur[p] = u /\ at[p] = "task" /\ at'[p] = "life"
    BY <1>12, <2>0 DEF PassTask, Verdict, TaskOf
  <2>2. /\ \A o \in Order \ {u} : task'[o] = task[o] /\ retries'[o] = retries[o]
        /\ \A o \in Order : ~Owns(p, o)'
    BY <1>12, <2>1 DEF PassTask, WriteTask, Owns
  <2>3. CASE phase[p] = "due"
    <3>1. Owns(p, u)
      BY <2>1, <2>3 DEF Owns
    <3>2. \A q \in Pass : ~Owns(q, u)'
      <4>1. \A q \in Pass : Owns(q, u) => p = q
        BY <2>1, <3>1 DEF OwnOK
      <4>2. ASSUME NEW q \in Pass, q # p PROVE ~Owns(q, u)'
        BY <1>a, <4>1, <4>2
      <4>3. ~Owns(p, u)'
        BY <2>2
      <4> QED BY <4>2, <4>3
    <3>3. task'[u] \in Ready => verdict[p] = "retry"
      <4>1. verdict[p] \in {"filled", "open", "paused", "blocked", "retry", "giveUp"}
        BY <2>1, <2>3
      <4>2. task'[u] = TaskOf[verdict[p]]
        BY <1>12, <2>1, <4>1 DEF PassTask, WriteTask
      <4> QED BY <4>1, <4>2 DEF TaskOf, Ready
    <3>4. verdict[p] = "retry" => retries'[u] < MaxRetries
      BY <1>12, <2>1, <3>1 DEF PassTask, RetryOK
    <3>5. SUFFICES ASSUME NEW o \in Order
          PROVE  /\ task'[o] \in Ready => retries'[o] < MaxRetries
                 /\ \A q \in Pass : Owns(q, o)' =>
                      /\ retries'[o] < MaxRetries
                      /\ Retrying(q)' => retries'[o] + 1 < MaxRetries
      BY DEF RetryOK, Ready, Retrying
    <3>6. CASE o = u
      BY <3>2, <3>3, <3>4, <3>6
    <3>7. CASE o # u
      <4>1. task'[o] = task[o] /\ retries'[o] = retries[o]
        BY <2>2, <3>7
      <4>2. ASSUME NEW q \in Pass, Owns(q, o)' PROVE Owns(q, o) /\ (Retrying(q)' => Retrying(q))
        BY <1>a, <2>2, <4>2
      <4>3. task[o] \in Ready => retries[o] < MaxRetries
        BY DEF RetryOK, Ready
      <4>4. ASSUME NEW q \in Pass, Owns(q, o)
            PROVE  retries[o] < MaxRetries /\ (Retrying(q) => retries[o] + 1 < MaxRetries)
        BY <4>4 DEF RetryOK, Retrying
      <4> QED BY <4>1, <4>2, <4>3, <4>4
    <3> QED BY <3>6, <3>7
  <2>4. CASE phase[p] # "due"
    <3>1. UNCHANGED retries /\ (task'[u] \in Ready => task[u] \in Ready)
      <4>1. verdict[p] \in {"filled", "refused", "dropped", "expired"}
        <5>1. phase[p] \in {"expire", "poll"}
          BY <2>1, <2>4
        <5>2. OwnPlace(p)
          OBVIOUS
        <5> QED BY <2>1, <5>1, <5>2
      <4>2. UNCHANGED retries /\ (task'[u] = task[u] \/ task'[u] = TaskOf[verdict[p]])
        <5>1. task' \in {task, [task EXCEPT ![u] = TaskOf[verdict[p]]]}
          BY <1>12, <2>1 DEF PassTask, WriteTask
        <5>2. UNCHANGED retries
          BY <1>12, <4>1 DEF PassTask
        <5> QED BY <2>1, <5>1, <5>2
      <4> QED BY <4>1, <4>2 DEF TaskOf, Ready
    <3>2. \A o \in Order : task'[o] \in Ready => task[o] \in Ready
      BY <2>2, <3>1
    <3>3. \A o \in Order : \A q \in Pass :
            Owns(q, o)' => /\ Owns(q, o)
                           /\ Retrying(q)' => Retrying(q) \/ retries[o] + 1 < MaxRetries
      BY <1>a, <2>2
    <3> QED BY <3>1, <3>2, <3>3, RetryKept
  <2> QED BY <2>3, <2>4
<1>13. CASE PassLife(p)
  BY <1>13, <1>b DEF PassLife, Owns
<1>14. ASSUME NEW o \in Order, PassExpire(p, o) PROVE RetryOK'
  BY <1>14, <1>b DEF PassExpire, Owns
<1>15. ASSUME NEW o \in Order, PassPoll(p, o) PROVE RetryOK'
  BY <1>15, <1>b DEF PassPoll, Owns
<1>16. ASSUME NEW u \in Order, PassAcquire(p, u) PROVE RetryOK'
  <2>1. CASE task[u] # "pending"
    BY <1>16, <1>b, <2>1 DEF PassAcquire, Owns
  <2>2. CASE task[u] = "pending"
    <3>1. /\ task' = [task EXCEPT ![u] = "dispatching"] /\ UNCHANGED retries
          /\ at'[p] = "mark" /\ cur'[p] = u
      BY <1>16, <2>2 DEF PassAcquire, WriteTask
    <3>2. retries[u] < MaxRetries
      BY <2>2 DEF RetryOK
    <3>3. \A o \in Order : Owns(p, o)' => o = u
      BY <3>1 DEF Owns
    <3> QED BY <1>a, <2>2, <3>1, <3>2, <3>3 DEF RetryOK, Retrying
  <2> QED BY <2>1, <2>2
<1> QED
  BY <1>0, <1>1, <1>2, <1>3, <1>4, <1>8, <1>9, <1>10, <1>12, <1>13, <1>14, <1>15, <1>16
     DEF PassStep

LEMMA AllRetry == TypeInv /\ [Next]_vars => RetryOK'
<1> SUFFICES ASSUME TypeInv, [Next]_vars PROVE RetryOK'
  OBVIOUS
<1>1. ASSUME NEW p \in Pass, PassBegin(p) \/ PassStep(p) PROVE RetryOK'
  BY <1>1, PassRetry
<1>2. CASE UNCHANGED vars
  BY <1>2 DEF TypeInv, RetryOK, Owns, vars, db, pass
<1>3. ASSUME NEW o \in Order,
             \/ CreateStep(o) \/ RetryDue(o) \/ CancelStep(o)
             \/ \E a \in Act : ReviewStep(o, a)
             \/ \E i \in DOMAIN broker[o] : BrokerMove(o, i)
      PROVE  RetryOK'
  BY <1>3, OutsideRetry
<1> QED BY <1>1, <1>2, <1>3, PauseRetry, CrashRetry DEF Next

-----------------------------------------------------------------------------
(* What does not exist yet.                                                 *)

Expires(p, o) == phase[p] = "expire" /\ at[p] # "scan" /\ o \in todo[p]

(* A step that makes neither a task nor a ticket, and touches no task that  *)
(* does not exist.                                                          *)
MakesNothing ==
  \A o \in Order :
    /\ task'[o] = "none" <=> task[o] = "none"
    /\ ticket'[o] = "none" <=> ticket[o] = "none"
    /\ task[o] = "none" => /\ row'[o] = row[o] /\ broker'[o] = broker[o]
                           /\ cancel'[o] = cancel[o] /\ retries'[o] = retries[o]

LEMMA CreateKept ==
  ASSUME CreateOK, MakesNothing,
         \A o \in Order : creator'[o] \in {"done", creator[o]},
         \A o \in Order : \A a \in Act :
            review'[o][a] # "idle" => review[o][a] # "idle" \/ ticket[o] # "none",
         \A o \in Order : \A p \in Pass :
            Expires(p, o)' => Expires(p, o) \/ ticket[o] # "none"
  PROVE  CreateOK'
BY DEF CreateOK, MakesNothing, Expires

LEMMA CreateCreate ==
  ASSUME TypeInv, NEW o \in Order, CreateStep(o) PROVE CreateOK'
<1> USE DEF TypeInv, TypeOK, CreateOK, WriteTask, WriteLife, pass
<1> UNCHANGED <<broker, review, cancel, pass>>
  BY DEF CreateStep
<1>1. CASE CreateIntent(o)
  BY <1>1 DEF CreateIntent
<1>2. CASE CreateRisk(o)
  BY <1>2 DEF CreateRisk, db
<1>3. CASE CreateLife(o)
  BY <1>3 DEF CreateLife
<1>4. CASE CreateTicket(o)
  BY <1>4 DEF CreateTicket
<1>5. CASE CreateTask(o)
  BY <1>5 DEF CreateTask
<1> QED BY <1>1, <1>2, <1>3, <1>4, <1>5 DEF CreateStep

LEMMA OutsideCreate ==
  ASSUME TypeInv, NEW o \in Order,
         \/ RetryDue(o) \/ CancelStep(o)
         \/ \E a \in Act : ReviewStep(o, a)
         \/ \E i \in DOMAIN broker[o] : BrokerMove(o, i)
  PROVE  CreateOK'
<1> USE DEF TypeInv, TypeOK, WriteTask, MakesNothing, pass, db, requests
<1> UNCHANGED <<creator, pass>>
  BY DEF RetryDue, CancelStep, ReviewStep, BrokerMove
<1>0. \A u \in Order : \A p \in Pass : Expires(p, u)' => Expires(p, u)
  BY DEF Expires
<1>1. CASE RetryDue(o)
  BY <1>0, <1>1, CreateKept DEF RetryDue
<1>2. CASE CancelStep(o)
  <2>1. task[o] # "none"
    BY <1>2 DEF CancelStep, CancelRead, CancelTask, CancelBroker, CancelRow, CreateOK
  <2>2. /\ UNCHANGED <<ticket, retries, review>>
        /\ task' \in {task, [task EXCEPT ![o] = "cancelled"]}
    BY <1>2 DEF CancelStep, CancelRead, CancelTask, CancelBroker, CancelRow
  <2>3. \A u \in Order \ {o} : cancel'[u] = cancel[u] /\ broker'[u] = broker[u] /\ row'[u] = row[u]
    BY <1>2 DEF CancelStep, CancelRead, CancelTask, CancelBroker, CancelRow, CancelTo
  <2>4. MakesNothing
    BY <2>1, <2>2, <2>3
  <2> QED BY <1>0, <2>2, <2>4, CreateKept
<1>3. ASSUME NEW a \in Act, ReviewStep(o, a) PROVE CreateOK'
  <2>1. ticket[o] # "none"
    BY <1>3 DEF ReviewStep, ReviewRead, ReviewTicket, ReviewTask, ReviewLife, CreateOK
  <2>2. /\ UNCHANGED <<row, retries, cancel, broker>>
        /\ \/ UNCHANGED task
           \/ task[o] = "awaiting_review" /\ \E s \in {"pending", "rejected"} :
                                                task' = [task EXCEPT ![o] = s]
        /\ \/ UNCHANGED ticket
           \/ \E s \in {"approved", "rejected"} : ticket' = [ticket EXCEPT ![o] = s]
    BY <1>3 DEF ReviewStep, ReviewRead, ReviewTicket, ReviewTask, ReviewLife
  <2>3. MakesNothing
    BY <2>1, <2>2
  <2>4. \A u \in Order \ {o} : review'[u] = review[u]
    BY <1>3 DEF ReviewStep, ReviewRead, ReviewTicket, ReviewTask, ReviewLife, Progress
  <2> QED BY <1>0, <2>1, <2>3, <2>4, CreateKept
<1>4. ASSUME NEW i \in DOMAIN broker[o], BrokerMove(o, i) PROVE CreateOK'
  <2>1. task[o] # "none"
    BY <1>4 DEF CreateOK
  <2>2. MakesNothing
    BY <1>4, <2>1 DEF BrokerMove
  <2> QED BY <1>0, <1>4, <2>2, CreateKept DEF BrokerMove
<1> QED BY <1>1, <1>2, <1>3, <1>4

LEMMA PauseCreate == ASSUME TypeInv, PauseStep PROVE CreateOK'
<1> UNCHANGED <<pass, broker, requests, ticket, row, retries>>
  BY DEF PauseStep, Pause, Resume, PauseScan, PauseCancel, PauseLife, PauseReturn, db
<1>1. ASSUME NEW o \in Order, PauseCancel(o) PROVE MakesNothing
  BY <1>1 DEF PauseCancel, WriteTask, MakesNothing, TypeInv, TypeOK, requests, Cancellable
<1>2. MakesNothing
  BY <1>1 DEF PauseStep, Pause, Resume, PauseScan, PauseLife, PauseReturn, db, requests,
              MakesNothing
<1> QED BY <1>2, CreateKept DEF TypeInv, requests, pass, Expires

LEMMA CrashCreate == ASSUME TypeInv, Crash PROVE CreateOK'
<1>1. MakesNothing
  BY DEF Crash, MakesNothing, db, TypeInv, TypeOK, CreateOK
<1>2. \A o \in Order : /\ creator'[o] \in {"done", creator[o]}
                       /\ \A a \in Act : review'[o][a] # "idle" => review[o][a] # "idle"
  BY DEF Crash, TypeInv, TypeOK
<1>3. \A o \in Order : \A p \in Pass : ~Expires(p, o)'
  BY DEF Crash, Expires
<1> QED BY <1>1, <1>2, <1>3, CreateKept DEF TypeInv

(* The order that a pass works on, polls for or expires has a task, and in  *)
(* the last case a ticket.                                                  *)
LEMMA PassNeedsTask ==
  ASSUME TypeInv, NEW p \in Pass, NEW o \in Order, Owns(p, o) \/ Polls(p, o)
  PROVE  task[o] # "none"
BY DEF TypeInv, OwnOK, Final

LEMMA PassCreate ==
  ASSUME TypeInv, NEW p \in Pass, PassBegin(p) \/ PassStep(p) PROVE CreateOK'
<1> USE DEF TypeInv, TypeOK, PassOK, OwnPlace, Goto, Decide, Take, WriteTask, db
<1> UNCHANGED <<creator, review, cancel>>
  BY DEF PassBegin, PassStep, requests
<1> DEFINE Fine == /\ MakesNothing
                   /\ \A o \in Order : Expires(p, o)' => Expires(p, o) \/ ticket[o] # "none"
<1>a. ASSUME NEW o \in Order, NEW q \in Pass, q # p, Expires(q, o)' PROVE Expires(q, o)
  BY <1>a, OthersStay DEF Expires
<1>b. SUFFICES Fine
  BY <1>a, CreateKept
<1>c. ASSUME UNCHANGED <<task, ticket, row, broker, retries>> PROVE MakesNothing
  BY <1>c DEF MakesNothing
<1>0. CASE PassBegin(p)
  BY <1>0, <1>c DEF PassBegin, PassStart, Expires
<1>1. CASE PassScan(p)
  BY <1>1, <1>c DEF PassScan, Expires
<1>2. CASE PassNextSweep(p)
  BY <1>2, <1>c DEF PassNextSweep, Expires
<1>3. CASE PassAsk(p)
  BY <1>3, <1>c DEF PassAsk, Expires
<1>4. CASE PassAskFails(p) \/ PassFill(p) \/ PassMark(p)
  BY <1>4, <1>c DEF PassAskFails, PassFill, PassMark, Expires
<1>6. CASE PassRow(p)
  <2>1. cur[p] \in Order /\ Polls(p, cur[p])
    BY <1>6 DEF PassRow, Polls
  <2>2. task[cur[p]] # "none"
    BY <2>1, PassNeedsTask
  <2> QED BY <1>6, <2>1, <2>2 DEF PassRow, MakesNothing, Expires
<1>8. CASE PassGate(p)
  BY <1>8, <1>c DEF PassGate, Expires
<1>9. CASE PassSubmit(p)
  <2>1. cur[p] \in Order /\ Owns(p, cur[p])
    BY <1>9 DEF PassSubmit, Owns
  <2>2. task[cur[p]] # "none"
    BY <2>1, PassNeedsTask
  <2>3. UNCHANGED <<phase, todo, db>> /\ phase[p] = "due"
    BY <1>9, SubmitDoes DEF PassSubmit
  <2>4. \A o \in Order : o # cur[p] => broker'[o] = broker[o]
    BY <1>9, <2>1, SubmitDoes DEF Accept
  <2> QED BY <2>2, <2>3, <2>4 DEF MakesNothing, Expires
<1>10. CASE PassInsert(p) \/ PassRefuse(p)
  <2>1. cur[p] \in Order /\ Owns(p, cur[p])
    BY <1>10 DEF PassInsert, PassRefuse, Owns
  <2>2. task[cur[p]] # "none"
    BY <2>1, PassNeedsTask
  <2> QED BY <1>10, <2>1, <2>2 DEF PassInsert, PassRefuse, MakesNothing, Expires
<1>12. CASE PassTask(p)
  <2>1. /\ cur[p] \in Order /\ verdict[p] \in Verdict /\ at[p] = "task" /\ at'[p] = "life"
        /\ UNCHANGED <<phase, todo, ticket, row, broker>>
    BY <1>12 DEF PassTask, Verdict, TaskOf
  <2>2. CASE phase[p] = "expire"
    <3>1. verdict[p] = "expired" /\ UNCHANGED retries
      BY <1>12, <2>1, <2>2 DEF PassTask
    <3>2. UNCHANGED task \/ (task[cur[p]] = "awaiting_review"
                              /\ task' = [task EXCEPT ![cur[p]] = "rejected"])
      BY <1>12, <3>1 DEF PassTask, TaskOf
    <3> QED BY <2>1, <3>1, <3>2 DEF MakesNothing, Expires
  <2>3. CASE phase[p] # "expire"
    <3>1. task[cur[p]] # "none"
      <4>1. Owns(p, cur[p]) \/ Polls(p, cur[p])
        BY <2>1, <2>3 DEF Owns, Polls
      <4> QED BY <2>1, <4>1, PassNeedsTask
    <3>2. task' \in {task, [task EXCEPT ![cur[p]] = TaskOf[verdict[p]]]}
      BY <1>12 DEF PassTask
    <3>3. TaskOf[verdict[p]] # "none"
      BY <2>1 DEF Verdict, TaskOf
    <3>4. \A o \in Order : o # cur[p] => retries'[o] = retries[o]
      BY <1>12, <2>1 DEF PassTask
    <3> QED BY <2>1, <2>3, <3>1, <3>2, <3>3, <3>4 DEF MakesNothing, Expires
  <2> QED BY <2>2, <2>3
<1>13. CASE PassLife(p)
  BY <1>13, <1>c DEF PassLife, Expires
<1>14. ASSUME NEW o \in Order, PassExpire(p, o) PROVE Fine
  <2>1. ticket[o] # "none"
    BY <1>14 DEF PassExpire, CreateOK
  <2> QED BY <1>14, <2>1 DEF PassExpire, MakesNothing, Expires
<1>15. ASSUME NEW o \in Order, PassPoll(p, o) PROVE Fine
  BY <1>15, <1>c DEF PassPoll, Expires
<1>16. ASSUME NEW o \in Order, PassAcquire(p, o) PROVE Fine
  BY <1>16 DEF PassAcquire, MakesNothing, Expires
<1> QED
  BY <1>0, <1>1, <1>2, <1>3, <1>4, <1>6, <1>8, <1>9, <1>10, <1>12, <1>13, <1>14, <1>15, <1>16
     DEF PassStep

LEMMA AllCreate == TypeInv /\ [Next]_vars => CreateOK'
<1> SUFFICES ASSUME TypeInv, [Next]_vars PROVE CreateOK'
  OBVIOUS
<1>1. ASSUME NEW p \in Pass, PassBegin(p) \/ PassStep(p) PROVE CreateOK'
  BY <1>1, PassCreate
<1>2. CASE UNCHANGED vars
  BY <1>2 DEF TypeInv, CreateOK, vars, db, pass, requests
<1>3. ASSUME NEW o \in Order,
             \/ RetryDue(o) \/ CancelStep(o)
             \/ \E a \in Act : ReviewStep(o, a)
             \/ \E i \in DOMAIN broker[o] : BrokerMove(o, i)
      PROVE  CreateOK'
  BY <1>3, OutsideCreate
<1> QED BY <1>1, <1>2, <1>3, CreateCreate, PauseCreate, CrashCreate DEF Next

LEMMA NextInv == TypeInv /\ [Next]_vars => TypeInv'
BY AllTypes, AllPlaces, AllOwn, AllRetry, AllCreate DEF TypeInv

(* For any orders, passes, retries and faults every reachable state is well *)
(* typed, and a task's retries stay within maxRetries.                      *)
THEOREM TypeCorrect == Spec => []TypeOK
<1>1. TypeInv => TypeOK
  BY DEF TypeInv
<1> QED BY <1>1, InitInv, NextInv, PTL DEF Spec

(* For any number of concurrent passes the guarded update to dispatching    *)
(* gives a task to one of them, over retries, reviews, pauses and restarts. *)
THEOREM OneDispatcher == Spec => []ExclusiveDispatch
<1>1. TypeInv => ExclusiveDispatch
  BY DEF TypeInv, OwnOK, ExclusiveDispatch
<1> QED BY <1>1, InitInv, NextInv, PTL DEF Spec

-----------------------------------------------------------------------------
(* Reviews.                                                                 *)

Sendable(o) == \/ task[o] \in {"pending", "dispatching"} \/ row[o] # <<>> \/ broker[o] # <<>>
               \/ \E p \in Pass : Owns(p, o)

LEMMA ReviewKept ==
  ASSUME ReviewOK,
         \A o \in Order :
           /\ Sendable(o)' => Sendable(o) \/ Approved(o)'
           /\ ticket'[o] # "none" /\ Sendable(o)' => ticket[o] # "none" \/ Approved(o)'
           /\ Approved(o) => Approved(o)'
  PROVE  ReviewOK'
BY DEF ReviewOK, Sendable

(* Overwriting entries of a sequence does not make it longer.               *)
LEMMA StillEmpty ==
  ASSUME NEW s, s = <<>>, NEW k, NEW v PROVE [s EXCEPT ![k] = v] = <<>>
OBVIOUS

LEMMA CreateReview ==
  ASSUME TypeInv, ReviewOK, NEW o \in Order, CreateStep(o) PROVE ReviewOK'
<1> USE DEF TypeInv, TypeOK, CreateOK, WriteTask, WriteLife, pass, Sendable, Approved, Owns
<1> UNCHANGED <<broker, review, pass>>
  BY DEF CreateStep
<1>0. \A p \in Pass : \A u \in Order : Owns(p, u) => task[u] # "none"
  BY PassNeedsTask
<1>1. CASE CreateIntent(o) \/ CreateRisk(o) \/ CreateLife(o)
  BY <1>1, ReviewKept DEF CreateIntent, CreateRisk, CreateLife, db
<1>4. CASE CreateTicket(o)
  BY <1>0, <1>4, ReviewKept DEF CreateTicket
<1>5. CASE CreateTask(o)
  <2>1. task[o] = "none" /\ row[o] = <<>> /\ broker[o] = <<>> /\ UNCHANGED <<row, ticket>>
    BY <1>5 DEF CreateTask
  <2>2. task'[o] \in {"pending", "dispatching"} => ticket[o] = "none"
    BY <1>5 DEF CreateTask
  <2>3. \A u \in Order : u # o => task'[u] = task[u]
    BY <1>5 DEF CreateTask
  <2> QED BY <1>0, <2>1, <2>2, <2>3 DEF ReviewOK
<1> QED BY <1>1, <1>4, <1>5 DEF CreateStep

LEMMA OutsideReview ==
  ASSUME TypeInv, ReviewOK, NEW o \in Order,
         \/ RetryDue(o) \/ CancelStep(o)
         \/ \E a \in Act : ReviewStep(o, a)
         \/ \E i \in DOMAIN broker[o] : BrokerMove(o, i)
  PROVE  ReviewOK'
<1> USE DEF TypeInv, TypeOK, pass, db, requests
<1> UNCHANGED pass
  BY DEF RetryDue, CancelStep, ReviewStep, BrokerMove
<1>a. \A u \in Order : \A p \in Pass : Owns(p, u)' <=> Owns(p, u)
  BY DEF Owns
<1>1. CASE RetryDue(o)
  BY <1>a, <1>1, ReviewKept DEF RetryDue, Sendable, Approved
<1>2. CASE CancelStep(o)
  <2>1. UNCHANGED <<ticket, review>> /\ task' \in {task, [task EXCEPT ![o] = "cancelled"]}
    BY <1>2 DEF CancelStep, CancelRead, CancelTask, CancelBroker, CancelRow, WriteTask
  <2>2. \A u \in Order : (row[u] = <<>> => row'[u] = <<>>)
                         /\ (broker[u] = <<>> => broker'[u] = <<>>)
    <3>1. \/ UNCHANGED row
          \/ \E k, v : row' = [row EXCEPT ![o] = [row[o] EXCEPT ![k] = v]]
      BY <1>2 DEF CancelStep, CancelRead, CancelTask, CancelBroker, CancelRow
    <3>2. \/ UNCHANGED broker
          \/ \E k : broker' = [broker EXCEPT ![o] = [broker[o] EXCEPT ![k] = "cancelled"]]
      BY <1>2 DEF CancelStep, CancelRead, CancelTask, CancelBroker, CancelRow
    <3> QED BY <3>1, <3>2, StillEmpty
  <2> QED BY <1>a, <2>1, <2>2, ReviewKept DEF Sendable, Approved
<1>3. ASSUME NEW a \in Act, ReviewStep(o, a) PROVE ReviewOK'
  <2>1. UNCHANGED <<row, broker>> /\ ticket[o] # "none"
    BY <1>3 DEF ReviewStep, ReviewRead, ReviewTicket, ReviewTask, ReviewLife, CreateOK
  <2>2. \A u \in Order : u # o => review'[u] = review[u] /\ task'[u] = task[u] /\ ticket'[u] = ticket[u]
    BY <1>3 DEF ReviewStep, ReviewRead, ReviewTicket, ReviewTask, ReviewLife, Progress, WriteTask
  <2>3. Approved(o) => Approved(o)'
    BY <1>3 DEF ReviewStep, ReviewRead, ReviewTicket, ReviewTask, ReviewLife, Progress, Approved, Act
  <2>4. task'[o] \in {"pending", "dispatching"} => task'[o] = task[o] \/ Approved(o)'
    BY <1>3 DEF ReviewStep, ReviewRead, ReviewTicket, ReviewTask, ReviewLife, Progress, WriteTask,
                Approved, Act
  <2> QED BY <1>a, <2>1, <2>2, <2>3, <2>4, ReviewKept DEF Sendable, Approved
<1>4. ASSUME NEW i \in DOMAIN broker[o], BrokerMove(o, i) PROVE ReviewOK'
  <2>1. broker[o] # <<>> /\ UNCHANGED <<task, row, ticket, review>>
    BY <1>4 DEF BrokerMove
  <2>2. \A u \in Order : u # o => broker'[u] = broker[u]
    BY <1>4 DEF BrokerMove
  <2> QED BY <1>a, <2>1, <2>2, ReviewKept DEF Sendable, Approved
<1> QED BY <1>1, <1>2, <1>3, <1>4

LEMMA PauseReview == ASSUME TypeInv, ReviewOK, PauseStep PROVE ReviewOK'
<1> UNCHANGED <<pass, broker, review, ticket, row>>
  BY DEF PauseStep, Pause, Resume, PauseScan, PauseCancel, PauseLife, PauseReturn, db, requests
<1>1. \A u \in Order : task'[u] \in {task[u], "cancelled"}
  BY DEF PauseStep, Pause, Resume, PauseScan, PauseCancel, PauseLife, PauseReturn, db, WriteTask,
         TypeInv, TypeOK
<1> QED BY <1>1, ReviewKept DEF Sendable, Approved, Owns, pass

LEMMA CrashReview == ASSUME TypeInv, ReviewOK, Crash PROVE ReviewOK'
<1>1. \A o \in Order : Approved(o) => Approved(o)'
  BY DEF Crash, Approved, TypeInv, TypeOK, Act
<1>2. \A o \in Order : \A p \in Pass : ~Owns(p, o)'
  BY DEF Crash, Owns
<1> QED BY <1>1, <1>2, ReviewKept DEF Sendable, Crash, db

LEMMA PassReview ==
  ASSUME TypeInv, ReviewOK, NEW p \in Pass, PassBegin(p) \/ PassStep(p) PROVE ReviewOK'
<1> USE DEF TypeInv, TypeOK, PassOK, OwnPlace, Goto, Decide, Take, WriteTask, db
<1> UNCHANGED review
  BY DEF PassBegin, PassStep, requests
<1>a. ASSUME NEW o \in Order, NEW q \in Pass, q # p, Owns(q, o)' PROVE Owns(q, o)
  BY <1>a, OthersStay DEF Owns
<1> DEFINE Fine == /\ \A o \in Order : ticket'[o] # "none" => ticket[o] # "none"
                   /\ \A o \in Order : Sendable(o)' => Sendable(o)
<1>b. SUFFICES Fine
  BY ReviewKept DEF Approved
<1>c. ASSUME UNCHANGED <<task, ticket, row, broker>>, \A o \in Order : Owns(p, o)' => Owns(p, o)
      PROVE  Fine
  BY <1>a, <1>c DEF Sendable
<1>0. CASE PassBegin(p)
  BY <1>0, <1>c DEF PassBegin, PassStart, Owns
<1>1. CASE PassScan(p)
  BY <1>1, <1>c DEF PassScan, Owns
<1>2. CASE PassNextSweep(p)
  BY <1>2, <1>c DEF PassNextSweep, Owns
<1>3. CASE PassAsk(p)
  BY <1>3, <1>c DEF PassAsk, Owns
<1>4. CASE PassAskFails(p) \/ PassFill(p) \/ PassMark(p)
  BY <1>4, <1>c DEF PassAskFails, PassFill, PassMark, Owns
<1>6. CASE PassRow(p)
  <2>1. UNCHANGED <<task, ticket, broker>> /\ \A o \in Order : Owns(p, o)' => Owns(p, o)
    BY <1>6 DEF PassRow, Owns
  <2>2. \E u, v : row' = [row EXCEPT ![u] = [row[u] EXCEPT ![1] = v]]
    BY <1>6 DEF PassRow
  <2>3. \A o \in Order : row[o] = <<>> => row'[o] = <<>>
    BY <2>2, StillEmpty
  <2> QED BY <1>a, <2>1, <2>3 DEF Sendable
<1>8. CASE PassGate(p)
  BY <1>8, <1>c DEF PassGate, Owns
<1>9. CASE PassSubmit(p)
  <2>1. PICK u \in Order : cur[p] = u
    BY <1>9 DEF PassSubmit
  <2>2. Owns(p, u)
    BY <1>9, <2>1 DEF PassSubmit, Owns
  <2>3. UNCHANGED <<phase, todo, cur, db>>
    BY <1>9, SubmitDoes
  <2>4. \A o \in Order : o # u => broker'[o] = broker[o]
    <3>1. UNCHANGED broker \/ \E s \in Held : broker' = [broker EXCEPT ![u] = Append(@, s)]
      BY <1>9, <2>1, SubmitDoes DEF Accept
    <3> QED BY <3>1
  <2>5. \A o \in Order : Owns(p, o)' => o = u
    BY <2>1, <2>3 DEF Owns
  <2> QED BY <1>a, <2>2, <2>3, <2>4, <2>5 DEF Sendable
<1>10. CASE PassInsert(p) \/ PassRefuse(p)
  <2>1. PICK u \in Order : cur[p] = u
    BY <1>10 DEF PassInsert, PassRefuse
  <2>2. Owns(p, u) /\ UNCHANGED <<task, ticket, broker, cur>>
    BY <1>10, <2>1 DEF PassInsert, PassRefuse, Owns
  <2>3. \A o \in Order : o # u => row'[o] = row[o]
    BY <1>10, <2>1 DEF PassInsert, PassRefuse
  <2>4. \A o \in Order : Owns(p, o)' => o = u
    BY <2>1, <2>2 DEF Owns
  <2> QED BY <1>a, <2>2, <2>3, <2>4 DEF Sendable
<1>12. CASE PassTask(p)
  <2>1. PICK u \in Order : cur[p] = u
    BY <1>12 DEF PassTask
  <2>2. /\ verdict[p] \in Verdict /\ at[p] = "task" /\ at'[p] = "life"
        /\ UNCHANGED <<phase, ticket, row, broker>>
    BY <1>12 DEF PassTask, Verdict, TaskOf
  <2>3. task' \in {task, [task EXCEPT ![u] = TaskOf[verdict[p]]]} /\ \A o \in Order : ~Owns(p, o)'
    BY <1>12, <2>1, <2>2 DEF PassTask, Owns
  <2>4. CASE phase[p] = "due"
    <3>1. Owns(p, u)
      BY <2>1, <2>2, <2>4 DEF Owns
    <3> QED BY <1>a, <2>2, <2>3, <3>1 DEF Sendable
  <2>5. CASE phase[p] # "due"
    <3>1. verdict[p] \in {"filled", "refused", "dropped", "expired"}
      <4>1. phase[p] \in {"expire", "poll"}
        BY <2>2, <2>5
      <4>2. OwnPlace(p)
        OBVIOUS
      <4> QED BY <2>2, <4>1, <4>2
    <3>2. TaskOf[verdict[p]] \notin {"pending", "dispatching"}
      BY <3>1 DEF TaskOf
    <3> QED BY <1>a, <2>2, <2>3, <3>2 DEF Sendable
  <2> QED BY <2>4, <2>5
<1>13. CASE PassLife(p)
  BY <1>13, <1>c DEF PassLife, Owns
<1>14. ASSUME NEW o \in Order, PassExpire(p, o) PROVE Fine
  <2>1. ticket[o] # "none"
    BY <1>14 DEF PassExpire, CreateOK
  <2>2. UNCHANGED <<task, row, broker>> /\ \A u \in Order : ~Owns(p, u)'
    BY <1>14 DEF PassExpire, Owns
  <2> QED BY <1>14, <1>a, <2>1, <2>2 DEF PassExpire, Sendable
<1>15. ASSUME NEW o \in Order, PassPoll(p, o) PROVE Fine
  BY <1>15, <1>c DEF PassPoll, Owns
<1>16. ASSUME NEW u \in Order, PassAcquire(p, u) PROVE Fine
  <2>1. UNCHANGED <<ticket, row, broker>>
    BY <1>16 DEF PassAcquire
  <2>2. UNCHANGED task \/ (task[u] = "pending" /\ task' = [task EXCEPT ![u] = "dispatching"])
    BY <1>16 DEF PassAcquire
  <2>3. \A o \in Order : Owns(p, o)' => o = u /\ task[u] = "pending"
    BY <1>16 DEF PassAcquire, Owns
  <2> QED BY <1>a, <2>1, <2>2, <2>3 DEF Sendable
<1> QED
  BY <1>0, <1>1, <1>2, <1>3, <1>4, <1>6, <1>8, <1>9, <1>10, <1>12, <1>13, <1>14, <1>15, <1>16
     DEF PassStep

LEMMA NextReview == TypeInv /\ ReviewOK /\ [Next]_vars => ReviewOK'
<1> SUFFICES ASSUME TypeInv, ReviewOK, [Next]_vars PROVE ReviewOK'
  OBVIOUS
<1>1. ASSUME NEW p \in Pass, PassBegin(p) \/ PassStep(p) PROVE ReviewOK'
  BY <1>1, PassReview
<1>2. CASE UNCHANGED vars
  BY <1>2 DEF ReviewOK, Approved, Owns, vars, db, pass, requests
<1>3. ASSUME NEW o \in Order,
             \/ RetryDue(o) \/ CancelStep(o)
             \/ \E a \in Act : ReviewStep(o, a)
             \/ \E i \in DOMAIN broker[o] : BrokerMove(o, i)
      PROVE  ReviewOK'
  BY <1>3, OutsideReview
<1> QED BY <1>1, <1>2, <1>3, CreateReview, PauseReview, CrashReview DEF Next

(* No order of an intent that needed a review reaches a broker or the books *)
(* before an approve request has come as far as the task.                   *)
THEOREM ReviewedBeforeSent == Spec => []NothingSentUnreviewed
<1>1. ReviewOK => NothingSentUnreviewed
  BY DEF ReviewOK, NothingSentUnreviewed, Approved
<1> QED BY <1>1, InitInv, NextInv, NextReview, PTL DEF Spec
==============================================================================
