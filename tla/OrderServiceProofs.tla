-------------------------- MODULE OrderServiceProofs --------------------------
(***************************************************************************)
(* As long as no answer of the broker is lost, OrderExecution places one   *)
(* order per intent and implements OrderService.  Then the books: fills,   *)
(* broker rows and the lifecycle against the task and the broker.          *)
(***************************************************************************)
EXTENDS OrderSettlementProofs, FiniteSetTheorems

(* No submit has lost its answer.                                           *)
NoneLost == lost = 0

(* The broker has rejected whatever was submitted for an intent.            *)
Clear(o) == \A i \in DOMAIN broker[o] : broker[o][i] = "rejected"

OneLive(o) ==
  \A i, j \in DOMAIN broker[o] : broker[o][i] # "rejected" /\ broker[o][j] # "rejected" => i = j

(* The owner has not yet submitted, or has been refused.                    *)
Unplaced(p) ==
  \/ at[p] \in {"mark", "gate", "submit", "refuse"}
  \/ at[p] \in {"insert", "task"} /\ verdict[p] \notin {"filled", "open"}

LiveOK ==
  \A o \in Order :
    /\ OneLive(o)
    /\ task[o] \in Unsent => Clear(o)
    /\ \A p \in Pass : Owns(p, o) /\ Unplaced(p) => Clear(o)

(* What the broker holds belongs to the first row of the order.             *)
OnlyFirst(o) ==
  row[o] # <<>> /\ \A i \in DOMAIN broker[o] : i # row[o][1].id => broker[o][i] = "rejected"

Filled(o) == o \in Paper \/ \E i \in DOMAIN broker[o] : broker[o][i] = "filled"

(* A pass that works on a task knows what the broker told it, and looks at  *)
(* first rows that are closed; the row of a poll is the one that counts.    *)
BackedAt(p, o) ==
  /\ at[p] = "submit" => o \notin Paper
  /\ at[p] \in {"insert", "fill", "refuse", "task"} /\ verdict[p] = "filled" => Filled(o)
  /\ at[p] = "insert" => \A i \in DOMAIN broker[o] : i # Len(broker[o]) => broker[o][i] = "rejected"
  /\ at[p] \in {"mark", "gate", "submit", "insert"} => Marked(o)
  /\ at[p] = "refuse" => row[o] # <<>> /\ (Marked(o) \/ Len(row[o]) = 1)
  /\ at[p] = "task" /\ verdict[p] \notin {"filled", "open"} => Marked(o)

BackedOK ==
  \A o \in Order :
    /\ task[o] \in Unsent => Marked(o)
    /\ ~Marked(o) => OnlyFirst(o)
    /\ \A p \in Pass : /\ Owns(p, o) => BackedAt(p, o)
                       /\ Asking(p, o) => OnlyFirst(o)

-----------------------------------------------------------------------------
(* One live order per intent.                                               *)

(* An order that the broker moves was open, and rejected ones stay so.      *)
Turned(o) ==
  /\ DOMAIN broker'[o] = DOMAIN broker[o] /\ Len(broker'[o]) = Len(broker[o])
  /\ \A j \in DOMAIN broker[o] :
       broker[o][j] # "open" => broker'[o][j] = broker[o][j]

LEMMA TurnedKeeps ==
  ASSUME NEW o \in Order, Turned(o)
  PROVE  (Clear(o) => Clear(o)') /\ (OneLive(o) => OneLive(o)')
BY DEF Turned, Clear, OneLive

LEMMA SameTurned == ASSUME NEW o \in Order, broker'[o] = broker[o] PROVE Turned(o)
BY DEF Turned

LEMMA MoveTurns ==
  ASSUME TypeInv, NEW o \in Order, NEW i \in DOMAIN broker[o], BrokerMove(o, i)
  PROVE  \A u \in Order : Turned(u)
<1>1. ASSUME NEW u \in Order, u # o PROVE Turned(u)
  BY <1>1, MoveDoes, SameTurned
<1>2. Turned(o)
  <2>1. DOMAIN broker'[o] = DOMAIN broker[o] /\ Len(broker'[o]) = Len(broker[o])
    BY MoveDoes
  <2>2. \A j \in DOMAIN broker[o] : broker[o][j] # "open" => broker'[o][j] = broker[o][j]
    BY MoveDoes
  <2> QED BY <2>1, <2>2 DEF Turned
<1> QED BY <1>1, <1>2

LEMMA CancelTurns ==
  ASSUME TypeInv, NEW o \in Order, CancelStep(o)
  PROVE  /\ UNCHANGED <<pass, lost>> /\ task' \in {task, [task EXCEPT ![o] = "cancelled"]}
         /\ \A u \in Order : Turned(u)
<1> USE DEF TypeInv, TypeOK
<1>1. UNCHANGED <<pass, lost>> /\ task' \in {task, [task EXCEPT ![o] = "cancelled"]}
  BY DEF CancelStep, CancelRead, CancelTask, CancelBroker, CancelRow, db, WriteTask
<1>2. \/ UNCHANGED broker
      \/ \E i \in DOMAIN broker[o] :
           broker[o][i] = "open" /\ broker' = [broker EXCEPT ![o] = [broker[o] EXCEPT ![i] = "cancelled"]]
  BY DEF CancelStep, CancelRead, CancelTask, CancelBroker, CancelRow
<1>3. ASSUME NEW i \in DOMAIN broker[o], broker[o][i] = "open",
             broker' = [broker EXCEPT ![o] = [broker[o] EXCEPT ![i] = "cancelled"]]
      PROVE  Turned(o) /\ \A u \in Order \ {o} : broker'[u] = broker[u]
  <2>1. broker[o] \in Seq(Held) /\ "cancelled" \in Held
    BY DEF Held
  <2>2. broker'[o] = [broker[o] EXCEPT ![i] = "cancelled"] /\ \A u \in Order \ {o} : broker'[u] = broker[u]
    BY <1>3
  <2>3. /\ Len(broker'[o]) = Len(broker[o]) /\ DOMAIN broker'[o] = DOMAIN broker[o]
        /\ \A j \in DOMAIN broker[o] : broker'[o][j] = IF j = i THEN "cancelled" ELSE broker[o][j]
    BY <2>1, <2>2, Overwritten
  <2> QED BY <1>3, <2>2, <2>3 DEF Turned
<1>4. \A u \in Order : Turned(u)
  BY <1>2, <1>3, SameTurned
<1> QED BY <1>1, <1>4

(* The other passes are where they were.                                    *)
LEMMA OthersWait ==
  ASSUME TypeInv, NEW p \in Pass, PassBegin(p) \/ PassStep(p), NEW q \in Pass, q # p
  PROVE  /\ Unplaced(q)' <=> Unplaced(q)
         /\ at'[q] = at[q] /\ verdict'[q] = verdict[q]
         /\ \A o \in Order : (Owns(q, o)' <=> Owns(q, o)) /\ (Asking(q, o)' <=> Asking(q, o))
<1>1. phase'[q] = phase[q] /\ at'[q] = at[q] /\ cur'[q] = cur[q] /\ verdict'[q] = verdict[q]
  BY OthersStay
<1> QED BY <1>1 DEF Unplaced, Owns, Asking

LEMMA LiveKept ==
  ASSUME LiveOK,
         \A o \in Order : /\ Turned(o)
                          /\ task'[o] \in Unsent => task[o] \in Unsent
                          /\ \A p \in Pass : Owns(p, o)' /\ Unplaced(p)' => Owns(p, o) /\ Unplaced(p)
  PROVE  LiveOK'
<1> SUFFICES ASSUME NEW o \in Order
             PROVE  /\ OneLive(o)' /\ (task'[o] \in Unsent => Clear(o)')
                    /\ \A p \in Pass : Owns(p, o)' /\ Unplaced(p)' => Clear(o)'
  BY DEF LiveOK
<1>1. (Clear(o) => Clear(o)') /\ (OneLive(o) => OneLive(o)')
  BY TurnedKeeps
<1> QED BY <1>1 DEF LiveOK

LEMMA OutsideLive ==
  ASSUME LiveOK, UNCHANGED pass,
         \A o \in Order : Turned(o) /\ (task'[o] \in Unsent => task[o] \in Unsent)
  PROVE  LiveOK'
<1>1. \A p \in Pass : (Unplaced(p)' <=> Unplaced(p)) /\ \A o \in Order : Owns(p, o)' <=> Owns(p, o)
  BY DEF Unplaced, Owns, pass
<1> QED BY <1>1, LiveKept

(* A pass that works on nothing new, submits nothing and leaves tasks alone. *)
LEMMA QuietLive ==
  ASSUME TypeInv, LiveOK, NEW p \in Pass, PassBegin(p) \/ PassStep(p), UNCHANGED <<task, broker>>,
         \A o \in Order : Owns(p, o)' /\ Unplaced(p)' => Owns(p, o) /\ Unplaced(p)
  PROVE  LiveOK'
<1>1. ASSUME NEW q \in Pass, NEW o \in Order
      PROVE  Owns(q, o)' /\ Unplaced(q)' => Owns(q, o) /\ Unplaced(q)
  BY OthersWait
<1>2. \A o \in Order : Turned(o)
  BY SameTurned
<1> QED BY <1>1, <1>2, LiveKept

(* Before it submits, the owner finds the broker clear of orders.           *)
LEMMA SubmitLive ==
  ASSUME NoneLost, NoneLost', TypeInv, LiveOK, NEW p \in Pass, PassStep(p), PassSubmit(p) PROVE LiveOK'
<1>1. PICK u \in Order : cur[p] = u
  BY DEF PassSubmit, TypeInv, PassOK, OwnPlace
<1>2. /\ at[p] = "submit" /\ phase[p] = "due" /\ lost = 0 /\ UNCHANGED <<phase, cur, task>>
  <2>1. at[p] = "submit" /\ UNCHANGED <<phase, cur, task>>
    BY SubmitDoes DEF PassSubmit, db
  <2> QED BY <2>1 DEF NoneLost, TypeInv, PassOK, OwnPlace
<1>3. Owns(p, u) /\ Clear(u) /\ \A q \in Pass : Owns(q, u) => q = p
  BY <1>1, <1>2, OwnerAlone DEF Owns, Unplaced, LiveOK
<1>4. /\ \/ UNCHANGED broker
         \/ Accept(u, "rejected")
         \/ \E s \in {"filled", "open"} : Accept(u, s) /\ at'[p] = "insert" /\ verdict'[p] \in {"filled", "open"}
  BY <1>1, <1>2 DEF PassSubmit, Decide, Goto, NoneLost, TypeInv, TypeOK
<1>5. \A o \in Order \ {u} : broker'[o] = broker[o]
  <2>1. UNCHANGED broker \/ \E s \in Held : Accept(u, s)
    BY <1>4 DEF Held
  <2> QED BY <2>1, AcceptDoes
<1>6. /\ OneLive(u)'
      /\ Unplaced(p)' => Clear(u)'
  <2>1. CASE UNCHANGED broker
    BY <1>3, <2>1 DEF LiveOK, OneLive, Clear
  <2>2. ASSUME NEW s \in Held, Accept(u, s)
        PROVE  \A i \in DOMAIN broker'[u] : i # Len(broker[u]) + 1 => broker'[u][i] = "rejected"
    <3>1. /\ Len(broker[u]) \in Nat /\ DOMAIN broker[u] = 1 .. Len(broker[u])
          /\ DOMAIN broker'[u] = 1 .. Len(broker[u]) + 1
          /\ \A j \in DOMAIN broker[u] : broker'[u][j] = broker[u][j]
      BY <2>2, AcceptDoes
    <3> QED BY <1>3, <3>1 DEF Clear
  <2>3. CASE Accept(u, "rejected")
    <3>1. broker'[u][Len(broker[u]) + 1] = "rejected"
      BY <2>3, AcceptDoes DEF Held
    <3> QED BY <2>2, <2>3, <3>1 DEF Clear, OneLive, Held
  <2>4. ASSUME NEW s \in {"filled", "open"}, Accept(u, s), at'[p] = "insert",
               verdict'[p] \in {"filled", "open"}
        PROVE  OneLive(u)' /\ ~Unplaced(p)'
    BY <2>2, <2>4 DEF OneLive, Held, Unplaced
  <2> QED BY <1>4, <2>1, <2>3, <2>4
<1>7. ASSUME NEW q \in Pass, NEW o \in Order, Owns(q, o)', Unplaced(q)'
      PROVE  Clear(o)'
  <2>1. CASE o = u
    <3>1. q = p
      BY <1>3, <1>7, <2>1, OthersWait
    <3> QED BY <1>6, <1>7, <2>1, <3>1
  <2>2. CASE o # u
    <3>1. q # p
      BY <1>1, <1>2, <1>7, <2>2 DEF Owns
    <3>2. Owns(q, o) /\ Unplaced(q)
      BY <1>7, <3>1, OthersWait
    <3> QED BY <1>5, <2>2, <3>2 DEF LiveOK, Clear
  <2> QED BY <2>1, <2>2
<1>8. ASSUME NEW o \in Order PROVE OneLive(o)' /\ (task'[o] \in Unsent => Clear(o)')
  <2>1. CASE o = u
    <3>1. task[u] \notin Unsent
      BY <1>3 DEF TypeInv, OwnOK, Unsent, Cancellable
    <3> QED BY <1>2, <1>6, <2>1, <3>1
  <2>2. CASE o # u
    BY <1>2, <1>5, <2>2 DEF LiveOK, OneLive, Clear
  <2> QED BY <2>1, <2>2
<1> QED BY <1>7, <1>8 DEF LiveOK

LEMMA TaskLive == ASSUME TypeInv, LiveOK, NEW p \in Pass, PassStep(p), PassTask(p) PROVE LiveOK'
<1>1. PICK u \in Order :
        /\ cur[p] = u /\ at[p] = "task" /\ at'[p] = "life" /\ UNCHANGED broker
        /\ \A o \in Order \ {u} : task'[o] = task[o]
        /\ phase[p] = "due" =>
             /\ verdict[p] \in {"filled", "open", "paused", "blocked", "retry", "giveUp"}
             /\ task' = [task EXCEPT ![u] = TaskOf[verdict[p]]]
        /\ phase[p] # "due" => (task'[u] \in Unsent => task[u] \in Unsent)
  <2>1. PICK u \in Order :
          /\ cur[p] = u /\ at[p] = "task" /\ at'[p] = "life" /\ phase[p] \in {"expire", "poll", "due"}
          /\ UNCHANGED <<phase, todo, cur, verdict, tries, row, broker, lost>>
          /\ \A o \in Order \ {u} : task'[o] = task[o] /\ retries'[o] = retries[o]
          /\ phase[p] = "due" =>
               /\ verdict[p] \in {"filled", "open", "paused", "blocked", "retry", "giveUp"}
               /\ task' = [task EXCEPT ![u] = TaskOf[verdict[p]]]
               /\ retries'[u] = IF verdict[p] \in {"retry", "giveUp"} THEN retries[u] + 1
                                                                     ELSE retries[u]
          /\ phase[p] = "poll" =>
               /\ verdict[p] \in {"filled", "refused", "dropped"}
               /\ task' = [task EXCEPT ![u] = TaskOf[verdict[p]]] /\ UNCHANGED retries
          /\ phase[p] = "expire" =>
               /\ \/ UNCHANGED task
                  \/ task[u] = "awaiting_review" /\ task' = [task EXCEPT ![u] = "rejected"]
               /\ UNCHANGED retries
    BY TaskDoes
  <2>2. phase[p] # "due" => (task'[u] \in Unsent => task[u] \in Unsent)
    BY <2>1 DEF TypeInv, TypeOK, TaskOf, Unsent, Cancellable
  <2> QED BY <2>1, <2>2
<1>2. ASSUME NEW q \in Pass, NEW o \in Order, Owns(q, o)' PROVE q # p /\ Owns(q, o) /\ (Unplaced(q)' <=> Unplaced(q))
  <2>1. q # p
    BY <1>1, <1>2 DEF Owns
  <2> QED BY <1>2, <2>1, OthersWait
<1>3. ASSUME NEW o \in Order, task'[o] \in Unsent PROVE Clear(o)
  <2>1. CASE task[o] \in Unsent
    BY <2>1 DEF LiveOK
  <2>2. CASE task[o] \notin Unsent
    <3>1. o = u /\ phase[p] = "due"
      BY <1>1, <1>3, <2>2
    <3>2. verdict[p] = "retry"
      BY <1>1, <1>3, <3>1 DEF TypeInv, TypeOK, TaskOf, Unsent, Cancellable
    <3>3. Owns(p, u) /\ Unplaced(p)
      BY <1>1, <3>1, <3>2 DEF Owns, Unplaced
    <3> QED BY <3>1, <3>3 DEF LiveOK
  <2> QED BY <2>1, <2>2
<1>4. \A o \in Order : (Clear(o)' <=> Clear(o)) /\ (OneLive(o)' <=> OneLive(o))
  BY <1>1 DEF Clear, OneLive
<1> QED BY <1>2, <1>3, <1>4 DEF LiveOK

LEMMA AcquireLive ==
  ASSUME TypeInv, LiveOK, NEW p \in Pass, PassStep(p), NEW u \in Order, PassAcquire(p, u)
  PROVE  LiveOK'
<1>1. /\ phase[p] = "due" /\ UNCHANGED <<phase, broker>> /\ cur'[p] = u
      /\ \/ UNCHANGED <<task, at>> /\ at[p] = "next"
         \/ task[u] = "pending" /\ task' = [task EXCEPT ![u] = "dispatching"]
  BY DEF PassAcquire, Take, Goto, WriteTask, TypeInv, TypeOK
<1>2. \A o \in Order : task'[o] \in Unsent => task[o] \in Unsent
  BY <1>1 DEF TypeInv, TypeOK, Unsent, Cancellable
<1>3. \A o \in Order : (Clear(o)' <=> Clear(o)) /\ (OneLive(o)' <=> OneLive(o))
  BY <1>1 DEF Clear, OneLive
<1>4. ASSUME NEW q \in Pass, NEW o \in Order, Owns(q, o)', Unplaced(q)' PROVE Clear(o)
  <2>1. CASE q # p
    BY <1>4, <2>1, OthersWait DEF LiveOK
  <2>2. CASE q = p
    <3>1. o = u /\ task[u] = "pending"
      BY <1>1, <1>4, <2>2 DEF Owns
    <3> QED BY <3>1 DEF LiveOK, Unsent, Cancellable
  <2> QED BY <2>1, <2>2
<1> QED BY <1>2, <1>3, <1>4 DEF LiveOK

LEMMA PassLive ==
  ASSUME NoneLost, NoneLost', TypeInv, LiveOK, NEW p \in Pass, PassBegin(p) \/ PassStep(p) PROVE LiveOK'
<1> USE DEF TypeInv, TypeOK, PassOK, OwnPlace, Goto, Decide, Take, db
<1> DEFINE Less == /\ UNCHANGED <<task, broker>>
                   /\ \A o \in Order : Owns(p, o)' /\ Unplaced(p)' => Owns(p, o) /\ Unplaced(p)
<1>b. SUFFICES ASSUME ~Less PROVE LiveOK'
  BY QuietLive
<1>0. CASE PassBegin(p)
  BY <1>0, <1>b DEF PassBegin, PassStart, Owns
<1>c. SUFFICES ASSUME PassStep(p) PROVE LiveOK'
  BY <1>0
<1>1. CASE PassScan(p)
  BY <1>1, <1>b DEF PassScan, Owns
<1>2. CASE PassNextSweep(p)
  BY <1>2, <1>b DEF PassNextSweep, Owns
<1>3. CASE PassAsk(p)
  BY <1>3, <1>b DEF PassAsk, Owns
<1>4. CASE PassAskFails(p) \/ PassFill(p) \/ PassRow(p) \/ PassMark(p)
  BY <1>4, <1>b DEF PassAskFails, PassFill, PassRow, PassMark, Owns, Unplaced
<1>5. CASE PassGate(p)
  BY <1>5, <1>b DEF PassGate, Owns, Unplaced
<1>6. CASE PassSubmit(p)
  <2> HIDE DEF TypeInv, TypeOK, PassOK, OwnPlace
  <2> QED BY <1>6, <1>c, SubmitLive
<1>7. CASE PassInsert(p) \/ PassRefuse(p)
  BY <1>7, <1>b DEF PassInsert, PassRefuse, Owns, Unplaced
<1>8. CASE PassTask(p)
  <2> HIDE DEF TypeInv, TypeOK, PassOK, OwnPlace
  <2> QED BY <1>8, <1>c, TaskLive
<1>9. CASE PassLife(p)
  BY <1>9, <1>b DEF PassLife, Owns
<1>10. ASSUME NEW o \in Order, PassExpire(p, o) \/ PassPoll(p, o) PROVE LiveOK'
  BY <1>10, <1>b DEF PassExpire, PassPoll, Owns
<1>11. ASSUME NEW o \in Order, PassAcquire(p, o) PROVE LiveOK'
  <2> HIDE DEF TypeInv, TypeOK, PassOK, OwnPlace
  <2> QED BY <1>11, <1>c, AcquireLive
<1> QED
  BY <1>c, <1>1, <1>2, <1>3, <1>4, <1>5, <1>6, <1>7, <1>8, <1>9, <1>10, <1>11 DEF PassStep

(* Answers that are lost stay lost.                                         *)
LEMMA LostCounts ==
  ASSUME TypeInv, [Next]_vars
  PROVE  lost' = lost \/ (lost < MaxLost /\ lost' = lost + 1)
<1>1. CASE UNCHANGED vars
  BY <1>1 DEF vars
<1>2. ASSUME NEW o \in Order, CreateStep(o) \/ RetryDue(o) \/ \E a \in Act : ReviewStep(o, a)
      PROVE  lost' = lost
  BY <1>2, RequestDoes
<1>3. CASE PauseStep
  BY <1>3, PauseDoes
<1>4. ASSUME NEW o \in Order, NEW i \in DOMAIN broker[o], BrokerMove(o, i) PROVE lost' = lost
  BY <1>4, MoveDoes
<1>5. CASE Crash
  BY <1>5 DEF Crash
<1>6. ASSUME NEW o \in Order, CancelStep(o) PROVE lost' = lost
  BY <1>6, CancelTurns
<1>7. ASSUME NEW p \in Pass, PassSubmit(p)
      PROVE  lost' = lost \/ (lost < MaxLost /\ lost' = lost + 1)
  BY <1>7 DEF PassSubmit
<1>8. ASSUME NEW p \in Pass, PassBegin(p) \/ PassStep(p), ~PassSubmit(p) PROVE lost' = lost
  BY <1>8 DEF PassBegin, PassStart, PassStep, PassScan, PassNextSweep, PassAsk, PassAskFails, PassFill,
              PassRow, PassMark, PassGate, PassInsert, PassRefuse, PassTask, PassLife, PassExpire,
              PassPoll, PassAcquire
<1> QED BY <1>1, <1>2, <1>3, <1>4, <1>5, <1>6, <1>7, <1>8 DEF Next

LEMMA LostStays == TypeInv /\ [Next]_vars /\ NoneLost' => NoneLost
BY LostCounts DEF NoneLost, TypeInv, TypeOK

LEMMA NextLost == ASSUME MaxLost = 0 PROVE NoneLost /\ TypeInv /\ [Next]_vars => NoneLost'
BY LostCounts DEF NoneLost

LEMMA InitLive == Init => NoneLost /\ LiveOK
BY DEF Init, NoneLost, LiveOK, OneLive, Clear, Owns

LEMMA NextLive ==
  ASSUME NoneLost, NoneLost', TypeInv, LiveOK, [Next]_vars PROVE LiveOK'
<1>1. CASE UNCHANGED vars
  BY <1>1, OutsideLive, SameTurned DEF vars, db
<1>2. ASSUME NEW o \in Order, CreateStep(o) \/ RetryDue(o) \/ \E a \in Act : ReviewStep(o, a)
      PROVE  LiveOK'
  <2>1. \A u \in Order : task'[u] \in Unsent => task[u] \in Unsent
    BY <1>2, RequestDoes DEF TypeInv, TypeOK, Unsent, Cancellable
  <2> QED BY <1>2, <2>1, RequestDoes, OutsideLive, SameTurned
<1>3. CASE PauseStep
  <2>1. \A u \in Order : task'[u] \in Unsent => task[u] \in Unsent
    BY <1>3, PauseDoes DEF TypeInv, TypeOK, Unsent, Cancellable
  <2> QED BY <1>3, <2>1, PauseDoes, OutsideLive, SameTurned
<1>4. ASSUME NEW o \in Order, NEW i \in DOMAIN broker[o], BrokerMove(o, i) PROVE LiveOK'
  BY <1>4, MoveDoes, MoveTurns, OutsideLive
<1>5. CASE Crash
  <2>1. UNCHANGED <<task, broker>> /\ \A p \in Pass, o \in Order : ~Owns(p, o)'
    BY <1>5 DEF Crash, db, Owns
  <2> QED BY <2>1, LiveKept, SameTurned
<1>6. ASSUME NEW o \in Order, CancelStep(o) PROVE LiveOK'
  <2>1. \A u \in Order : task'[u] \in Unsent => task[u] \in Unsent
    BY <1>6, CancelTurns DEF TypeInv, TypeOK, Unsent, Cancellable
  <2> QED BY <1>6, <2>1, CancelTurns, OutsideLive
<1> QED BY <1>1, <1>2, <1>3, <1>4, <1>5, <1>6, PassLive DEF Next

(* Until an answer of the broker is lost, it holds at most one order for an *)
(* intent that it has not rejected, over any passes, retries, cancels,      *)
(* pauses and restarts (one lost answer is enough for two: ExecDuplicate).  *)
THEOREM OneOrderPlaced == Spec => [](lost = 0 => OneLiveOrder)
<1>1. (NoneLost => LiveOK) => (lost = 0 => OneLiveOrder)
  BY DEF LiveOK, OneLive, OneLiveOrder, NoneLost
<1>2. TypeInv /\ (NoneLost => LiveOK) /\ [Next]_vars => (NoneLost => LiveOK)'
  BY NextLive, LostStays
<1> QED BY <1>1, <1>2, InitInv, InitLive, NextInv, PTL DEF Spec

-----------------------------------------------------------------------------
(* What a pass knows of the order it works on is so.                        *)

LEMMA TurnedBacked ==
  ASSUME NEW o \in Order, NEW p \in Pass, Turned(o), row'[o] = row[o]
  PROVE  /\ OnlyFirst(o) => OnlyFirst(o)'
         /\ Marked(o)' <=> Marked(o)
         /\ at'[p] = at[p] /\ verdict'[p] = verdict[p] /\ BackedAt(p, o) => BackedAt(p, o)'
<1>1. (OnlyFirst(o) => OnlyFirst(o)') /\ (Marked(o)' <=> Marked(o))
  BY DEF Turned, OnlyFirst, Marked
<1>2. Filled(o) => Filled(o)'
  BY DEF Turned, Filled
<1>3. ASSUME at[p] = "insert" => \A i \in DOMAIN broker[o] : i # Len(broker[o]) => broker[o][i] = "rejected"
      PROVE  at[p] = "insert" => \A i \in DOMAIN broker'[o] : i # Len(broker'[o]) => broker'[o][i] = "rejected"
  BY <1>3 DEF Turned
<1> QED BY <1>1, <1>2, <1>3 DEF BackedAt

LEMMA BackedKept ==
  ASSUME BackedOK,
         \A o \in Order :
           /\ Turned(o) /\ row'[o] = row[o] /\ (task'[o] \in Unsent => task[o] \in Unsent)
           /\ \A p \in Pass :
                /\ Owns(p, o)' => Owns(p, o) /\ at'[p] = at[p] /\ verdict'[p] = verdict[p]
                /\ Asking(p, o)' => Asking(p, o)
  PROVE  BackedOK'
<1> SUFFICES ASSUME NEW o \in Order
             PROVE  /\ task'[o] \in Unsent => Marked(o)'
                    /\ ~Marked(o)' => OnlyFirst(o)'
                    /\ \A p \in Pass : /\ Owns(p, o)' => BackedAt(p, o)'
                                       /\ Asking(p, o)' => OnlyFirst(o)'
  BY DEF BackedOK
<1>1. ASSUME NEW p \in Pass PROVE /\ Owns(p, o)' => BackedAt(p, o)'
                                  /\ Asking(p, o)' => OnlyFirst(o)'
  BY TurnedBacked DEF BackedOK
<1>2. CASE Pass = {}
  BY <1>2 DEF BackedOK, Turned, OnlyFirst, Marked
<1>3. ASSUME NEW p \in Pass PROVE (Marked(o)' <=> Marked(o)) /\ (OnlyFirst(o) => OnlyFirst(o)')
  BY TurnedBacked
<1> QED BY <1>1, <1>2, <1>3 DEF BackedOK

LEMMA OutsideBacked ==
  ASSUME BackedOK, UNCHANGED <<row, pass>>,
         \A o \in Order : Turned(o) /\ (task'[o] \in Unsent => task[o] \in Unsent)
  PROVE  BackedOK'
<1>1. \A p \in Pass : /\ at'[p] = at[p] /\ verdict'[p] = verdict[p]
                      /\ \A o \in Order : (Owns(p, o)' <=> Owns(p, o)) /\ (Asking(p, o)' <=> Asking(p, o))
  BY DEF Owns, Asking, pass
<1> QED BY <1>1, BackedKept

(* A pass that leaves all orders alone.                                     *)
LEMMA QuietBacked ==
  ASSUME TypeInv, BackedOK, NEW p \in Pass, PassBegin(p) \/ PassStep(p), UNCHANGED <<task, row, broker>>,
         \A o \in Order : /\ Owns(p, o)' => BackedAt(p, o)'
                          /\ Asking(p, o)' => OnlyFirst(o)
  PROVE  BackedOK'
<1>1. ASSUME NEW o \in Order PROVE /\ Turned(o) /\ (Marked(o)' <=> Marked(o))
                                   /\ OnlyFirst(o)' <=> OnlyFirst(o)
  BY SameTurned DEF Marked, OnlyFirst
<1>2. ASSUME NEW q \in Pass, NEW o \in Order
      PROVE  (Owns(q, o)' => BackedAt(q, o)') /\ (Asking(q, o)' => OnlyFirst(o)')
  <2>1. CASE q = p
    BY <1>1, <2>1
  <2>2. CASE q # p
    <3>1. BackedAt(q, o) => BackedAt(q, o)'
      BY <1>1, <2>2, OthersWait, TurnedBacked
    <3> QED BY <1>1, <2>2, <3>1, OthersWait DEF BackedOK
  <2> QED BY <2>1, <2>2
<1> QED BY <1>1, <1>2 DEF BackedOK

(* A pass that works on an order alone.                                     *)
LEMMA OwnBacked ==
  ASSUME TypeInv, BackedOK, NEW p \in Pass, PassStep(p), NEW u \in Order,
         phase'[p] = "due", Owns(p, u) \/ task[u] = "pending",
         \A o \in Order \ {u} : /\ task'[o] = task[o] /\ row'[o] = row[o] /\ broker'[o] = broker[o]
                                /\ ~Owns(p, o)',
         task'[u] \in Unsent => Marked(u)',
         ~Marked(u)' => OnlyFirst(u)',
         Owns(p, u)' => BackedAt(p, u)'
  PROVE  BackedOK'
<1>1. ASSUME NEW q \in Pass, q # p PROVE ~Owns(q, u)' /\ ~Asking(q, u)'
  <2>1. ~Polls(q, u) /\ ~Owns(q, u)
    BY <1>1, OwnerAlone DEF TypeInv, OwnOK, Final
  <2> QED BY <1>1, <2>1, OthersWait DEF Polls, Asking
<1>2. \A o \in Order : ~Asking(p, o)'
  BY DEF Asking
<1>3. ASSUME NEW o \in Order, o # u
      PROVE  /\ Turned(o) /\ (Marked(o)' <=> Marked(o))
             /\ OnlyFirst(o)' <=> OnlyFirst(o)
             /\ task'[o] \in Unsent => Marked(o)'
             /\ ~Marked(o)' => OnlyFirst(o)'
  BY <1>3, SameTurned DEF Marked, OnlyFirst, BackedOK
<1>4. ASSUME NEW o \in Order, NEW q \in Pass
      PROVE  (Owns(q, o)' => BackedAt(q, o)') /\ (Asking(q, o)' => OnlyFirst(o)')
  <2>1. CASE q = p
    BY <1>2, <2>1
  <2>2. CASE q # p /\ o = u
    BY <1>1, <2>2
  <2>3. CASE q # p /\ o # u
    <3>1. BackedAt(q, o) => BackedAt(q, o)'
      BY <1>3, <2>3, OthersWait, TurnedBacked
    <3> QED BY <1>3, <2>3, <3>1, OthersWait DEF BackedOK
  <2> QED BY <2>1, <2>2, <2>3
<1> QED BY <1>3, <1>4 DEF BackedOK

LEMMA SubmitBacked ==
  ASSUME MaxLost = 0, NoneLost, TypeInv, LiveOK, BackedOK,
         NEW p \in Pass, PassStep(p), PassSubmit(p)
  PROVE  BackedOK'
<1>1. PICK u \in Order : cur[p] = u
  BY DEF PassSubmit, TypeInv, PassOK, OwnPlace
<1>2. /\ at[p] = "submit" /\ phase[p] = "due" /\ lost = 0 /\ UNCHANGED <<phase, cur, task, row>>
  <2>1. at[p] = "submit" /\ UNCHANGED <<phase, cur, task, row>>
    BY SubmitDoes DEF PassSubmit, db
  <2> QED BY <2>1 DEF NoneLost, TypeInv, PassOK, OwnPlace
<1>3. Owns(p, u) /\ Clear(u) /\ BackedAt(p, u)
  BY <1>1, <1>2 DEF Owns, Unplaced, LiveOK, BackedOK
<1>4. /\ \/ UNCHANGED broker /\ at'[p] \in {"submit", "task"}
         \/ /\ \E s \in Held : Accept(u, s) /\ (verdict'[p] = "filled" => s = "filled")
            /\ at'[p] = "insert"
  <2>1. \/ /\ UNCHANGED broker
           /\ UNCHANGED <<at, verdict>> \/ Decide(p, Failure(u), "task")
        \/ Accept(u, "filled") /\ Decide(p, "filled", "insert")
        \/ Accept(u, "open") /\ Decide(p, "open", "insert")
        \/ Accept(u, "rejected") /\ Decide(p, Failure(u), "insert")
    BY <1>1, <1>2 DEF PassSubmit
  <2>2. Failure(u) # "filled"
    BY FailureIs
  <2> QED BY <1>2, <2>1, <2>2 DEF Decide, Goto, TypeInv, TypeOK, Held
<1>5. \A o \in Order \ {u} : broker'[o] = broker[o] /\ ~Owns(p, o)'
  <2>1. UNCHANGED broker \/ \E s \in Held : Accept(u, s)
    BY <1>4
  <2>2. \A o \in Order \ {u} : broker'[o] = broker[o]
    BY <2>1, AcceptDoes
  <2> QED BY <1>1, <1>2, <2>2 DEF Owns
<1>6. task[u] \notin Unsent
  BY <1>3 DEF TypeInv, OwnOK, Unsent, Cancellable
<1>7. Marked(u) /\ Marked(u)' /\ u \notin Paper
  BY <1>2, <1>3 DEF BackedAt, Marked
<1>8. BackedAt(p, u)'
  <2>1. CASE UNCHANGED broker /\ at'[p] \in {"submit", "task"}
    <3>1. at'[p] = "task" => verdict'[p] # "filled"
      <4>1. at'[p] = "task" => \E v : Decide(p, Failure(u), "task")
        BY <1>1, <1>2, <2>1, SubmitDoes DEF Decide, Goto, TypeInv, TypeOK
      <4> QED BY <4>1, FailureIs DEF Decide, TypeInv, TypeOK
    <3> QED BY <1>7, <2>1, <3>1 DEF BackedAt
  <2>2. ASSUME NEW s \in Held, Accept(u, s), verdict'[p] = "filled" => s = "filled", at'[p] = "insert"
        PROVE  BackedAt(p, u)'
    <3>1. /\ Len(broker[u]) \in Nat /\ DOMAIN broker[u] = 1 .. Len(broker[u])
          /\ DOMAIN broker'[u] = 1 .. Len(broker[u]) + 1 /\ Len(broker'[u]) = Len(broker[u]) + 1
          /\ \A j \in DOMAIN broker[u] : broker'[u][j] = broker[u][j]
          /\ broker'[u][Len(broker[u]) + 1] = s
      BY <2>2, AcceptDoes
    <3>2. \A i \in DOMAIN broker'[u] : i # Len(broker'[u]) => broker'[u][i] = "rejected"
      BY <1>3, <3>1 DEF Clear
    <3>3. verdict'[p] = "filled" => Filled(u)'
      BY <2>2, <3>1 DEF Filled
    <3> QED BY <1>7, <2>2, <3>2, <3>3 DEF BackedAt
  <2> QED BY <1>4, <2>1, <2>2
<1> QED BY <1>2, <1>3, <1>5, <1>6, <1>7, <1>8, OwnBacked

LEMMA InsertBacked ==
  ASSUME TypeInv, BackedOK, NEW p \in Pass, PassStep(p), PassInsert(p) PROVE BackedOK'
<1>1. PICK u \in Order :
        LET s == IF verdict[p] = "filled" THEN "filled" ELSE "submitted"
            n == Len(row[u]) + 1
        IN /\ cur[p] = u /\ Owns(p, u) /\ at[p] = "insert" /\ UNCHANGED <<task, broker, lost>>
           /\ UNCHANGED <<phase, todo, cur, verdict, tries>>
           /\ at'[p] = CASE verdict[p] = "filled" -> "fill"
                         [] verdict[p] = "open" -> "task"
                         [] OTHER -> "refuse"
           /\ \A o \in Order \ {u} : row'[o] = row[o]
           /\ Len(row[u]) \in Nat /\ Len(row'[u]) = n /\ row'[u] # <<>>
           /\ DOMAIN row[u] = 1 .. Len(row[u]) /\ DOMAIN row'[u] = 1 .. n
           /\ \A j \in DOMAIN row[u] : row'[u][j] = row[u][j]
           /\ row'[u][n].id = Len(broker[u]) /\ row'[u][n].status = s
  BY InsertDoes
<1>2. BackedAt(p, u) /\ phase[p] = "due" /\ task[u] \notin Unsent
  BY <1>1 DEF BackedOK, Owns, TypeInv, OwnOK, Unsent, Cancellable
<1>3. CASE row[u] # <<>>
  <2>1. 1 \in DOMAIN row[u] /\ row'[u][1] = row[u][1]
    BY <1>1, <1>3, IdsKnown
  <2>2. Marked(u)'
    BY <1>1, <1>2, <1>3, <2>1 DEF BackedAt, Marked
  <2>3. BackedAt(p, u)'
    BY <1>1, <1>2, <2>2 DEF BackedAt, Filled
  <2> QED BY <1>1, <1>2, <2>2, <2>3, OwnBacked DEF Owns
<1>4. CASE row[u] = <<>>
  <2>1. Len(row[u]) = 0
    BY <1>4
  <2>2. row'[u][1].id = Len(broker[u]) /\ Len(row'[u]) = 1
    BY <1>1, <2>1
  <2>3. OnlyFirst(u)'
    BY <1>1, <1>2, <2>2 DEF OnlyFirst, BackedAt
  <2>4. BackedAt(p, u)'
    BY <1>1, <1>2, <2>2 DEF BackedAt, Filled
  <2> QED BY <1>1, <1>2, <2>3, <2>4, OwnBacked DEF Owns
<1> QED BY <1>3, <1>4

LEMMA RefuseBacked ==
  ASSUME TypeInv, BackedOK, NEW p \in Pass, PassStep(p), PassRefuse(p) PROVE BackedOK'
<1>1. PICK u \in Order : cur[p] = u
  BY DEF PassRefuse, TypeInv, PassOK, OwnPlace
<1>2. /\ at[p] = "refuse" /\ at'[p] = "task" /\ phase[p] = "due"
      /\ UNCHANGED <<phase, cur, verdict, task, broker>>
  BY DEF PassRefuse, Goto, TypeInv, TypeOK, PassOK, OwnPlace
<1>3. Owns(p, u) /\ BackedAt(p, u) /\ task[u] \notin Unsent
  BY <1>1, <1>2 DEF Owns, BackedOK, TypeInv, OwnOK, Unsent, Cancellable
<1>4. row[u] # <<>> /\ (Marked(u) \/ Len(row[u]) = 1)
  BY <1>2, <1>3 DEF BackedAt
<1>5. Len(row[u]) \in DOMAIN row[u] /\ 1 \in DOMAIN row[u]
  BY <1>4, IdsKnown
<1>6. row' = [row EXCEPT ![u][Len(row[u])].status = "rejected"]
  BY <1>1 DEF PassRefuse
<1>7. /\ \A o \in Order \ {u} : row'[o] = row[o]
      /\ \A j \in DOMAIN row[u] :
           row'[u][j].status = IF j = Len(row[u]) THEN "rejected" ELSE row[u][j].status
  BY <1>5, <1>6, StatusDoes
<1>8. Marked(u)'
  BY <1>4, <1>5, <1>7 DEF Marked
<1>9. BackedAt(p, u)'
  <2>1. verdict[p] = "filled" => Filled(u)
    BY <1>2, <1>3 DEF BackedAt
  <2> QED BY <1>2, <1>8, <2>1 DEF BackedAt, Filled
<1> QED BY <1>1, <1>2, <1>3, <1>7, <1>8, <1>9, OwnBacked DEF Owns

LEMMA RowBacked ==
  ASSUME TypeInv, PollOK, BackedOK, NEW p \in Pass, PassStep(p), PassRow(p) PROVE BackedOK'
<1>1. PICK u \in Order : cur[p] = u
  BY DEF PassRow, TypeInv, PassOK, OwnPlace
<1>2. /\ at[p] = "row" /\ at'[p] = "task" /\ phase[p] = "poll"
      /\ UNCHANGED <<phase, cur, verdict, task, broker>>
  BY DEF PassRow, Goto, TypeInv, TypeOK, PassOK, OwnPlace
<1>3. Asking(p, u) /\ Polls(p, u) /\ row[u] # <<>>
  BY <1>1, <1>2 DEF Asking, Polls, PollOK, PollAt
<1>4. PICK s \in {"filled", "rejected", "cancelled"} : row' = [row EXCEPT ![u][1].status = s]
  BY <1>1 DEF PassRow
<1>5. 1 \in DOMAIN row[u] /\ s \in {"submitted", "filled", "rejected", "cancelled"}
  BY <1>3, <1>4, IdsKnown
<1>6. /\ \A o \in Order \ {u} : row'[o] = row[o]
      /\ row'[u] # <<>>
      /\ \A j \in DOMAIN row[u] : /\ row'[u][j].id = row[u][j].id
                                  /\ row'[u][j].status = IF j = 1 THEN s ELSE row[u][j].status
  BY <1>4, <1>5, StatusDoes
<1>7. Marked(u)' /\ (OnlyFirst(u)' <=> OnlyFirst(u))
  BY <1>2, <1>3, <1>4, <1>5, <1>6 DEF Marked, OnlyFirst
<1>8. ASSUME NEW q \in Pass, NEW o \in Order
      PROVE  /\ Owns(q, o)' => q # p /\ Owns(q, o) /\ o # u
             /\ Asking(q, o)' => Asking(q, o)
  <2>1. CASE q = p
    BY <1>2, <2>1 DEF Owns, Asking
  <2>2. CASE q # p
    <3>1. ~Owns(q, u)
      BY <1>3 DEF TypeInv, OwnOK
    <3> QED BY <2>2, <3>1, OthersWait
  <2> QED BY <2>1, <2>2
<1>9. ASSUME NEW o \in Order, o # u
      PROVE  Turned(o) /\ (Marked(o)' <=> Marked(o)) /\ (OnlyFirst(o)' <=> OnlyFirst(o))
  BY <1>2, <1>6, <1>9, SameTurned DEF Marked, OnlyFirst
<1>10. ASSUME NEW q \in Pass, NEW o \in Order
       PROVE  (Owns(q, o)' => BackedAt(q, o)') /\ (Asking(q, o)' => OnlyFirst(o)')
  <2>1. ASSUME Owns(q, o)' PROVE BackedAt(q, o)'
    <3>1. q # p /\ Owns(q, o) /\ o # u
      BY <1>8, <2>1
    <3>2. BackedAt(q, o) /\ Turned(o) /\ row'[o] = row[o] /\ at'[q] = at[q] /\ verdict'[q] = verdict[q]
      BY <1>6, <1>9, <3>1, OthersWait DEF BackedOK
    <3> QED BY <3>2, TurnedBacked
  <2> QED BY <1>7, <1>8, <1>9, <2>1 DEF BackedOK
<1> QED BY <1>2, <1>7, <1>9, <1>10 DEF BackedOK

LEMMA TaskBacked ==
  ASSUME TypeInv, BackedOK, NEW p \in Pass, PassStep(p), PassTask(p) PROVE BackedOK'
<1>1. PICK u \in Order :
        /\ cur[p] = u /\ at[p] = "task" /\ at'[p] = "life" /\ phase[p] \in {"expire", "poll", "due"}
        /\ UNCHANGED <<phase, todo, cur, verdict, tries, row, broker, lost>>
        /\ \A o \in Order \ {u} : task'[o] = task[o] /\ retries'[o] = retries[o]
        /\ phase[p] = "due" =>
             /\ verdict[p] \in {"filled", "open", "paused", "blocked", "retry", "giveUp"}
             /\ task' = [task EXCEPT ![u] = TaskOf[verdict[p]]]
             /\ retries'[u] = IF verdict[p] \in {"retry", "giveUp"} THEN retries[u] + 1
                                                                   ELSE retries[u]
        /\ phase[p] = "poll" =>
             /\ verdict[p] \in {"filled", "refused", "dropped"}
             /\ task' = [task EXCEPT ![u] = TaskOf[verdict[p]]] /\ UNCHANGED retries
        /\ phase[p] = "expire" =>
             /\ \/ UNCHANGED task
                \/ task[u] = "awaiting_review" /\ task' = [task EXCEPT ![u] = "rejected"]
             /\ UNCHANGED retries
  BY TaskDoes
<1>2. CASE phase[p] = "due"
  <2>1. Owns(p, u)
    BY <1>1, <1>2 DEF Owns
  <2>2. BackedAt(p, u) /\ (Marked(u)' <=> Marked(u)) /\ (OnlyFirst(u)' <=> OnlyFirst(u))
    BY <1>1, <2>1 DEF BackedOK, Marked, OnlyFirst
  <2>3. task'[u] \in Unsent => verdict[p] \notin {"filled", "open"}
    BY <1>1, <1>2 DEF TypeInv, TypeOK, TaskOf, Unsent, Cancellable
  <2>4. task'[u] \in Unsent => Marked(u)'
    BY <1>1, <2>2, <2>3 DEF BackedAt
  <2>5. \A o \in Order : ~Owns(p, o)'
    BY <1>1 DEF Owns
  <2>6. ~Marked(u)' => OnlyFirst(u)'
    BY <2>2 DEF BackedOK
  <2> QED BY <1>1, <1>2, <2>1, <2>4, <2>5, <2>6, OwnBacked
<1>3. CASE phase[p] # "due"
  <2>1. \A o \in Order : task'[o] \in Unsent => task[o] \in Unsent
    BY <1>1, <1>3 DEF TypeInv, TypeOK, TaskOf, Unsent, Cancellable
  <2>2. ASSUME NEW q \in Pass, NEW o \in Order
        PROVE  /\ Owns(q, o)' => Owns(q, o) /\ at'[q] = at[q] /\ verdict'[q] = verdict[q]
               /\ Asking(q, o)' => Asking(q, o)
    <3>1. CASE q = p
      BY <1>1, <3>1 DEF Owns, Asking
    <3>2. CASE q # p
      BY <3>2, OthersWait
    <3> QED BY <3>1, <3>2
  <2> QED BY <1>1, <2>1, <2>2, SameTurned, BackedKept
<1> QED BY <1>2, <1>3

LEMMA AcquireBacked ==
  ASSUME TypeInv, BackedOK, NEW p \in Pass, PassStep(p), NEW u \in Order, PassAcquire(p, u)
  PROVE  BackedOK'
<1>1. /\ phase[p] = "due" /\ UNCHANGED <<phase, row, broker>> /\ cur'[p] = u
      /\ \/ UNCHANGED <<task, at>> /\ at[p] = "next"
         \/ task[u] = "pending" /\ task' = [task EXCEPT ![u] = "dispatching"] /\ at'[p] = "mark"
  BY DEF PassAcquire, Take, Goto, WriteTask, TypeInv, TypeOK
<1>2. CASE UNCHANGED <<task, at>> /\ at[p] = "next"
  BY <1>1, <1>2, QuietBacked DEF Owns, Asking
<1>3. CASE task[u] = "pending" /\ task' = [task EXCEPT ![u] = "dispatching"] /\ at'[p] = "mark"
  <2>1. Marked(u) /\ Marked(u)'
    BY <1>1, <1>3 DEF BackedOK, Unsent, Cancellable, Marked
  <2>2. BackedAt(p, u)'
    BY <1>3, <2>1 DEF BackedAt
  <2>3. \A o \in Order \ {u} : task'[o] = task[o] /\ ~Owns(p, o)'
    BY <1>1, <1>3 DEF Owns
  <2> QED BY <1>1, <1>3, <2>1, <2>2, <2>3, OwnBacked
<1> QED BY <1>1, <1>2, <1>3

LEMMA GateBacked ==
  ASSUME TypeInv, LiveOK, BackedOK, NEW p \in Pass, PassStep(p), PassGate(p) PROVE BackedOK'
<1>1. PICK u \in Order : cur[p] = u
  BY DEF PassGate, TypeInv, PassOK, OwnPlace
<1>2. /\ at[p] = "gate" /\ phase[p] = "due" /\ UNCHANGED <<phase, cur, task, row, broker>>
  BY DEF PassGate, TypeInv, PassOK, OwnPlace, db
<1>3. Owns(p, u) /\ BackedAt(p, u) /\ Clear(u)
  BY <1>1, <1>2 DEF Owns, Unplaced, LiveOK, BackedOK
<1>4. \/ at'[p] = "task" /\ verdict'[p] # "filled"
      \/ at'[p] = "insert" /\ u \in Paper
      \/ at'[p] = "submit" /\ u \notin Paper
  <2>1. \/ \E v \in {"paused", "blocked", Failure(u)} : Decide(p, v, "task")
        \/ u \in Paper /\ Decide(p, "filled", "insert")
        \/ u \notin Paper /\ Goto(p, "submit")
    BY <1>1 DEF PassGate
  <2>2. \A v \in {"paused", "blocked", Failure(u)} : v # "filled"
    BY FailureIs
  <2> QED BY <2>1, <2>2 DEF Decide, Goto, TypeInv, TypeOK
<1>5. BackedAt(p, u)'
  BY <1>2, <1>3, <1>4 DEF BackedAt, Filled, Clear, Marked
<1>6. \A o \in Order : (Owns(p, o)' => o = u) /\ ~Asking(p, o)'
  BY <1>1, <1>2 DEF Owns, Asking
<1> QED BY <1>2, <1>5, <1>6, QuietBacked

LEMMA PassBacked ==
  ASSUME MaxLost = 0, NoneLost, FinalInv, LiveOK, BackedOK, NEW p \in Pass, PassBegin(p) \/ PassStep(p)
  PROVE  BackedOK'
<1> USE DEF FinalInv, TypeInv, TypeOK, PassOK, OwnPlace, Goto, Decide, Take, db
<1> DEFINE Less == /\ UNCHANGED <<task, row, broker>>
                   /\ \A o \in Order : ~Owns(p, o)' /\ (Asking(p, o)' => Asking(p, o))
<1>b. SUFFICES ASSUME ~Less PROVE BackedOK'
  BY QuietBacked DEF BackedOK
<1>0. CASE PassBegin(p)
  BY <1>0, <1>b DEF PassBegin, PassStart, Owns, Asking
<1>c. SUFFICES ASSUME PassStep(p) PROVE BackedOK'
  BY <1>0
<1>1. CASE PassScan(p)
  BY <1>1, <1>b DEF PassScan, Owns, Asking
<1>2. CASE PassNextSweep(p)
  BY <1>2, <1>b DEF PassNextSweep, Owns, Asking
<1>3. CASE PassAsk(p)
  <2>1. /\ phase[p] = "poll" /\ at[p] = "ask" /\ UNCHANGED <<phase, cur, task, row, broker>>
    BY <1>3 DEF PassAsk
  <2> QED BY <1>b, <2>1 DEF Owns, Asking
<1>4. CASE PassAskFails(p)
  BY <1>4, <1>b DEF PassAskFails, Owns, Asking
<1>5. CASE PassFill(p)
  <2>1. PICK u \in Order : cur[p] = u
    BY <1>5 DEF PassFill
  <2>2. /\ at[p] = "fill" /\ verdict[p] = "filled" /\ UNCHANGED <<phase, cur, verdict, task, row, broker>>
        /\ at'[p] = IF phase[p] = "poll" THEN "row" ELSE "task"
    BY <1>5 DEF PassFill
  <2> HIDE DEF TypeInv, TypeOK, PassOK, OwnPlace
  <2>3. ASSUME NEW o \in Order PROVE (Owns(p, o)' => BackedAt(p, o)') /\ (Asking(p, o)' => OnlyFirst(o))
    <3>1. Owns(p, o)' => Owns(p, o)
      BY <2>2 DEF Owns
    <3>2. Owns(p, o)' => at'[p] = "task"
      BY <2>2 DEF Owns
    <3>3. Owns(p, o)' => Filled(o)'
      BY <2>2, <3>1 DEF BackedOK, BackedAt, Filled
    <3>4. Asking(p, o)' => Asking(p, o)
      BY <2>2 DEF Asking
    <3> QED BY <2>2, <3>2, <3>3, <3>4 DEF BackedAt, BackedOK
  <2> QED BY <1>c, <2>2, <2>3, QuietBacked
<1>6. CASE PassRow(p)
  <2> HIDE DEF TypeInv, TypeOK, PassOK, OwnPlace
  <2> QED BY <1>6, <1>c, RowBacked
<1>7. CASE PassMark(p)
  <2>1. /\ at[p] = "mark" /\ at'[p] = "gate" /\ UNCHANGED <<phase, cur, task, row, broker>>
        /\ phase[p] = "due"
    BY <1>7 DEF PassMark
  <2> HIDE DEF TypeInv, TypeOK, PassOK, OwnPlace
  <2>2. ASSUME NEW o \in Order PROVE (Owns(p, o)' => BackedAt(p, o)') /\ ~Asking(p, o)'
    <3>1. Owns(p, o)' => Owns(p, o)
      BY <2>1 DEF Owns
    <3> QED BY <2>1, <3>1 DEF BackedOK, BackedAt, Marked, Asking
  <2> QED BY <1>c, <2>1, <2>2, QuietBacked
<1>8. CASE PassGate(p)
  <2> HIDE DEF TypeInv, TypeOK, PassOK, OwnPlace
  <2> QED BY <1>8, <1>c, GateBacked
<1>9. CASE PassSubmit(p)
  <2> HIDE DEF TypeInv, TypeOK, PassOK, OwnPlace
  <2> QED BY <1>9, <1>c, SubmitBacked
<1>10. CASE PassInsert(p)
  <2> HIDE DEF TypeInv, TypeOK, PassOK, OwnPlace
  <2> QED BY <1>10, <1>c, InsertBacked
<1>11. CASE PassRefuse(p)
  <2> HIDE DEF TypeInv, TypeOK, PassOK, OwnPlace
  <2> QED BY <1>11, <1>c, RefuseBacked
<1>12. CASE PassTask(p)
  <2> HIDE DEF TypeInv, TypeOK, PassOK, OwnPlace
  <2> QED BY <1>12, <1>c, TaskBacked
<1>13. CASE PassLife(p)
  BY <1>13, <1>b DEF PassLife, Owns, Asking
<1>14. ASSUME NEW u \in Order, PassExpire(p, u) PROVE BackedOK'
  BY <1>14, <1>b DEF PassExpire, Owns, Asking
<1>15. ASSUME NEW u \in Order, PassPoll(p, u) PROVE BackedOK'
  <2>1. /\ phase[p] = "poll" /\ cur'[p] = u /\ UNCHANGED <<phase, task, row, broker>>
        /\ at'[p] = IF row[u] # <<>> /\ Head(row[u]).status = "submitted" THEN "ask" ELSE "next"
    BY <1>15 DEF PassPoll
  <2>2. at'[p] = "ask" => ~Marked(u)
    BY <2>1, IdsKnown DEF Marked
  <2> HIDE DEF TypeInv, TypeOK, PassOK, OwnPlace
  <2>3. ASSUME NEW o \in Order PROVE ~Owns(p, o)' /\ (Asking(p, o)' => OnlyFirst(o))
    <3>1. Asking(p, o)' => o = u /\ at'[p] = "ask"
      BY <2>1 DEF Asking
    <3> QED BY <2>1, <2>2, <3>1 DEF Owns, BackedOK
  <2> QED BY <1>c, <2>1, <2>3, QuietBacked
<1>16. ASSUME NEW u \in Order, PassAcquire(p, u) PROVE BackedOK'
  <2> HIDE DEF TypeInv, TypeOK, PassOK, OwnPlace
  <2> QED BY <1>16, <1>c, AcquireBacked
<1> QED
  BY <1>c, <1>1, <1>2, <1>3, <1>4, <1>5, <1>6, <1>7, <1>8, <1>9, <1>10, <1>11, <1>12, <1>13,
     <1>14, <1>15, <1>16 DEF PassStep

ServiceInv == NoneLost /\ FinalInv /\ LiveOK /\ BackedOK

LEMMA InitService == Init => ServiceInv
<1>1. Init => BackedOK
  BY DEF Init, BackedOK, Owns, Asking, Marked
<1> QED BY <1>1, InitFinal, InitLive DEF ServiceInv

LEMMA NextBacked ==
  ASSUME MaxLost = 0, CanCancel = {}, ServiceInv, [Next]_vars PROVE BackedOK'
<1> USE DEF ServiceInv, FinalInv
<1>1. CASE UNCHANGED vars
  BY <1>1, OutsideBacked, SameTurned DEF vars, db
<1>2. ASSUME NEW o \in Order, CreateStep(o) \/ RetryDue(o) \/ \E a \in Act : ReviewStep(o, a)
      PROVE  BackedOK'
  <2>1. \A u \in Order : task'[u] \in Unsent => task[u] \in Unsent
    BY <1>2, RequestDoes DEF TypeInv, TypeOK, Unsent, Cancellable
  <2> QED BY <1>2, <2>1, RequestDoes, OutsideBacked, SameTurned
<1>3. CASE PauseStep
  <2>1. \A u \in Order : task'[u] \in Unsent => task[u] \in Unsent
    BY <1>3, PauseDoes DEF TypeInv, TypeOK, Unsent, Cancellable
  <2> QED BY <1>3, <2>1, PauseDoes, OutsideBacked, SameTurned
<1>4. ASSUME NEW o \in Order, NEW i \in DOMAIN broker[o], BrokerMove(o, i) PROVE BackedOK'
  BY <1>4, MoveDoes, MoveTurns, OutsideBacked
<1>5. CASE Crash
  <2>1. /\ UNCHANGED <<task, row, broker>>
        /\ \A p \in Pass, o \in Order : ~Owns(p, o)' /\ ~Asking(p, o)'
    BY <1>5 DEF Crash, db, Owns, Asking
  <2> QED BY <2>1, BackedKept, SameTurned
<1> QED BY <1>1, <1>2, <1>3, <1>4, <1>5, CancelIdle, PassBacked DEF Next

LEMMA NextService ==
  ASSUME MaxLost = 0, CanCancel = {} PROVE ServiceInv /\ [Next]_vars => ServiceInv'
<1>1. ServiceInv /\ [Next]_vars => NoneLost' /\ FinalInv' /\ LiveOK'
  BY NextLost, NextFinal, NextLive DEF ServiceInv, FinalInv
<1> QED BY <1>1, NextBacked DEF ServiceInv

-----------------------------------------------------------------------------
(* The service.  Each step moves the task of one order, or what its broker  *)
(* holds, as the service allows, or neither.                                *)

LEMMA PlacedIs == ASSUME NEW o \in Order PROVE Placed(o) <=> ~Clear(o)
BY DEF Placed, Clear

LEMMA SamePlaced ==
  ASSUME \A o \in Order : broker'[o] = broker[o]
  PROVE  /\ [o \in Order |-> Placed(o)]' = [o \in Order |-> Placed(o)]
         /\ \A o \in Order : Placed(o)' <=> Placed(o)
<1>1. \A o \in Order : Placed(o)' <=> Placed(o)
  BY DEF Placed
<1>2. \A o \in Order : Placed(o)' = Placed(o)
  BY DEF Placed
<1> QED BY <1>1, <1>2

LEMMA Stutters ==
  ASSUME UNCHANGED task, \A o \in Order : broker'[o] = broker[o] PROVE UNCHANGED Service!vars
BY SamePlaced DEF Service!vars

(* The step of one task, while the brokers stand still.                     *)
LEMMA TaskStep ==
  ASSUME TypeInv, UNCHANGED broker, NEW o \in Order, NEW s, task' = [task EXCEPT ![o] = s],
         \/ task[o] = "none" /\ s \in {"awaiting_review", "pending", "rejected"}
         \/ task[o] = "awaiting_review" /\ s \in {"pending", "rejected"}
         \/ task[o] = "pending" /\ s = "dispatching"
         \/ ~Placed(o) /\ task[o] = "dispatching" /\ s \in {"pending", "failed", "rejected", "cancelled"}
         \/ ~Placed(o) /\ task[o] \in Cancellable /\ s = "cancelled"
         \/ ~Placed(o) /\ task[o] = "waiting_ack" /\ s = "failed"
         \/ task[o] = "dispatching" /\ s = "waiting_ack"
         \/ Placed(o) /\ task[o] = "waiting_ack" /\ s \in {"filled", "cancelled"}
         \/ (Placed(o) \/ o \in Paper) /\ task[o] = "dispatching" /\ s = "filled"
  PROVE  Service!Next
<1>1. [u \in Order |-> Placed(u)]' = [u \in Order |-> Placed(u)]
  BY SamePlaced
<1>2. [u \in Order |-> Placed(u)][o] <=> Placed(o)
  OBVIOUS
<1>3. Service!Submit(o) \/ Service!Decide(o) \/ Service!Work(o) \/ Service!Return(o) \/ Service!Report(o)
  BY <1>2 DEF Service!Submit, Service!Decide, Service!Work, Service!Return, Service!Report,
     Service!Move, Cancellable
<1> QED BY <1>1, <1>3 DEF Service!Next

(* The broker takes an order or lets one go, while the tasks stand still.   *)
LEMMA BrokerStep ==
  ASSUME TypeInv, UNCHANGED task, NEW o \in Order, \A u \in Order \ {o} : broker'[u] = broker[u],
         \/ Placed(o)' <=> Placed(o)
         \/ Placed(o)
         \/ o \notin Paper /\ task[o] = "dispatching"
  PROVE  [Service!Next]_Service!vars
<1>1. \A u \in Order \ {o} : Placed(u)' = Placed(u)
  BY DEF Placed
<1>2. Placed(o) \in BOOLEAN /\ Placed(o)' \in BOOLEAN
  BY DEF Placed
<1>3. CASE Placed(o)' <=> Placed(o)
  <2>1. \A u \in Order : Placed(u)' = Placed(u)
    BY <1>1, <1>2, <1>3
  <2> QED BY <2>1 DEF Service!vars
<1>4. CASE Placed(o) /\ ~Placed(o)'
  <2>1. [u \in Order |-> Placed(u)]' = [[u \in Order |-> Placed(u)] EXCEPT ![o] = FALSE]
    BY <1>1, <1>2, <1>4
  <2> QED BY <1>4, <2>1 DEF Service!Refuse, Service!Next
<1>5. CASE ~Placed(o) /\ Placed(o)' /\ o \notin Paper /\ task[o] = "dispatching"
  <2>1. [u \in Order |-> Placed(u)]' = [[u \in Order |-> Placed(u)] EXCEPT ![o] = TRUE]
    BY <1>1, <1>2, <1>5
  <2> QED BY <1>5, <2>1 DEF Service!Place, Service!Next
<1> QED BY <1>3, <1>4, <1>5

LEMMA InitServed == Init => Service!Init
BY DEF Init, Placed, Service!Init

LEMMA TaskServed ==
  ASSUME CanCancel = {}, ServiceInv, [Next]_vars, NEW p \in Pass, PassStep(p), PassTask(p)
  PROVE  [Service!Next]_Service!vars
<1> USE DEF ServiceInv, FinalInv
<1>1. PICK u \in Order :
        /\ cur[p] = u /\ at[p] = "task" /\ at'[p] = "life" /\ phase[p] \in {"expire", "poll", "due"}
        /\ UNCHANGED <<phase, todo, cur, verdict, tries, row, broker, lost>>
        /\ \A o \in Order \ {u} : task'[o] = task[o] /\ retries'[o] = retries[o]
        /\ phase[p] = "due" =>
             /\ verdict[p] \in {"filled", "open", "paused", "blocked", "retry", "giveUp"}
             /\ task' = [task EXCEPT ![u] = TaskOf[verdict[p]]]
             /\ retries'[u] = IF verdict[p] \in {"retry", "giveUp"} THEN retries[u] + 1
                                                                   ELSE retries[u]
        /\ phase[p] = "poll" =>
             /\ verdict[p] \in {"filled", "refused", "dropped"}
             /\ task' = [task EXCEPT ![u] = TaskOf[verdict[p]]] /\ UNCHANGED retries
        /\ phase[p] = "expire" =>
             /\ \/ UNCHANGED task
                \/ task[u] = "awaiting_review" /\ task' = [task EXCEPT ![u] = "rejected"]
             /\ UNCHANGED retries
  BY TaskDoes
<1>2. CASE phase[p] = "due"
  <2>1. Owns(p, u)
    BY <1>1, <1>2 DEF Owns
  <2>2. task[u] = "dispatching" /\ BackedAt(p, u)
    BY <2>1 DEF TypeInv, OwnOK, Uncancelled, BackedOK
  <2>3. CASE verdict[p] = "filled"
    <3>1. Placed(u) \/ u \in Paper
      BY <1>1, <2>2, <2>3 DEF BackedAt, Filled, Placed
    <3>2. task' = [task EXCEPT ![u] = "filled"]
      BY <1>1, <1>2, <2>3 DEF TaskOf
    <3> QED BY <1>1, <2>2, <3>1, <3>2, TaskStep
  <2>4. CASE verdict[p] = "open"
    <3>1. task' = [task EXCEPT ![u] = "waiting_ack"]
      BY <1>1, <1>2, <2>4 DEF TaskOf
    <3> QED BY <1>1, <2>2, <3>1, TaskStep
  <2>5. CASE verdict[p] \in {"paused", "blocked", "retry", "giveUp"}
    <3>1. ~Placed(u)
      BY <1>1, <2>1, <2>5, PlacedIs DEF LiveOK, Unplaced
    <3>2. TaskOf[verdict[p]] \in {"pending", "failed", "rejected", "cancelled"}
      BY <2>5 DEF TaskOf
    <3> QED BY <1>1, <1>2, <2>2, <3>1, <3>2, TaskStep
  <2> QED BY <1>1, <1>2, <2>3, <2>4, <2>5
<1>3. CASE phase[p] = "poll"
  <2>1. Asking(p, u) /\ Polls(p, u)
    BY <1>1, <1>3 DEF Asking, Polls
  <2>2. /\ row[u] # <<>> /\ Told(u) \in DOMAIN Word /\ verdict[p] = Word[Told(u)]
    BY <1>1, <2>1 DEF PollOK, PollAt
  <2>3. OnlyFirst(u) /\ u \notin Paper /\ row[u][1].id \in DOMAIN broker[u]
    BY <2>1, <2>2, IdsKnown DEF BackedOK, IdOK, Paper
  <2>4. CASE task[u] \in Final
    <3>1. UNCHANGED task
      BY <1>1, <1>3, <2>4, FinalStep DEF TypeInv, TypeOK
    <3> QED BY <1>1, <3>1, Stutters
  <2>5. CASE task[u] = "waiting_ack"
    <3>1. Told(u) = "rejected" => ~Placed(u)
      BY <2>3 DEF OnlyFirst, Placed, Told
    <3>2. Told(u) # "rejected" => Placed(u)
      BY <2>3 DEF Placed, Told
    <3>3. /\ Told(u) = "filled" => TaskOf[verdict[p]] = "filled"
          /\ Told(u) = "rejected" => TaskOf[verdict[p]] = "failed"
          /\ Told(u) = "cancelled" => TaskOf[verdict[p]] = "cancelled"
      BY <2>2 DEF Word, TaskOf
    <3>4. Told(u) \in {"filled", "rejected", "cancelled"}
      BY <2>2 DEF Word
    <3> QED BY <1>1, <1>3, <2>5, <3>1, <3>2, <3>3, <3>4, TaskStep
  <2> QED BY <2>1, <2>4, <2>5 DEF TypeInv, OwnOK
<1>4. CASE phase[p] = "expire"
  <2>1. CASE UNCHANGED task
    BY <1>1, <2>1, Stutters
  <2>2. CASE task[u] = "awaiting_review" /\ task' = [task EXCEPT ![u] = "rejected"]
    BY <1>1, <2>2, TaskStep
  <2> QED BY <1>1, <1>4, <2>1, <2>2
<1> QED BY <1>1, <1>2, <1>3, <1>4

LEMMA SubmitServed ==
  ASSUME ServiceInv, NEW p \in Pass, PassStep(p), PassSubmit(p) PROVE [Service!Next]_Service!vars
<1> USE DEF ServiceInv, FinalInv
<1>1. PICK u \in Order : cur[p] = u
  BY DEF PassSubmit, TypeInv, PassOK, OwnPlace
<1>2. at[p] = "submit" /\ phase[p] = "due" /\ UNCHANGED task
  BY SubmitDoes DEF PassSubmit, TypeInv, PassOK, OwnPlace, db
<1>3. Owns(p, u)
  BY <1>1, <1>2 DEF Owns
<1>4. task[u] = "dispatching" /\ u \notin Paper
  BY <1>2, <1>3 DEF TypeInv, OwnOK, Uncancelled, BackedOK, BackedAt
<1>5. \A o \in Order \ {u} : broker'[o] = broker[o]
  <2>1. UNCHANGED broker \/ \E s \in Held : Accept(u, s)
    BY <1>1, SubmitDoes
  <2> QED BY <2>1, AcceptDoes
<1> QED BY <1>2, <1>4, <1>5, BrokerStep

LEMMA StepServed ==
  ASSUME CanCancel = {}, ServiceInv, [Next]_vars PROVE [Service!Next]_Service!vars
<1> USE DEF ServiceInv, FinalInv
<1>1. CASE UNCHANGED vars
  BY <1>1, Stutters DEF vars, db
<1>2. ASSUME NEW o \in Order, CreateStep(o) \/ RetryDue(o) \/ \E a \in Act : ReviewStep(o, a)
      PROVE  [Service!Next]_Service!vars
  <2>1. UNCHANGED broker
    BY <1>2, RequestDoes
  <2>2. CASE UNCHANGED task
    BY <2>1, <2>2, Stutters
  <2>3. ASSUME NEW s \in {"awaiting_review", "pending", "rejected"}, task[o] = "none",
               task' = [task EXCEPT ![o] = s]
        PROVE  Service!Next
    BY <2>1, <2>3, TaskStep
  <2>4. ASSUME NEW s \in {"pending", "rejected"}, task[o] = "awaiting_review",
               task' = [task EXCEPT ![o] = s]
        PROVE  Service!Next
    BY <2>1, <2>4, TaskStep
  <2> QED BY <1>2, <2>2, <2>3, <2>4, RequestDoes
<1>3. CASE PauseStep
  <2>1. UNCHANGED broker
    BY <1>3, PauseDoes
  <2>2. CASE UNCHANGED task
    BY <2>1, <2>2, Stutters
  <2>3. ASSUME NEW o \in Order, task[o] \in Cancellable, task' = [task EXCEPT ![o] = "cancelled"]
        PROVE  Service!Next
    <3>1. ~Placed(o)
      BY <2>3, PlacedIs DEF LiveOK, Unsent
    <3> QED BY <2>1, <2>3, <3>1, TaskStep
  <2> QED BY <1>3, <2>2, <2>3, PauseDoes
<1>4. ASSUME NEW o \in Order, NEW i \in DOMAIN broker[o], BrokerMove(o, i)
      PROVE  [Service!Next]_Service!vars
  <2>1. /\ UNCHANGED task /\ broker[o][i] = "open"
        /\ \A u \in Order : u # o => broker'[u] = broker[u]
    BY <1>4, MoveDoes
  <2>2. Placed(o)
    BY <2>1 DEF Placed
  <2> QED BY <2>1, <2>2, BrokerStep
<1>5. CASE Crash
  BY <1>5, Stutters DEF Crash, db
<1>6. ASSUME NEW p \in Pass, NEW u \in Order, PassAcquire(p, u) PROVE [Service!Next]_Service!vars
  <2>1. /\ UNCHANGED broker
        /\ \/ UNCHANGED task
           \/ task[u] = "pending" /\ task' = [task EXCEPT ![u] = "dispatching"]
    BY <1>6 DEF PassAcquire, WriteTask
  <2>2. CASE UNCHANGED task
    BY <2>1, <2>2, Stutters
  <2>3. CASE task[u] = "pending" /\ task' = [task EXCEPT ![u] = "dispatching"]
    BY <2>1, <2>3, TaskStep
  <2> QED BY <2>1, <2>2, <2>3
<1>7. ASSUME NEW p \in Pass, PassBegin(p) \/ PassStep(p), ~PassTask(p), ~PassSubmit(p),
             \A u \in Order : ~PassAcquire(p, u)
      PROVE  [Service!Next]_Service!vars
  <2>1. UNCHANGED <<task, broker>>
    BY <1>7 DEF PassBegin, PassStart, PassStep, PassScan, PassNextSweep, PassAsk, PassAskFails,
                PassFill, PassRow, PassMark, PassGate, PassInsert, PassRefuse, PassLife, PassExpire,
                PassPoll, db
  <2> QED BY <2>1, Stutters
<1>8. ASSUME NEW p \in Pass, PassBegin(p) \/ PassStep(p) PROVE [Service!Next]_Service!vars
  <2>1. CASE PassStep(p)
    BY <2>1, <1>6, <1>7, TaskServed, SubmitServed
  <2>2. CASE PassBegin(p)
    <3>1. UNCHANGED <<task, broker>>
      BY <2>2 DEF PassBegin, PassStart, db
    <3> QED BY <3>1, Stutters
  <2> QED BY <1>8, <2>1, <2>2
<1> QED BY <1>1, <1>2, <1>3, <1>4, <1>5, <1>8, CancelIdle DEF Next

(* As long as no answer is lost and no user cancels by hand, the passes, the *)
(* reviews, the pauses and the restarts do no more than the service allows:  *)
(* nothing that a broker holds is retried, given up or called off.           *)
THEOREM ServiceImplemented ==
  ASSUME MaxLost = 0, CanCancel = {} PROVE Spec => ImplementsService
<1>1. ServiceInv /\ [Next]_vars => ServiceInv'
  BY NextService
<1>2. ServiceInv /\ [Next]_vars => [Service!Next]_Service!vars
  BY StepServed
<1> QED BY <1>1, <1>2, InitService, InitServed, PTL DEF Spec, ImplementsService, Service!Spec

-----------------------------------------------------------------------------
(* A task is reported filled only with a fill on the books, and at a broker *)
(* with an order that is filled there.                                      *)

(* What a pass that has heard of a fill may rely on, and what it asks with. *)
FilledAt(p, o) ==
  cur[p] = o =>
    /\ at[p] \in {"insert", "fill", "row", "task"} /\ verdict[p] = "filled" => Filled(o)
    /\ at[p] \in {"row", "task"} /\ verdict[p] = "filled" => fills[o] >= 1
    /\ at[p] = "ask" => row[o] # <<>>
    /\ at[p] = "refuse" => verdict[p] # "filled"

FilledOK ==
  \A o \in Order : /\ task[o] = "filled" => Filled(o) /\ fills[o] >= 1
                   /\ \A p \in Pass : FilledAt(p, o)

(* Rows stay, with their numbers, the broker's answers are final, and books *)
(* are only added to.                                                       *)
KeepsRows(o) ==
  \A k \in DOMAIN row[o] : k \in DOMAIN row'[o] /\ row'[o][k].id = row[o][k].id

Answered(o) ==
  \A i \in DOMAIN broker[o] :
    i \in DOMAIN broker'[o] /\ (broker[o][i] # "open" => broker'[o][i] = broker[o][i])

Grows(o) ==
  /\ KeepsRows(o) /\ Answered(o)
  /\ fills[o] \in Nat /\ fills'[o] \in Nat /\ fills'[o] >= fills[o]

LEMMA SameGrows ==
  ASSUME TypeInv, NEW o \in Order, KeepsRows(o), Answered(o), fills'[o] = fills[o] PROVE Grows(o)
BY DEF Grows, TypeInv, TypeOK

LEMMA SameRows == ASSUME NEW o \in Order, row'[o] = row[o] PROVE KeepsRows(o)
BY DEF KeepsRows

LEMMA TurnedAnswered == ASSUME NEW o \in Order, Turned(o) PROVE Answered(o)
BY DEF Turned, Answered

LEMMA GrowsFilled ==
  ASSUME TypeInv, NEW o \in Order, Grows(o)
  PROVE  (Filled(o) => Filled(o)') /\ (row[o] # <<>> => row'[o] # <<>>)
<1>1. Filled(o) => Filled(o)'
  BY DEF Grows, Answered, Filled
<1>2. row[o] # <<>> => 1 \in DOMAIN row[o]
  BY IdsKnown
<1>3. row'[o] = <<>> => DOMAIN row'[o] = {}
  OBVIOUS
<1> QED BY <1>1, <1>2, <1>3 DEF Grows, KeepsRows

LEMMA PassGrows ==
  ASSUME TypeInv, NEW p \in Pass, PassBegin(p) \/ PassStep(p), NEW o \in Order PROVE Grows(o)
<1>1. CASE PassSubmit(p)
  <2>1. PICK u \in Order : cur[p] = u
    BY <1>1 DEF PassSubmit, TypeInv, PassOK, OwnPlace
  <2>2. UNCHANGED <<row, fills>>
    BY <1>1 DEF PassSubmit, db
  <2>3. UNCHANGED broker \/ \E s \in Held : Accept(u, s)
    BY <1>1, <2>1 DEF PassSubmit, Held
  <2>4. Answered(o)
    <3>1. CASE UNCHANGED broker
      BY <3>1 DEF Answered
    <3>2. ASSUME NEW s \in Held, Accept(u, s) PROVE Answered(o)
      <4>1. /\ \A v \in Order \ {u} : broker'[v] = broker[v]
            /\ Len(broker[u]) \in Nat
            /\ DOMAIN broker[u] = 1 .. Len(broker[u]) /\ DOMAIN broker'[u] = 1 .. Len(broker[u]) + 1
            /\ \A j \in DOMAIN broker[u] : broker'[u][j] = broker[u][j]
        BY <3>2, AcceptDoes
      <4> QED BY <4>1 DEF Answered
    <3> QED BY <2>3, <3>1, <3>2
  <2> QED BY <2>2, <2>4, SameRows, SameGrows
<1>2. CASE PassInsert(p)
  <2>1. PICK u \in Order :
          /\ \A v \in Order \ {u} : row'[v] = row[v]
          /\ Len(row[u]) \in Nat
          /\ DOMAIN row[u] = 1 .. Len(row[u]) /\ DOMAIN row'[u] = 1 .. Len(row[u]) + 1
          /\ \A j \in DOMAIN row[u] : row'[u][j] = row[u][j]
    BY <1>2, InsertDoes
  <2>2. UNCHANGED <<fills, broker>>
    BY <1>2 DEF PassInsert
  <2>3. KeepsRows(o)
    BY <2>1 DEF KeepsRows
  <2> QED BY <2>2, <2>3, SameGrows DEF Answered
<1>3. CASE PassFill(p)
  BY <1>3 DEF PassFill, Grows, KeepsRows, Answered, TypeInv, TypeOK
<1>4. CASE PassRow(p) \/ PassRefuse(p)
  <2>1. PICK u \in Order : cur[p] = u
    BY <1>4 DEF PassRow, PassRefuse, TypeInv, PassOK, OwnPlace
  <2>2. UNCHANGED <<fills, broker>>
    BY <1>4 DEF PassRow, PassRefuse
  <2>3. \E k, s : row' = [row EXCEPT ![u][k].status = s]
    <3>1. CASE PassRow(p)
      <4>1. PICK s : row' = [row EXCEPT ![u][1].status = s]
        BY <2>1, <3>1 DEF PassRow
      <4> QED BY <4>1
    <3>2. CASE PassRefuse(p)
      BY <2>1, <3>2 DEF PassRefuse
    <3> QED BY <1>4, <3>1, <3>2
  <2>4. KeepsRows(o)
    BY <2>3, StatusKeepsId DEF KeepsRows
  <2> QED BY <2>2, <2>4, SameGrows DEF Answered
<1>5. CASE UNCHANGED <<broker, row, fills>>
  BY <1>5, SameRows, SameGrows DEF Answered
<1> QED
  BY <1>1, <1>2, <1>3, <1>4, <1>5
     DEF PassBegin, PassStart, PassStep, PassScan, PassNextSweep, PassAsk, PassAskFails, PassMark,
         PassGate, PassTask, PassLife, PassExpire, PassPoll, PassAcquire, db

LEMMA AllGrow == ASSUME TypeInv, [Next]_vars, NEW o \in Order PROVE Grows(o)
<1>1. CASE UNCHANGED <<broker, row, fills>>
  BY <1>1, SameRows, SameGrows DEF Answered
<1>2. ASSUME NEW u \in Order, NEW i \in DOMAIN broker[u], BrokerMove(u, i) PROVE Grows(o)
  <2>1. UNCHANGED <<row, fills>>
    BY <1>2 DEF BrokerMove, db
  <2> QED BY <1>2, <2>1, MoveTurns, TurnedAnswered, SameRows, SameGrows
<1>3. ASSUME NEW u \in Order, CancelStep(u) PROVE Grows(o)
  <2>1. fills' = fills /\ KeepsRows(o)
    BY <1>3, CancelDoes DEF KeepsRows
  <2> QED BY <1>3, <2>1, CancelTurns, TurnedAnswered, SameGrows
<1>4. ASSUME NEW u \in Order, CreateStep(u) \/ RetryDue(u) \/ \E a \in Act : ReviewStep(u, a)
      PROVE  Grows(o)
  BY <1>1, <1>4 DEF CreateStep, CreateIntent, CreateRisk, CreateLife, CreateTicket, CreateTask, RetryDue,
         ReviewStep, ReviewRead, ReviewTicket, ReviewTask, ReviewLife, db
<1>5. CASE PauseStep
  BY <1>1, <1>5 DEF PauseStep, Pause, Resume, PauseScan, PauseCancel, PauseLife, PauseReturn, db
<1> QED BY <1>1, <1>2, <1>3, <1>4, <1>5, PassGrows DEF Next, Crash, vars, db

LEMMA FilledKept ==
  ASSUME FilledOK, TypeInv, [Next]_vars,
         \A o \in Order : task'[o] = "filled" => task[o] = "filled",
         \A p \in Pass, o \in Order :
           \/ FilledAt(p, o)'
           \/ at'[p] = at[p] /\ verdict'[p] = verdict[p] /\ cur'[p] = cur[p]
  PROVE  FilledOK'
<1> SUFFICES ASSUME NEW o \in Order
             PROVE  /\ task'[o] = "filled" => Filled(o)' /\ fills'[o] >= 1
                    /\ \A p \in Pass : FilledAt(p, o)'
  BY DEF FilledOK
<1>1. Grows(o) /\ (Filled(o) => Filled(o)') /\ (row[o] # <<>> => row'[o] # <<>>)
  BY AllGrow, GrowsFilled
<1>2. ASSUME NEW p \in Pass PROVE FilledAt(p, o)'
  <2>1. FilledAt(p, o)
    BY DEF FilledOK
  <2>2. CASE at'[p] = at[p] /\ verdict'[p] = verdict[p] /\ cur'[p] = cur[p]
    BY <1>1, <2>1, <2>2 DEF FilledAt, Grows
  <2> QED BY <2>2
<1> QED BY <1>1, <1>2 DEF FilledOK, Grows

(* The tasks that a pass leaves alone, or does not report filled.           *)
LEMMA StepFilled ==
  ASSUME FilledOK, TypeInv, NEW p \in Pass, PassBegin(p) \/ PassStep(p),
         \A o \in Order : task'[o] = "filled" => task[o] = "filled",
         \A o \in Order : FilledAt(p, o)'
  PROVE  FilledOK'
<1>1. [Next]_vars
  BY DEF Next
<1>2. ASSUME NEW q \in Pass, q # p
      PROVE  at'[q] = at[q] /\ verdict'[q] = verdict[q] /\ cur'[q] = cur[q]
  BY <1>2, OthersStay
<1> QED BY <1>1, <1>2, FilledKept

\* connector.getOrder answers for the first row, whose number it knows.
LEMMA AskFilled ==
  ASSUME FilledOK, TypeInv, IdOK, NEW p \in Pass, PassStep(p), PassAsk(p), NEW o \in Order
  PROVE  FilledAt(p, o)'
<1>1. /\ at[p] = "ask" /\ phase[p] = "poll" /\ UNCHANGED <<cur, row, broker, fills>>
      /\ at'[p] \in {"next", "fill", "row"}
      /\ at'[p] = "row" => verdict'[p] # "filled"
      /\ at'[p] = "fill" => broker[cur[p]][Head(row[cur[p]]).id] = "filled"
  BY DEF PassAsk, Decide, Goto, TypeInv, TypeOK, PassOK, OwnPlace, db
<1>2. CASE cur[p] = o
  <2>1. Polls(p, o)
    BY <1>1, <1>2 DEF Polls
  <2>2. o \in Live /\ o \notin Paper
    BY <2>1 DEF IdOK, Paper
  <2>3. row[o] # <<>>
    BY <1>1, <1>2 DEF FilledOK, FilledAt
  <2>4. Head(row[o]).id \in DOMAIN broker[o]
    BY <2>2, <2>3, IdsKnown DEF IdOK
  <2>5. at'[p] = "fill" => Filled(o)'
    BY <1>1, <1>2, <2>4 DEF Filled
  <2> QED BY <1>1, <2>5 DEF FilledAt
<1>3. CASE cur[p] # o
  BY <1>1, <1>3 DEF FilledAt
<1> QED BY <1>2, <1>3

LEMMA SubmitFilled ==
  ASSUME TypeInv, NEW p \in Pass, PassSubmit(p), NEW o \in Order
  PROVE  FilledAt(p, o)'
<1>1. PICK u \in Order : cur[p] = u
  BY DEF PassSubmit, TypeInv, PassOK, OwnPlace
<1>2. at[p] = "submit" /\ UNCHANGED cur
  BY DEF PassSubmit
<1>3. \/ UNCHANGED <<at, verdict>>
      \/ Accept(u, "filled") /\ Decide(p, "filled", "insert")
      \/ Decide(p, "open", "insert")
      \/ \E to : Decide(p, Failure(u), to)
  BY <1>1 DEF PassSubmit
<1>4. \/ at'[p] = "submit"
      \/ Accept(u, "filled") /\ at'[p] = "insert"
      \/ verdict'[p] # "filled" /\ at'[p] \in {"insert", "task"}
  <2>1. Failure(u) # "filled"
    BY FailureIs
  <2>2. \/ UNCHANGED <<at, verdict>>
        \/ Accept(u, "filled") /\ Decide(p, "filled", "insert")
        \/ Decide(p, "open", "insert")
        \/ Decide(p, Failure(u), "insert") \/ Decide(p, Failure(u), "task")
    BY <1>1 DEF PassSubmit
  <2> QED BY <1>2, <2>1, <2>2 DEF Decide, Goto, TypeInv, TypeOK
<1>5. ASSUME Accept(u, "filled") PROVE Filled(u)'
  <2>1. /\ Len(broker[u]) \in Nat /\ DOMAIN broker'[u] = 1 .. Len(broker[u]) + 1
        /\ broker'[u][Len(broker[u]) + 1] = "filled"
    BY <1>5, AcceptDoes DEF Held
  <2> QED BY <2>1 DEF Filled
<1> QED BY <1>1, <1>2, <1>4, <1>5 DEF FilledAt

LEMMA TaskFilled ==
  ASSUME FilledOK, TypeInv, NEW p \in Pass, PassStep(p), PassTask(p) PROVE FilledOK'
<1>1. PICK u \in Order :
        /\ cur[p] = u /\ at[p] = "task" /\ at'[p] = "life" /\ phase[p] \in {"expire", "poll", "due"}
        /\ \A o \in Order \ {u} : task'[o] = task[o]
        /\ phase[p] = "due" =>
             /\ verdict[p] \in {"filled", "open", "paused", "blocked", "retry", "giveUp"}
             /\ task' = [task EXCEPT ![u] = TaskOf[verdict[p]]]
        /\ phase[p] = "poll" =>
             /\ verdict[p] \in {"filled", "refused", "dropped"}
             /\ task' = [task EXCEPT ![u] = TaskOf[verdict[p]]]
        /\ phase[p] = "expire" =>
             \/ UNCHANGED task
             \/ task[u] = "awaiting_review" /\ task' = [task EXCEPT ![u] = "rejected"]
  BY TaskDoes
<1>2. /\ task'[u] = "filled" => task[u] = "filled" \/ verdict[p] = "filled"
      /\ FilledAt(p, u)
  BY <1>1 DEF TypeInv, TypeOK, TaskOf, FilledOK
<1>3. ASSUME NEW o \in Order PROVE task'[o] = "filled" => Filled(o) /\ fills[o] >= 1
  BY <1>1, <1>2 DEF FilledAt, FilledOK
<1>4. \A o \in Order : Grows(o) /\ (Filled(o) => Filled(o)') /\ (row[o] # <<>> => row'[o] # <<>>)
  BY AllGrow, GrowsFilled DEF Next
<1>5. ASSUME NEW o \in Order, NEW q \in Pass PROVE FilledAt(q, o)'
  <2>1. CASE q = p
    BY <1>1, <2>1 DEF FilledAt
  <2>2. CASE q # p
    <3>1. at'[q] = at[q] /\ verdict'[q] = verdict[q] /\ cur'[q] = cur[q]
      BY <2>2, OthersStay
    <3>2. FilledAt(q, o)
      BY DEF FilledOK
    <3> QED BY <1>4, <3>1, <3>2 DEF FilledAt, Grows
  <2> QED BY <2>1, <2>2
<1> QED BY <1>3, <1>4, <1>5 DEF FilledOK, Grows

LEMMA PassFilled ==
  ASSUME FilledOK, TypeInv, IdOK, NEW p \in Pass, PassBegin(p) \/ PassStep(p) PROVE FilledOK'
<1> DEFINE Same == \A o \in Order : task'[o] = "filled" => task[o] = "filled"
           Knows == \A o \in Order : FilledAt(p, o)'
<1>a. ASSUME Same, Knows PROVE FilledOK'
  BY <1>a, StepFilled
<1> USE DEF TypeInv, TypeOK, PassOK, OwnPlace, Goto, Decide, Take
<1> HIDE DEF Same, Knows
<1>b. ASSUME UNCHANGED task PROVE Same
  BY <1>b DEF Same
<1>c. ASSUME at'[p] \in {"start", "scan", "next", "life", "mark", "gate", "submit"} PROVE Knows
  BY <1>c DEF Knows, FilledAt
<1>0. CASE PassBegin(p)
  BY <1>0, <1>a, <1>b, <1>c DEF PassBegin, PassStart, db
<1>d. SUFFICES ASSUME PassStep(p) PROVE FilledOK'
  BY <1>0
<1>1. CASE PassScan(p) \/ PassNextSweep(p) \/ PassAskFails(p) \/ PassMark(p) \/ PassLife(p)
  BY <1>1, <1>a, <1>b, <1>c DEF PassScan, PassNextSweep, PassAskFails, PassMark, PassLife, db
<1>2. CASE PassAsk(p)
  <2>1. UNCHANGED task
    BY <1>2 DEF PassAsk, db
  <2>2. Knows
    BY <1>2, <1>d, AskFilled DEF Knows
  <2> QED BY <1>a, <1>b, <2>1, <2>2
<1>3. CASE PassFill(p)
  <2>1. /\ at[p] = "fill" /\ at'[p] \in {"row", "task"} /\ UNCHANGED <<task, cur, verdict, row>>
        /\ verdict[p] = "filled" /\ UNCHANGED broker
        /\ \A o \in Order : cur[p] = o => fills'[o] = fills[o] + 1
    BY <1>3 DEF PassFill
  <2>2. \A o \in Order : Filled(o)' <=> Filled(o)
    BY <2>1 DEF Filled
  <2>3. Knows
    BY <2>1, <2>2 DEF Knows, FilledOK, FilledAt
  <2> QED BY <1>a, <1>b, <2>1, <2>3
<1>4. CASE PassRow(p) \/ PassRefuse(p)
  <2>1. /\ at[p] \in {"row", "refuse"} /\ at'[p] = "task" /\ UNCHANGED <<task, cur, verdict, broker, fills>>
    BY <1>4 DEF PassRow, PassRefuse
  <2>2. \A o \in Order : Filled(o)' <=> Filled(o)
    BY <2>1 DEF Filled
  <2>3. Knows
    BY <2>1, <2>2 DEF Knows, FilledOK, FilledAt
  <2> QED BY <1>a, <1>b, <2>1, <2>3
<1>5. CASE PassGate(p)
  <2>1. UNCHANGED <<task, cur>>
    BY <1>5 DEF PassGate, db
  <2>4. \/ at'[p] = "task" /\ verdict'[p] # "filled"
        \/ at'[p] = "insert" /\ cur[p] \in Paper
        \/ at'[p] = "submit"
    <3>1. \/ \E v \in {"paused", "blocked", Failure(cur[p])} : Decide(p, v, "task")
          \/ cur[p] \in Paper /\ Decide(p, "filled", "insert")
          \/ Goto(p, "submit")
      BY <1>5 DEF PassGate
    <3>2. Failure(cur[p]) # "filled"
      BY FailureIs
    <3> QED BY <3>1, <3>2
  <2>2. \A o \in Paper : Filled(o)'
    BY DEF Filled
  <2>3. Knows
    BY <2>1, <2>2, <2>4 DEF Knows, FilledAt
  <2> QED BY <1>a, <1>b, <2>1, <2>3
<1>6. CASE PassSubmit(p)
  <2>1. UNCHANGED task
    BY <1>6 DEF PassSubmit, db
  <2>2. Knows
    BY <1>6, SubmitFilled DEF Knows
  <2> QED BY <1>a, <1>b, <2>1, <2>2
<1>7. CASE PassInsert(p)
  <2>1. /\ at[p] = "insert" /\ UNCHANGED <<task, cur, verdict, broker, fills>>
        /\ at'[p] = CASE verdict[p] = "filled" -> "fill"
                      [] verdict[p] = "open" -> "task"
                      [] OTHER -> "refuse"
    BY <1>7 DEF PassInsert
  <2>2. \A o \in Order : Filled(o)' <=> Filled(o)
    BY <2>1 DEF Filled
  <2>3. Knows
    BY <2>1, <2>2 DEF Knows, FilledOK, FilledAt
  <2> QED BY <1>a, <1>b, <2>1, <2>3
<1>8. CASE PassTask(p)
  <2> HIDE DEF TypeInv, TypeOK, PassOK, OwnPlace
  <2> QED BY <1>8, <1>d, TaskFilled
<1>9. ASSUME NEW u \in Order, PassExpire(p, u) PROVE FilledOK'
  <2>1. at'[p] = "task" /\ verdict'[p] = "expired" /\ UNCHANGED task
    BY <1>9 DEF PassExpire
  <2>2. Knows
    BY <2>1 DEF Knows, FilledAt
  <2> QED BY <1>a, <1>b, <2>1, <2>2
<1>10. ASSUME NEW u \in Order, PassPoll(p, u) PROVE FilledOK'
  <2>1. /\ at'[p] \in {"ask", "next"} /\ cur'[p] = u /\ UNCHANGED <<task, row>>
        /\ at'[p] = "ask" => row[u] # <<>>
    BY <1>10 DEF PassPoll, db
  <2>2. Knows
    BY <2>1 DEF Knows, FilledAt
  <2> QED BY <1>a, <1>b, <2>1, <2>2
<1>11. ASSUME NEW u \in Order, PassAcquire(p, u) PROVE FilledOK'
  <2>1. at'[p] \in {"mark", "next"} /\ \A o \in Order : task'[o] \in {task[o], "dispatching"}
    BY <1>11 DEF PassAcquire, WriteTask
  <2>2. Same
    BY <2>1 DEF Same
  <2> QED BY <1>a, <1>c, <2>1, <2>2
<1> QED
  BY <1>d, <1>1, <1>2, <1>3, <1>4, <1>5, <1>6, <1>7, <1>8, <1>9, <1>10, <1>11 DEF PassStep

LEMMA NextFilled == FilledOK /\ TypeInv /\ IdOK /\ [Next]_vars => FilledOK'
<1> SUFFICES ASSUME FilledOK, TypeInv, IdOK, [Next]_vars PROVE FilledOK'
  OBVIOUS
<1>a. ASSUME UNCHANGED pass, \A o \in Order : task'[o] = "filled" => task[o] = "filled"
      PROVE  FilledOK'
  BY <1>a, FilledKept DEF pass
<1>1. CASE UNCHANGED vars
  BY <1>1, <1>a DEF vars, db
<1>2. ASSUME NEW u \in Order, CreateStep(u) \/ RetryDue(u) \/ \E a \in Act : ReviewStep(u, a)
      PROVE  FilledOK'
  <2>1. \A o \in Order : task'[o] = "filled" => task[o] = "filled"
    BY <1>2, RequestDoes DEF TypeInv, TypeOK
  <2> QED BY <1>2, <1>a, <2>1, RequestDoes
<1>3. CASE PauseStep
  <2>1. \A o \in Order : task'[o] = "filled" => task[o] = "filled"
    BY <1>3, PauseDoes DEF TypeInv, TypeOK
  <2> QED BY <1>3, <1>a, <2>1, PauseDoes
<1>4. ASSUME NEW u \in Order, NEW i \in DOMAIN broker[u], BrokerMove(u, i) PROVE FilledOK'
  BY <1>4, <1>a, MoveDoes
<1>5. ASSUME NEW u \in Order, CancelStep(u) PROVE FilledOK'
  <2>1. \A o \in Order : task'[o] = "filled" => task[o] = "filled"
    BY <1>5, CancelTurns DEF TypeInv, TypeOK
  <2> QED BY <1>5, <1>a, <2>1, CancelTurns
<1>6. CASE Crash
  <2>1. UNCHANGED task /\ \A p \in Pass, o \in Order : FilledAt(p, o)'
    BY <1>6 DEF Crash, db, FilledAt
  <2> QED BY <2>1, FilledKept
<1> QED BY <1>1, <1>2, <1>3, <1>4, <1>5, <1>6, PassFilled DEF Next

(* A task is reported filled only with a fill on the books and, at a broker,*)
(* with an order that is filled there: over any passes, retries, lost       *)
(* answers, reviews, cancels, pauses and restarts.                          *)
THEOREM FillsAreBacked == Spec => []FilledIsBacked
<1>1. Init => FilledOK /\ IdOK
  BY DEF Init, FilledOK, FilledAt, IdOK, Polls, Owns
<1>2. FilledOK => FilledIsBacked
  BY DEF FilledOK, Filled, FilledIsBacked
<1> QED BY <1>1, <1>2, InitInv, NextInv, NextId, NextFilled, PTL DEF Spec

-----------------------------------------------------------------------------
(* Every order that the broker has answered for is in the local books.      *)

OnBooks(o, i) == \E k \in DOMAIN row[o] : row[o][k].id = i
Writing(o, i) == i = Len(broker[o]) /\ \E p \in Pass : Writes(p, o)

LEMMA BooksAre ==
  EveryOrderOnBooks
    <=> \A o \in Order \ Paper : \A i \in DOMAIN broker[o] : OnBooks(o, i) \/ Writing(o, i)
BY DEF EveryOrderOnBooks, OnBooks, Writing, Writes

LEMMA BooksKept ==
  ASSUME EveryOrderOnBooks,
         \A o \in Order \ Paper :
           /\ KeepsRows(o) /\ DOMAIN broker'[o] = DOMAIN broker[o] /\ Len(broker'[o]) = Len(broker[o])
           /\ \A q \in Pass : Writes(q, o) => Writes(q, o)'
  PROVE  EveryOrderOnBooks'
<1> SUFFICES ASSUME NEW o \in Order \ Paper, NEW i \in DOMAIN broker'[o]
             PROVE  OnBooks(o, i)' \/ Writing(o, i)'
  BY DEF OnBooks, Writing, Writes, EveryOrderOnBooks
<1>1. OnBooks(o, i) \/ Writing(o, i)
  BY BooksAre
<1> QED BY <1>1 DEF OnBooks, Writing, KeepsRows

(* A pass that adds neither an order nor a row.                             *)
LEMMA StepBooks ==
  ASSUME EveryOrderOnBooks, TypeInv, NEW p \in Pass, PassBegin(p) \/ PassStep(p), at[p] # "insert",
         UNCHANGED broker, \A o \in Order : KeepsRows(o)
  PROVE  EveryOrderOnBooks'
<1>1. ASSUME NEW q \in Pass, NEW o \in Order, Writes(q, o) PROVE Writes(q, o)'
  <2>1. q # p
    BY <1>1 DEF Writes
  <2> QED BY <1>1, <2>1, OthersPoll DEF Writes
<1> QED BY <1>1, BooksKept

LEMMA SubmitBooks ==
  ASSUME NoneLost, NoneLost', EveryOrderOnBooks, TypeInv,
         NEW p \in Pass, PassStep(p), PassSubmit(p)
  PROVE  EveryOrderOnBooks'
<1>1. PICK u \in Order : cur[p] = u
  BY DEF PassSubmit, TypeInv, PassOK, OwnPlace
<1>2. /\ at[p] = "submit" /\ phase[p] = "due" /\ UNCHANGED <<phase, cur, row>>
  <2>1. at[p] = "submit" /\ UNCHANGED <<phase, cur, row>>
    BY DEF PassSubmit, db
  <2> QED BY <2>1 DEF TypeInv, PassOK, OwnPlace
<1>3. Owns(p, u) /\ \A q \in Pass : Owns(q, u) => q = p
  BY <1>1, <1>2, OwnerAlone DEF Owns
<1>4. \/ UNCHANGED broker
      \/ at'[p] = "insert" /\ \E s \in Held : Accept(u, s)
  <2>1. \/ UNCHANGED broker
        \/ \E s \in Held : \E v : Accept(u, s) /\ Decide(p, v, "insert")
    BY <1>1 DEF PassSubmit, NoneLost, Held
  <2> QED BY <2>1 DEF Decide, Goto, TypeInv, TypeOK
<1>5. CASE UNCHANGED broker
  BY <1>2, <1>5, StepBooks, SameRows
<1>6. ASSUME at'[p] = "insert", NEW s \in Held, Accept(u, s) PROVE EveryOrderOnBooks'
  <2>1. /\ \A o \in Order \ {u} : broker'[o] = broker[o]
        /\ Len(broker[u]) \in Nat /\ Len(broker'[u]) = Len(broker[u]) + 1
        /\ DOMAIN broker[u] = 1 .. Len(broker[u]) /\ DOMAIN broker'[u] = 1 .. Len(broker[u]) + 1
    BY <1>6, AcceptDoes
  <2>2. Writes(p, u)'
    BY <1>1, <1>2, <1>6 DEF Writes, Owns
  <2> SUFFICES ASSUME NEW o \in Order \ Paper, NEW i \in DOMAIN broker'[o]
               PROVE  OnBooks(o, i)' \/ Writing(o, i)'
    BY DEF OnBooks, Writing, Writes, EveryOrderOnBooks
  <2>3. CASE o # u
    <3>1. OnBooks(o, i) \/ Writing(o, i)
      BY <2>1, <2>3, BooksAre
    <3>2. \A q \in Pass : Writes(q, o) => Writes(q, o)'
      <4>1. ~Writes(p, o)
        BY <1>2 DEF Writes
      <4> QED BY <4>1, OthersPoll DEF Writes
    <3> QED BY <1>2, <2>1, <2>3, <3>1, <3>2 DEF OnBooks, Writing
  <2>4. CASE o = u /\ i = Len(broker'[u])
    BY <2>2, <2>4 DEF Writing
  <2>5. CASE o = u /\ i # Len(broker'[u])
    <3>1. i \in DOMAIN broker[u]
      BY <2>1, <2>5
    <3>2. ~Writing(u, i)
      BY <1>2, <1>3 DEF Writing, Writes
    <3>3. OnBooks(u, i)
      BY <2>5, <3>1, <3>2, BooksAre
    <3> QED BY <1>2, <2>5, <3>3 DEF OnBooks
  <2> QED BY <2>3, <2>4, <2>5
<1> QED BY <1>4, <1>5, <1>6

LEMMA InsertBooks ==
  ASSUME EveryOrderOnBooks, TypeInv, NEW p \in Pass, PassStep(p), PassInsert(p)
  PROVE  EveryOrderOnBooks'
<1>1. PICK u \in Order :
        /\ cur[p] = u /\ Owns(p, u) /\ at[p] = "insert" /\ UNCHANGED <<broker, phase, cur>>
        /\ \A o \in Order \ {u} : row'[o] = row[o]
        /\ DOMAIN row[u] = 1 .. Len(row[u]) /\ DOMAIN row'[u] = 1 .. Len(row[u]) + 1
        /\ Len(row[u]) \in Nat
        /\ \A j \in DOMAIN row[u] : row'[u][j] = row[u][j]
        /\ row'[u][Len(row[u]) + 1].id = Len(broker[u])
  BY InsertDoes
<1>2. \A q \in Pass : Owns(q, u) => q = p
  BY <1>1, OwnerAlone
<1> SUFFICES ASSUME NEW o \in Order \ Paper, NEW i \in DOMAIN broker'[o]
             PROVE  OnBooks(o, i)' \/ Writing(o, i)'
  BY DEF OnBooks, Writing, Writes, EveryOrderOnBooks
<1>3. OnBooks(o, i) \/ Writing(o, i)
  BY <1>1, BooksAre
<1>4. CASE o # u
  <2>1. \A q \in Pass : Writes(q, o) => Writes(q, o)'
    <3>1. ~Writes(p, o)
      BY <1>1, <1>4 DEF Writes, Owns
    <3> QED BY <3>1, OthersPoll DEF Writes
  <2> QED BY <1>1, <1>3, <1>4, <2>1 DEF OnBooks, Writing
<1>5. CASE o = u /\ OnBooks(u, i)
  BY <1>1, <1>5 DEF OnBooks
<1>6. CASE o = u /\ i = Len(broker[u])
  <2>1. Len(row[u]) + 1 \in DOMAIN row'[u]
    BY <1>1
  <2> QED BY <1>1, <1>6, <2>1 DEF OnBooks
<1> QED BY <1>3, <1>4, <1>5, <1>6 DEF Writing

(* A restart is not forgotten, and nothing but a restart counts as one.     *)
LEMMA CrashesStay == TypeInv /\ [Next]_vars /\ crashes' = 0 => crashes = 0
<1> SUFFICES ASSUME TypeInv, [Next]_vars, crashes' = 0 PROVE crashes = 0
  OBVIOUS
<1>1. CASE Crash
  BY <1>1 DEF Crash, TypeInv, TypeOK
<1>2. CASE PauseStep
  BY <1>2 DEF PauseStep
<1> QED BY <1>1, <1>2 DEF Next, vars, CreateStep, RetryDue, CancelStep, ReviewStep, BrokerMove, PassBegin, PassStep

LEMMA NextBooks ==
  ASSUME NoneLost, NoneLost', crashes' = 0, TypeInv, EveryOrderOnBooks, [Next]_vars
  PROVE  EveryOrderOnBooks'
<1>a. ASSUME UNCHANGED pass, \A o \in Order : /\ KeepsRows(o) /\ DOMAIN broker'[o] = DOMAIN broker[o]
                                              /\ Len(broker'[o]) = Len(broker[o])
      PROVE  EveryOrderOnBooks'
  BY <1>a, BooksKept DEF pass, Writes, Owns
<1>b. row' = row => \A o \in Order : KeepsRows(o)
  BY SameRows
<1>1. CASE UNCHANGED vars
  BY <1>1, <1>a, <1>b DEF vars, db
<1>2. ASSUME NEW u \in Order, CreateStep(u) \/ RetryDue(u) \/ \E a \in Act : ReviewStep(u, a)
      PROVE  EveryOrderOnBooks'
  BY <1>2, <1>a, <1>b, RequestDoes
<1>3. CASE PauseStep
  BY <1>3, <1>a, <1>b, PauseDoes
<1>4. ASSUME NEW u \in Order, NEW i \in DOMAIN broker[u], BrokerMove(u, i) PROVE EveryOrderOnBooks'
  BY <1>4, <1>a, <1>b, MoveDoes
<1>5. ASSUME NEW u \in Order, CancelStep(u) PROVE EveryOrderOnBooks'
  BY <1>5, <1>a, CancelDoes DEF KeepsRows
<1>6. ~Crash
  BY DEF Crash, TypeInv, TypeOK
<1>7. ASSUME NEW p \in Pass, PassStep(p), PassRow(p) \/ PassRefuse(p) PROVE EveryOrderOnBooks'
  <2>1. at[p] # "insert" /\ UNCHANGED broker
    BY <1>7 DEF PassRow, PassRefuse
  <2>2. \A o \in Order : KeepsRows(o)
    BY <1>7, PassGrows DEF Grows
  <2> QED BY <1>7, <2>1, <2>2, StepBooks
<1>8. ASSUME NEW p \in Pass, PassBegin(p) \/ PassStep(p), ~PassSubmit(p), ~PassInsert(p),
             ~PassRow(p), ~PassRefuse(p)
      PROVE  EveryOrderOnBooks'
  <2>1. UNCHANGED <<row, broker>>
    BY <1>8 DEF PassBegin, PassStart, PassStep, PassScan, PassNextSweep, PassAsk, PassAskFails, PassFill,
                PassMark, PassGate, PassTask, PassLife, PassExpire, PassPoll, PassAcquire, db
  <2>2. at[p] # "insert"
    BY <1>8 DEF PassBegin, PassStart, PassStep, PassScan, PassNextSweep, PassAsk, PassAskFails, PassFill,
                PassMark, PassGate, PassTask, PassLife, PassExpire, PassPoll, PassAcquire, TypeInv, PassOK,
                OwnPlace
  <2> QED BY <1>8, <1>b, <2>1, <2>2, StepBooks
<1>9. ASSUME NEW p \in Pass, PassBegin(p) \/ PassStep(p) PROVE EveryOrderOnBooks'
  <2>1. CASE PassSubmit(p) /\ PassStep(p)
    BY <2>1, SubmitBooks
  <2>2. CASE PassInsert(p) /\ PassStep(p)
    BY <2>2, InsertBooks
  <2>3. CASE PassBegin(p)
    <3>1. at[p] = "start" /\ UNCHANGED <<row, broker>>
      BY <2>3 DEF PassBegin, PassStart, db, TypeInv, PassOK, OwnPlace
    <3> QED BY <1>b, <2>3, <3>1, StepBooks
  <2> QED BY <1>7, <1>8, <1>9, <2>1, <2>2, <2>3
<1> QED BY <1>1, <1>2, <1>3, <1>4, <1>5, <1>6, <1>9 DEF Next

(* Until an answer is lost or the host restarts, every order the broker has *)
(* answered for is in the local books, but for the one a pass is about to   *)
(* write down: over any passes, retries, reviews, cancels and pauses.       *)
THEOREM AllOnBooks == Spec => [](lost = 0 /\ crashes = 0 => EveryOrderOnBooks)
<1> DEFINE Kept == NoneLost /\ crashes = 0 => EveryOrderOnBooks
<1>1. Init => Kept
  BY DEF Init, EveryOrderOnBooks
<1>2. TypeInv /\ Kept /\ [Next]_vars => Kept'
  BY NextBooks, LostStays, CrashesStay
<1>3. Kept => (lost = 0 /\ crashes = 0 => EveryOrderOnBooks)
  BY DEF NoneLost
<1> HIDE DEF Kept
<1> QED BY <1>1, <1>2, <1>3, InitInv, NextInv, PTL DEF Spec

-----------------------------------------------------------------------------
(* The lifecycle shows the status of the task when nothing is under way.    *)

Cancelled(o) == cancel[o].at = "cancelled"

(* A pass has an order in hand whose task or lifecycle it is about to write.*)
Works(p, o) ==
  cur[p] = o /\ at[p] \in {"mark", "gate", "submit", "insert", "refuse", "fill", "row", "task", "life"}

(* A request or a pass will write the lifecycle of an order.                *)
Moving(o) ==
  creator[o] \notin {"none", "done"} \/ review[o]["reject"] = "life" \/ \E p \in Pass : Works(p, o)

(* Nobody has approved, paused or restarted anything yet.                   *)
Calm == pauses = 0 /\ crashes = 0 /\ \A o \in Order : review[o]["approve"] = "idle"

(* Between the write of the task and that of the lifecycle a pass knows     *)
(* what the task says; the expiry of a ticket finds a task that was never   *)
(* dispatched, and a poll one without a ticket.                             *)
LifeAt(o) ==
  /\ ticket[o] # "none" => task[o] \in {"none", "awaiting_review", "rejected"} \/ Cancelled(o)
  /\ creator[o] = "blockTask" => life[o] = "risk_blocked"
  /\ creator[o] = "allowTask" => life[o] = "risk_checked"
  /\ \A p \in Pass :
       /\ Polls(p, o) => ticket[o] = "none" \/ Cancelled(o)
       /\ Works(p, o) /\ phase[p] = "expire" => ticket[o] # "none"
       /\ Works(p, o) /\ at[p] = "life" /\ phase[p] # "expire"
            => task[o] = TaskOf[verdict[p]] \/ Cancelled(o)
  /\ ~Moving(o) /\ task[o] \in DOMAIN LifeFor => life[o] \in LifeFor[task[o]] \/ Cancelled(o)

LifeOK == \A o \in Order : LifeAt(o)

LEMMA LifeMatchesTask == \A v \in Verdict : TaskOf[v] \in DOMAIN LifeFor => LifeOf[v] \in LifeFor[TaskOf[v]]
BY DEF Verdict, TaskOf, LifeOf, LifeFor

LEMMA LifeKept ==
  ASSUME NEW o \in Order, LifeAt(o), UNCHANGED <<task, life, ticket>>, creator'[o] = creator[o],
         review'[o] = review[o],
         Cancelled(o) => Cancelled(o)',
         \A p \in Pass :
           /\ Polls(p, o)' => Polls(p, o)
           /\ (Works(p, o)' <=> Works(p, o))
           /\ Works(p, o)' => phase'[p] = phase[p]
           /\ Works(p, o)' /\ at'[p] = "life" => at[p] = "life" /\ verdict'[p] = verdict[p]
  PROVE  LifeAt(o)'
BY DEF LifeAt, Moving

LEMMA PassesLife ==
  ASSUME NEW o \in Order, LifeAt(o), UNCHANGED <<task, life, ticket, pass>>, creator'[o] = creator[o],
         review'[o] = review[o], Cancelled(o) => Cancelled(o)'
  PROVE  LifeAt(o)'
BY LifeKept DEF pass, Polls, Works

(* The creation of an order.                                                *)
LEMMA CreateLifeOK ==
  ASSUME TypeInv, LifeOK, NEW u \in Order, CreateStep(u) PROVE LifeOK'
<1> SUFFICES ASSUME NEW o \in Order PROVE LifeAt(o)'
  BY DEF LifeOK
<1>1. LifeAt(o) /\ UNCHANGED <<cancel, pass, review>>
  BY DEF LifeOK, CreateStep
<1>2. CASE o # u
  <2>1. /\ task'[o] = task[o] /\ life'[o] = life[o] /\ ticket'[o] = ticket[o] /\ creator'[o] = creator[o]
    BY <1>2 DEF CreateStep, CreateIntent, CreateRisk, CreateLife, CreateTicket, CreateTask, db, WriteTask,
                WriteLife, TypeInv, TypeOK
  <2> QED BY <1>1, <2>1 DEF LifeAt, Moving, Works, Polls, Cancelled, pass
<1>3. CASE o = u
  <2>1. creator[o] # "done" /\ task[o] = "none" /\ ~Cancelled(o)
    BY <1>3 DEF CreateStep, CreateIntent, CreateRisk, CreateLife, CreateTicket, CreateTask, TypeInv,
                CreateOK, Cancelled
  <2>2. ASSUME NEW p \in Pass PROVE ~Polls(p, o) /\ ~(Works(p, o) /\ at[p] = "life" /\ phase[p] # "expire")
    <3>1. TaskOf[verdict[p]] # "none" \/ verdict[p] = "none"
      BY DEF TypeInv, TypeOK, Verdict, TaskOf
    <3>2. at[p] = "life" /\ phase[p] # "expire" => verdict[p] # "none"
      BY DEF TypeInv, TypeOK, PassOK, OwnPlace
    <3> QED BY <1>1, <2>1, <3>1, <3>2 DEF LifeAt, TypeInv, OwnOK, Final
  <2>3. \A p \in Pass : ~Polls(p, o)' /\ ~(Works(p, o) /\ at[p] = "life" /\ phase[p] # "expire")'
                        /\ (Works(p, o)' /\ phase'[p] = "expire" => ticket[o] # "none")
    BY <1>1, <2>2 DEF pass, Polls, Works, LifeAt
  <2> USE DEF WriteTask, WriteLife, TypeInv, TypeOK
  <2>4. CASE CreateIntent(u) \/ CreateRisk(u)
    <3>1. /\ task'[o] = "none" /\ ticket'[o] = ticket[o] /\ creator'[o] \in {"risk", "block", "review", "allow"}
      BY <1>3, <2>1, <2>4 DEF CreateIntent, CreateRisk, db
    <3> QED BY <2>3, <3>1 DEF LifeAt, Moving
  <2>5. CASE CreateLife(u)
    <3>1. /\ task'[o] = "none" /\ ticket'[o] = ticket[o]
          /\ \/ creator'[o] = "blockTask" /\ life'[o] = "risk_blocked"
             \/ creator'[o] = "ticket"
             \/ creator'[o] = "allowTask" /\ life'[o] = "risk_checked"
      BY <1>3, <2>1, <2>5 DEF CreateLife
    <3> QED BY <2>3, <3>1 DEF LifeAt, Moving
  <2>6. CASE CreateTicket(u)
    <3>1. /\ task'[o] = "none" /\ ticket'[o] = "open" /\ creator'[o] = "reviewTask"
      BY <1>3, <2>1, <2>6 DEF CreateTicket
    <3> QED BY <2>3, <3>1 DEF LifeAt, Moving
  <2>7. CASE CreateTask(u)
    <3>1. /\ ticket'[o] = ticket[o] /\ life'[o] = life[o] /\ creator'[o] = "done"
          /\ \/ task'[o] = "rejected" /\ life[o] = "risk_blocked"
             \/ task'[o] = "awaiting_review"
             \/ task'[o] = "pending" /\ life[o] = "risk_checked" /\ ticket[o] = "none"
      BY <1>1, <1>3, <2>1, <2>7 DEF CreateTask, LifeAt, CreateOK
    <3> QED BY <2>3, <3>1 DEF LifeAt, LifeFor
  <2> QED BY <2>4, <2>5, <2>6, <2>7 DEF CreateStep
<1> QED BY <1>2, <1>3

(* One pass: a step that leaves task, lifecycle and ticket alone.           *)
LEMMA StepLife ==
  ASSUME \A p, q \in Pass : p = q, TypeInv, LifeOK, NEW p \in Pass, PassBegin(p) \/ PassStep(p),
         UNCHANGED <<task, life, ticket>>, at'[p] # "life", at[p] # "life",
         \A o \in Order : /\ Polls(p, o)' => Polls(p, o) \/ ticket[o] = "none" \/ Cancelled(o)
                          /\ Works(p, o)' => phase'[p] # "expire"
                          /\ Works(p, o) => Works(p, o)'
  PROVE  LifeOK'
<1> SUFFICES ASSUME NEW o \in Order PROVE LifeAt(o)'
  BY DEF LifeOK
<1>1. UNCHANGED <<creator, review, cancel>> /\ LifeAt(o)
  BY DEF PassBegin, PassStep, requests, LifeOK
<1>2. \A q \in Pass : q = p
  OBVIOUS
<1>3. ~Moving(o)' => ~Moving(o)
  BY <1>1, <1>2 DEF Moving
<1>4. \A q \in Pass : Polls(q, o)' => ticket'[o] = "none" \/ Cancelled(o)'
  BY <1>1, <1>2 DEF LifeAt, Cancelled
<1>5. \A q \in Pass : (Works(q, o) /\ at[q] = "life" /\ phase[q] # "expire")'
                         => task'[o] = TaskOf[verdict'[q]] \/ Cancelled(o)'
  BY <1>2
<1>6. \A q \in Pass : (Works(q, o) /\ phase[q] = "expire")' => ticket'[o] # "none"
  BY <1>2
<1> QED BY <1>1, <1>3, <1>4, <1>5, <1>6 DEF LifeAt, Cancelled

(* What a pass may write the lifecycle of.                                  *)
LEMMA OwnerDone ==
  ASSUME TypeInv, NEW o \in Order, task[o] # "none" PROVE creator[o] = "done"
BY DEF TypeInv, CreateOK

LEMMA MarkLife ==
  ASSUME \A p, q \in Pass : p = q, TypeInv, LifeOK, NEW p \in Pass, PassStep(p), PassMark(p)
  PROVE  LifeOK'
<1>1. PICK u \in Order : cur[p] = u
  BY DEF PassMark, TypeInv, PassOK, OwnPlace
<1>2. /\ at[p] = "mark" /\ phase[p] = "due" /\ at'[p] = "gate" /\ UNCHANGED <<phase, cur, todo, task, ticket>>
      /\ UNCHANGED <<creator, review, cancel>> /\ \A o \in Order \ {u} : life'[o] = life[o]
  BY <1>1 DEF PassMark, PassStep, requests, Goto, WriteLife, TypeInv, TypeOK, PassOK, OwnPlace
<1>3. Owns(p, u) /\ creator[u] = "done"
  <2>1. Owns(p, u)
    BY <1>1, <1>2 DEF Owns
  <2> QED BY <2>1, OwnerDone DEF TypeInv, OwnOK
<1>4. \A q \in Pass : q = p
  OBVIOUS
<1>5. /\ Works(p, u) /\ Works(p, u)' /\ \A o \in Order : (Works(p, o)' <=> Works(p, o)) /\ ~Polls(p, o)'
  BY <1>1, <1>2 DEF Works, Polls
<1> SUFFICES ASSUME NEW o \in Order PROVE LifeAt(o)'
  BY DEF LifeOK
<1>6. LifeAt(o)
  BY DEF LifeOK
<1>7. CASE o = u
  <2>1. Moving(o)'
    BY <1>5, <1>7 DEF Moving
  <2> QED BY <1>2, <1>3, <1>4, <1>5, <1>6, <1>7, <2>1 DEF LifeAt, Cancelled
<1>8. CASE o # u
  <2>1. Moving(o)' <=> Moving(o)
    BY <1>2, <1>4, <1>5 DEF Moving
  <2> QED BY <1>2, <1>4, <1>5, <1>6, <1>8, <2>1 DEF LifeAt, Cancelled
<1> QED BY <1>7, <1>8

LEMMA TaskLife ==
  ASSUME \A p, q \in Pass : p = q, TypeInv, LifeOK, NEW p \in Pass, PassStep(p), PassTask(p)
  PROVE  LifeOK'
<1>1. PICK u \in Order :
        /\ cur[p] = u /\ at[p] = "task" /\ at'[p] = "life" /\ phase[p] \in {"expire", "poll", "due"}
        /\ UNCHANGED <<phase, todo, cur, verdict>>
        /\ \A o \in Order \ {u} : task'[o] = task[o]
        /\ phase[p] \in {"due", "poll"} =>
             verdict[p] \in Verdict /\ task' = [task EXCEPT ![u] = TaskOf[verdict[p]]]
        /\ phase[p] = "expire" => UNCHANGED task \/ task' = [task EXCEPT ![u] = "rejected"]
  BY TaskDoes DEF Verdict, TaskOf
<1>2. UNCHANGED <<creator, review, cancel, life, ticket>>
  BY DEF PassTask, PassStep, requests
<1>3. \A q \in Pass : q = p
  OBVIOUS
<1>4. /\ Works(p, u) /\ Works(p, u)'
      /\ \A o \in Order : (Works(p, o)' <=> Works(p, o)) /\ (Polls(p, o)' => Polls(p, o))
  BY <1>1 DEF Works, Polls
<1>5. phase[p] = "due" => Owns(p, u)
  BY <1>1 DEF Owns
<1>6. phase[p] = "poll" => Polls(p, u)
  BY <1>1 DEF Polls
<1> SUFFICES ASSUME NEW o \in Order PROVE LifeAt(o)'
  BY DEF LifeOK
<1>7. LifeAt(o)
  BY DEF LifeOK
<1>8. CASE o = u
  <2>1. Moving(o)'
    BY <1>4, <1>8 DEF Moving
  <2>2. phase[p] \in {"due", "poll"} => ticket[o] = "none" \/ Cancelled(o)
    BY <1>5, <1>6, <1>7, <1>8 DEF LifeAt, TypeInv, OwnOK, Cancelled
  <2>3. phase[p] \in {"due", "poll"} => task'[o] = TaskOf[verdict[p]]
    BY <1>1, <1>8 DEF TypeInv, TypeOK
  <2>4. phase[p] = "expire" => task'[o] \in {task[o], "rejected"}
    BY <1>1, <1>8 DEF TypeInv, TypeOK
  <2> QED BY <1>1, <1>2, <1>3, <1>4, <1>7, <1>8, <2>1, <2>2, <2>3, <2>4 DEF LifeAt, Cancelled
<1>9. CASE o # u
  <2>1. ~Works(p, o) /\ ~Works(p, o)'
    BY <1>1, <1>9 DEF Works
  <2>2. Moving(o)' <=> Moving(o)
    BY <1>2, <1>3, <2>1 DEF Moving
  <2> QED BY <1>1, <1>2, <1>3, <1>4, <1>7, <1>9, <2>1, <2>2 DEF LifeAt, Cancelled
<1> QED BY <1>8, <1>9

LEMMA LifeLife ==
  ASSUME \A p, q \in Pass : p = q, TypeInv, LifeOK, NEW p \in Pass, PassStep(p), PassLife(p)
  PROVE  LifeOK'
<1>1. PICK u \in Order : cur[p] = u
  BY DEF PassLife, TypeInv, PassOK, OwnPlace
<1>2. /\ at[p] = "life" /\ at'[p] = "next" /\ UNCHANGED <<phase, todo, cur, verdict, task, ticket>>
      /\ UNCHANGED <<creator, review, cancel>> /\ life'[u] = LifeOf[verdict[p]]
      /\ \A o \in Order \ {u} : life'[o] = life[o]
  BY <1>1 DEF PassLife, PassStep, requests, Goto, WriteLife, TypeInv, TypeOK
<1>3. \A q \in Pass : q = p
  OBVIOUS
<1>4. \A o \in Order : ~Works(p, o)' /\ (Polls(p, o)' => Polls(p, o))
  BY <1>2 DEF Works, Polls
<1>5. Works(p, u)
  BY <1>1, <1>2 DEF Works
<1>6. /\ phase[p] = "expire" => verdict[p] = "expired"
      /\ phase[p] # "expire" => verdict[p] \in Verdict
  BY <1>2 DEF TypeInv, PassOK, OwnPlace, TypeOK, Verdict, TaskOf
<1> SUFFICES ASSUME NEW o \in Order PROVE LifeAt(o)'
  BY DEF LifeOK
<1>7. LifeAt(o)
  BY DEF LifeOK
<1>8. CASE o = u
  <2>1. creator[o] \notin {"blockTask", "allowTask"}
    <3>1. CASE phase[p] = "expire"
      BY <1>5, <1>7, <1>8, <3>1 DEF LifeAt, TypeInv, CreateOK
    <3>2. CASE phase[p] # "expire"
      <4>1. task[o] # "none"
        <5>1. task[o] = TaskOf[verdict[p]] \/ Cancelled(o)
          BY <1>2, <1>5, <1>7, <1>8, <3>2 DEF LifeAt
        <5>2. TaskOf[verdict[p]] # "none"
          BY <1>6, <3>2 DEF Verdict, TaskOf
        <5> QED BY <5>1, <5>2 DEF TypeInv, CreateOK, Cancelled
      <4> QED BY <4>1, OwnerDone
    <3> QED BY <3>1, <3>2
  <2>2. task[o] \in DOMAIN LifeFor => LifeOf[verdict[p]] \in LifeFor[task[o]] \/ Cancelled(o)
    <3>1. CASE phase[p] = "expire"
      BY <1>5, <1>6, <1>7, <1>8, <3>1 DEF LifeAt, LifeFor, LifeOf
    <3>2. CASE phase[p] # "expire"
      BY <1>2, <1>5, <1>6, <1>7, <1>8, <3>2, LifeMatchesTask DEF LifeAt
    <3> QED BY <3>1, <3>2
  <2> QED BY <1>2, <1>3, <1>4, <1>7, <1>8, <2>1, <2>2 DEF LifeAt, Cancelled
<1>9. CASE o # u
  <2>1. Moving(o)' <=> Moving(o)
    BY <1>1, <1>2, <1>3, <1>4, <1>9 DEF Moving, Works
  <2> QED BY <1>2, <1>3, <1>4, <1>7, <1>9, <2>1 DEF LifeAt, Cancelled
<1> QED BY <1>8, <1>9

LEMMA ExpireLife ==
  ASSUME \A p, q \in Pass : p = q, TypeInv, LifeOK, NEW p \in Pass, PassStep(p),
         NEW u \in Order, PassExpire(p, u)
  PROVE  LifeOK'
<1>1. /\ at[p] = "next" /\ phase[p] = "expire" /\ u \in todo[p] /\ at'[p] = "task" /\ cur'[p] = u
      /\ UNCHANGED <<phase, task, life, creator, review, cancel>>
      /\ ticket'[u] = "expired" /\ \A o \in Order \ {u} : ticket'[o] = ticket[o]
  BY DEF PassExpire, PassStep, requests, Take, Decide, Goto, TypeInv, TypeOK
<1>2. ticket[u] # "none"
  BY <1>1 DEF TypeInv, CreateOK
<1>3. \A q \in Pass : q = p
  OBVIOUS
<1>4. \A o \in Order : ~Works(p, o) /\ (Works(p, o)' => o = u) /\ ~Polls(p, o)'
  BY <1>1 DEF Works, Polls
<1> SUFFICES ASSUME NEW o \in Order PROVE LifeAt(o)'
  BY DEF LifeOK
<1>5. LifeAt(o)
  BY DEF LifeOK
<1>6. ~Moving(o)' => ~Moving(o)
  BY <1>1, <1>3, <1>4 DEF Moving
<1>7. creator[u] \notin {"blockTask", "allowTask"}
  BY <1>2 DEF TypeInv, CreateOK
<1> QED BY <1>1, <1>2, <1>3, <1>4, <1>5, <1>6, <1>7 DEF LifeAt, Cancelled

LEMMA AcquireLife ==
  ASSUME \A p, q \in Pass : p = q, TypeInv, LifeOK, NEW p \in Pass, PassStep(p),
         NEW u \in Order, PassAcquire(p, u)
  PROVE  LifeOK'
<1>1. /\ at[p] = "next" /\ phase[p] = "due" /\ cur'[p] = u
      /\ UNCHANGED <<phase, life, ticket, creator, review, cancel>>
      /\ \A o \in Order \ {u} : task'[o] = task[o]
      /\ \/ task[u] = "pending" /\ task'[u] = "dispatching" /\ at'[p] = "mark"
         \/ task'[u] = task[u] /\ at'[p] = "next"
  BY DEF PassAcquire, PassStep, requests, Take, WriteTask, Goto, TypeInv, TypeOK
<1>2. \A q \in Pass : q = p
  OBVIOUS
<1>3. \A o \in Order : ~Works(p, o) /\ (Works(p, o)' <=> o = u /\ at'[p] = "mark") /\ ~Polls(p, o)'
  BY <1>1 DEF Works, Polls
<1> SUFFICES ASSUME NEW o \in Order PROVE LifeAt(o)'
  BY DEF LifeOK
<1>4. LifeAt(o)
  BY DEF LifeOK
<1>5. ~Moving(o)' => ~Moving(o)
  BY <1>1, <1>2, <1>3 DEF Moving
<1>6. task'[o] = task[o] \/ (Moving(o)' /\ task[o] = "pending" /\ task'[o] = "dispatching")
  BY <1>1, <1>3 DEF Moving
<1> QED BY <1>1, <1>2, <1>3, <1>4, <1>5, <1>6 DEF LifeAt, Cancelled

LEMMA PassLifeOK ==
  ASSUME \A p, q \in Pass : p = q, TypeInv, LifeOK, NEW p \in Pass, PassBegin(p) \/ PassStep(p)
  PROVE  LifeOK'
<1> DEFINE Quiet == \A o \in Order : /\ Polls(p, o)' => Polls(p, o) \/ ticket[o] = "none" \/ Cancelled(o)
                                     /\ Works(p, o)' => phase'[p] # "expire"
                                     /\ Works(p, o) => Works(p, o)'
<1>a. ASSUME Quiet, UNCHANGED <<task, life, ticket>>, at'[p] # "life", at[p] # "life" PROVE LifeOK'
  BY <1>a, StepLife
<1> USE DEF TypeInv, TypeOK, PassOK, OwnPlace, Goto, Decide, Take
<1> HIDE DEF Quiet
<1>b. ASSUME at[p] \in {"start", "scan", "next"}, at'[p] \in {"start", "scan", "next"},
             \A o \in Order : Polls(p, o)' => Polls(p, o) \/ ticket[o] = "none" \/ Cancelled(o)
      PROVE  Quiet
  BY <1>b DEF Quiet, Works
<1>c. ASSUME at[p] \in {"mark", "gate", "submit", "insert", "refuse", "fill", "row"},
             at'[p] \in {"mark", "gate", "submit", "insert", "refuse", "fill", "row", "task"},
             UNCHANGED <<cur, phase, todo>>
      PROVE  Quiet
  <2>1. phase'[p] \in {"poll", "due"} /\ (phase[p] = "poll" => at[p] \in {"fill", "row"})
    BY <1>c
  <2> QED BY <1>c, <2>1 DEF Quiet, Works, Polls
<1>1. CASE PassBegin(p)
  <2>1. /\ UNCHANGED <<task, life, ticket>> /\ at[p] = "start" /\ at'[p] = "scan"
        /\ \A o \in Order : ~Polls(p, o)'
    BY <1>1 DEF PassBegin, PassStart, db, Polls
  <2> QED BY <1>a, <1>b, <2>1
<1>d. SUFFICES ASSUME PassStep(p) PROVE LifeOK'
  BY <1>1
<1>2. CASE PassScan(p)
  <2>1. /\ UNCHANGED <<task, life, ticket, phase>> /\ at[p] = "scan" /\ at'[p] = "next"
        /\ phase[p] = "poll" => \A o \in todo'[p] : task[o] = "waiting_ack"
    BY <1>2 DEF PassScan, db
  <2>2. \A o \in Order : Polls(p, o)' => ticket[o] = "none" \/ Cancelled(o)
    BY <2>1 DEF Polls, LifeOK, LifeAt
  <2> QED BY <1>a, <1>b, <2>1, <2>2
<1>3. CASE PassNextSweep(p)
  <2>1. /\ UNCHANGED <<task, life, ticket, todo>> /\ at[p] = "next" /\ at'[p] \in {"start", "scan"}
        /\ todo[p] = {}
    BY <1>3 DEF PassNextSweep, db
  <2>2. \A o \in Order : ~Polls(p, o)'
    BY <2>1 DEF Polls
  <2> QED BY <1>a, <1>b, <2>1, <2>2
<1>4. CASE PassAsk(p) \/ PassAskFails(p)
  <2>1. /\ UNCHANGED <<task, life, ticket, todo, cur, phase>> /\ at[p] = "ask" /\ phase[p] = "poll"
        /\ at'[p] \in {"next", "fill", "row"}
    BY <1>4 DEF PassAsk, PassAskFails, db
  <2>2. Quiet
    BY <2>1 DEF Quiet, Polls, Works
  <2> QED BY <1>a, <2>1, <2>2
<1>5. CASE PassFill(p) \/ PassRow(p) \/ PassInsert(p) \/ PassRefuse(p)
  <2>1. /\ UNCHANGED <<task, life, ticket, todo, cur, phase>> /\ at[p] \in {"fill", "row", "insert", "refuse"}
        /\ at'[p] \in {"row", "task", "fill", "refuse"}
    BY <1>5 DEF PassFill, PassRow, PassInsert, PassRefuse
  <2> QED BY <1>a, <1>c, <2>1
<1>6. CASE PassGate(p)
  <2>1. /\ UNCHANGED <<task, life, ticket, todo, cur, phase>> /\ at[p] = "gate"
        /\ at'[p] \in {"task", "insert", "submit"}
    BY <1>6 DEF PassGate, db
  <2> QED BY <1>a, <1>c, <2>1
<1>7. CASE PassSubmit(p)
  <2>1. /\ UNCHANGED <<task, life, ticket, todo, cur, phase>> /\ at[p] = "submit"
        /\ at'[p] \in {"submit", "task", "insert"}
    <3>1. at[p] = "submit"
      BY <1>7 DEF PassSubmit
    <3> QED BY <1>7, <3>1, SubmitDoes DEF db
  <2> QED BY <1>a, <1>c, <2>1
<1>8. ASSUME NEW u \in Order, PassPoll(p, u) PROVE LifeOK'
  <2>1. /\ UNCHANGED <<task, life, ticket, phase>> /\ at[p] = "next" /\ phase[p] = "poll" /\ u \in todo[p]
        /\ at'[p] \in {"ask", "next"} /\ cur'[p] = u /\ todo'[p] \subseteq todo[p]
    BY <1>8 DEF PassPoll, db
  <2>2. Quiet
    BY <2>1 DEF Quiet, Polls, Works
  <2> QED BY <1>a, <2>1, <2>2
<1> HIDE DEF TypeInv, TypeOK, PassOK, OwnPlace
<1> QED
  BY <1>d, <1>2, <1>3, <1>4, <1>5, <1>6, <1>7, <1>8, MarkLife, TaskLife, LifeLife, ExpireLife, AcquireLife
     DEF PassStep

LEMMA CancelLife ==
  ASSUME TypeInv, LifeOK, NEW u \in Order, CancelStep(u) PROVE LifeOK'
<1>1. /\ UNCHANGED <<life, ticket, creator, review, pass>>
      /\ \A o \in Order : Cancelled(o) => Cancelled(o)'
      /\ UNCHANGED task \/ (Cancelled(u)' /\ task' = [task EXCEPT ![u] = "cancelled"])
  BY DEF CancelStep, CancelRead, CancelTask, CancelBroker, CancelRow, CancelTo, WriteTask, Cancelled, db,
         TypeInv, TypeOK
<1> SUFFICES ASSUME NEW o \in Order PROVE LifeAt(o)'
  BY DEF LifeOK
<1>2. LifeAt(o)
  BY DEF LifeOK
<1>3. CASE task'[o] = task[o]
  BY <1>1, <1>2, <1>3 DEF LifeAt, Moving, Works, Polls, pass
<1>4. CASE Cancelled(o)'
  BY <1>1, <1>2, <1>4 DEF LifeAt, Moving, Works, Polls, pass
<1> QED BY <1>1, <1>3, <1>4 DEF TypeInv, TypeOK

(* A reject request: what it finds is rejected, and says so in the end.     *)
LEMMA RejectLife ==
  ASSUME TypeInv, LifeOK, NEW u \in Order, ReviewStep(u, "reject") PROVE LifeOK'
<1> SUFFICES ASSUME NEW o \in Order PROVE LifeAt(o)'
  BY DEF LifeOK
<1>1. LifeAt(o) /\ UNCHANGED <<creator, cancel, pass>>
  BY DEF LifeOK, ReviewStep
<1>2. CASE o # u
  <2>1. /\ task'[o] = task[o] /\ life'[o] = life[o] /\ ticket'[o] = ticket[o] /\ review'[o] = review[o]
    BY <1>2 DEF ReviewStep, ReviewRead, ReviewTicket, ReviewTask, ReviewLife, Progress, WriteTask, WriteLife,
                db, TypeInv, TypeOK
  <2> QED BY <1>1, <2>1 DEF LifeAt, Moving, Works, Polls, Cancelled, pass
<1>3. CASE o = u
  <2>1. ticket[o] # "none"
    BY <1>3 DEF ReviewStep, ReviewRead, ReviewTicket, ReviewTask, ReviewLife, TypeInv, CreateOK, Act
  <2>2. creator[o] \notin {"blockTask", "allowTask"}
    BY <2>1 DEF TypeInv, CreateOK
  <2>3. \A p \in Pass : at[p] = "life" /\ phase[p] # "expire" => TaskOf[verdict[p]] # "awaiting_review"
    <3>1. \A v \in Verdict : TaskOf[v] # "awaiting_review"
      BY DEF Verdict, TaskOf
    <3>2. \A p \in Pass : at[p] = "life" /\ phase[p] # "expire" => verdict[p] \in Verdict
      BY DEF TypeInv, TypeOK, PassOK, OwnPlace, Verdict, TaskOf
    <3> QED BY <3>1, <3>2
  <2>4. \A p \in Pass : (Works(p, o)' <=> Works(p, o)) /\ (Polls(p, o)' <=> Polls(p, o))
                        /\ at'[p] = at[p] /\ phase'[p] = phase[p] /\ verdict'[p] = verdict[p]
    BY <1>1 DEF Works, Polls, pass
  <2> USE DEF Progress, WriteTask, WriteLife, TypeInv, TypeOK, Act
  <2>5. CASE ReviewRead(u, "reject") \/ ReviewTicket(u, "reject")
    <3>1. /\ task'[o] = task[o] /\ life'[o] = life[o] /\ ticket'[o] # "none"
          /\ review[o]["reject"] # "life" /\ review'[o]["reject"] # "life"
      BY <1>3, <2>1, <2>5 DEF ReviewRead, ReviewTicket, db
    <3> HIDE DEF TypeInv, TypeOK
    <3> QED BY <1>1, <2>1, <2>2, <2>4, <3>1 DEF LifeAt, Moving, Cancelled
  <2>6. CASE ReviewTask(u, "reject")
    <3>1. /\ life'[o] = life[o] /\ ticket'[o] = ticket[o] /\ review'[o]["reject"] = "life"
          /\ task'[o] = task[o] \/ (task[o] = "awaiting_review" /\ task'[o] = "rejected")
      BY <1>3, <2>6 DEF ReviewTask
    <3> HIDE DEF TypeInv, TypeOK
    <3> QED BY <1>1, <2>1, <2>2, <2>3, <2>4, <3>1 DEF LifeAt, Moving, Cancelled
  <2>7. CASE ReviewLife(u, "reject")
    <3>1. /\ task'[o] = task[o] /\ ticket'[o] = ticket[o] /\ life'[o] = "rejected"
      BY <1>3, <2>7 DEF ReviewLife
    <3> HIDE DEF TypeInv, TypeOK
    <3> QED BY <1>1, <2>1, <2>2, <2>4, <3>1 DEF LifeAt, LifeFor, Cancelled
  <2> QED BY <2>5, <2>6, <2>7 DEF ReviewStep
<1> QED BY <1>2, <1>3

LEMMA NoApproval ==
  ASSUME TypeInv, Calm', NEW o \in Order PROVE ~ReviewStep(o, "approve")
BY DEF Calm, ReviewStep, ReviewRead, ReviewTicket, ReviewTask, ReviewLife, Progress, TypeInv, TypeOK, Act

(* A pause is at work only once there was one.                              *)
PauseBegun == pauses = 0 => pauser = "idle"

LEMMA NextBegun == TypeInv /\ PauseBegun /\ [Next]_vars => PauseBegun'
<1> SUFFICES ASSUME TypeInv, PauseBegun, [Next]_vars PROVE PauseBegun'
  OBVIOUS
<1>1. CASE PauseStep
  BY <1>1 DEF PauseBegun, PauseStep, Pause, Resume, PauseScan, PauseCancel, PauseLife, PauseReturn,
              TypeInv, TypeOK
<1>2. CASE Crash
  BY <1>2 DEF Crash, PauseBegun
<1>3. CASE UNCHANGED <<pauses, pauser>>
  BY <1>3 DEF PauseBegun
<1> QED
  BY <1>1, <1>2, <1>3
     DEF Next, vars, control, CreateStep, RetryDue, CancelStep, ReviewStep, BrokerMove, PassBegin, PassStep

LEMMA CalmBefore == TypeInv /\ [Next]_vars /\ Calm' => Calm
<1> SUFFICES ASSUME TypeInv, [Next]_vars, Calm' PROVE Calm
  OBVIOUS
<1>1. crashes = 0 /\ ~Crash
  BY CrashesStay DEF Calm, Crash, TypeInv, TypeOK
<1>2. CASE PauseStep
  BY <1>1, <1>2 DEF Calm, PauseStep, Pause, Resume, PauseScan, PauseCancel, PauseLife, PauseReturn, requests,
                    TypeInv, TypeOK
<1>3. ASSUME NEW o \in Order, ReviewStep(o, "reject") PROVE Calm
  <2>1. UNCHANGED pauses /\ \E to : Progress(o, "reject", to)
    BY <1>3 DEF ReviewStep, ReviewRead, ReviewTicket, ReviewTask, ReviewLife, control
  <2>2. \A u \in Order : review'[u]["approve"] = review[u]["approve"]
    BY <2>1 DEF Progress, TypeInv, TypeOK
  <2> QED BY <1>1, <2>1, <2>2 DEF Calm
<1>4. CASE UNCHANGED <<pauses, review>>
  BY <1>1, <1>4 DEF Calm
<1> QED
  BY <1>1, <1>2, <1>3, <1>4, NoApproval
     DEF Next, Act, vars, requests, control, CreateStep, RetryDue, CancelStep, BrokerMove, PassBegin, PassStep

LEMMA NextLife ==
  ASSUME \A p, q \in Pass : p = q, TypeInv, PauseBegun, Calm, Calm', LifeOK, [Next]_vars
  PROVE  LifeOK'
<1>a. ASSUME UNCHANGED <<task, life, ticket, creator, review, cancel, pass>> PROVE LifeOK'
  BY <1>a, PassesLife DEF LifeOK, Cancelled
<1>1. ~Crash
  BY DEF Crash, Calm, TypeInv, TypeOK
<1>2. ASSUME NEW o \in Order, NEW a \in Act, ReviewStep(o, a) PROVE LifeOK'
  <2>1. a = "reject"
    BY <1>2, NoApproval DEF Act
  <2> QED BY <1>2, <2>1, RejectLife
<1>3. CASE PauseStep
  BY <1>3, <1>a DEF Calm, PauseBegun, PauseStep, Pause, Resume, PauseScan, PauseCancel, PauseLife,
                    PauseReturn, requests, db, TypeInv, TypeOK
<1>4. ASSUME NEW o \in Order, RetryDue(o) \/ \E i \in DOMAIN broker[o] : BrokerMove(o, i)
      PROVE  LifeOK'
  BY <1>4, <1>a DEF RetryDue, BrokerMove, db, requests
<1>5. CASE UNCHANGED vars
  BY <1>5, <1>a DEF vars, db, requests
<1> QED BY <1>1, <1>2, <1>3, <1>4, <1>5, CreateLifeOK, CancelLife, PassLifeOK DEF Next

(* While passes run one at a time, and until somebody approves, pauses or   *)
(* restarts, an order at rest shows in its lifecycle what its task says:    *)
(* over any retries, lost answers, polls, expiries, rejects and cancels.  A *)
(* second pass, an approval or a pause writes the lifecycle some time after *)
(* the task, over what was written meanwhile, and a restart between the two *)
(* writes leaves them apart.                                                *)
THEOREM LifecycleIsTask ==
  ASSUME \A p, q \in Pass : p = q
  PROVE  Spec => [](Calm => LifecycleMatches)
<1>1. Init => PauseBegun /\ LifeOK
  BY DEF Init, PauseBegun, LifeOK, LifeAt, Polls, Works, Moving, LifeFor, Act
<1>2. (Calm => LifeOK) => (Calm => LifecycleMatches)
  BY DEF LifeOK, LifeAt, Moving, Works, Busy, Cancelled, LifecycleMatches, Act
<1>3. TypeInv /\ PauseBegun /\ (Calm => LifeOK) /\ [Next]_vars => (Calm => LifeOK)'
  BY NextLife, CalmBefore
<1> QED BY <1>1, <1>2, <1>3, InitInv, NextInv, NextBegun, PTL DEF Spec

-----------------------------------------------------------------------------
(* Fills.  A paper order is filled at most once, whatever passes, restarts, *)
(* reviews, cancels and pauses there are.                                   *)

(* The owner of a paper order has not yet booked its fill.                  *)
Unbooked(p) ==
  \/ at[p] \in {"mark", "gate", "submit", "insert", "fill", "refuse"}
  \/ at[p] = "task" /\ verdict[p] # "filled"

PaperOK ==
  \A o \in Paper :
    /\ fills[o] <= 1
    /\ task[o] \in Unsent => fills[o] = 0
    /\ \A p \in Pass : Owns(p, o) /\ Unbooked(p) => fills[o] = 0

PaperFilledOnce == \A o \in Paper : fills[o] <= 1

LEMMA PaperKept ==
  ASSUME PaperOK, UNCHANGED fills,
         \A o \in Paper : /\ task'[o] \in Unsent => task[o] \in Unsent
                          /\ \A p \in Pass : (Owns(p, o) /\ Unbooked(p))'
                               => (Owns(p, o) /\ Unbooked(p)) \/ task[o] \in Unsent
  PROVE  PaperOK'
BY DEF PaperOK, Paper

(* A pass that leaves the fills and every task alone but for what it ends.  *)
LEMMA StepPaper ==
  ASSUME TypeInv, PaperOK, NEW p \in Pass, PassBegin(p) \/ PassStep(p), UNCHANGED fills,
         \A o \in Paper : /\ task'[o] \in Unsent => task[o] \in Unsent
                          /\ (Owns(p, o) /\ Unbooked(p))' => (Owns(p, o) /\ Unbooked(p)) \/ task[o] \in Unsent
  PROVE  PaperOK'
<1>1. ASSUME NEW q \in Pass, q # p, NEW o \in Paper
      PROVE  (Owns(q, o) /\ Unbooked(q))' => Owns(q, o) /\ Unbooked(q)
  BY <1>1, OthersPoll DEF Unbooked, Paper
<1> QED BY <1>1, PaperKept

LEMMA FillPaper ==
  ASSUME TypeInv, IdOK, PaperOK, NEW p \in Pass, PassStep(p), PassFill(p) PROVE PaperOK'
<1>1. PICK u \in Order : cur[p] = u
  BY DEF PassFill, TypeInv, PassOK, OwnPlace
<1>2. /\ at[p] = "fill" /\ phase[p] \in {"poll", "due"} /\ verdict[p] = "filled"
      /\ at'[p] = (IF phase[p] = "poll" THEN "row" ELSE "task")
      /\ UNCHANGED <<phase, cur, verdict, task>>
      /\ fills'[u] = fills[u] + 1 /\ \A o \in Order \ {u} : fills'[o] = fills[o]
  BY <1>1 DEF PassFill, Goto, TypeInv, TypeOK, PassOK, OwnPlace
<1>3. u \in Paper => Owns(p, u) /\ Unbooked(p)
  BY <1>1, <1>2 DEF Owns, Unbooked, Polls, IdOK, Paper
<1> SUFFICES ASSUME NEW o \in Paper
             PROVE  /\ fills'[o] <= 1
                    /\ task'[o] \in Unsent => fills'[o] = 0
                    /\ \A q \in Pass : (Owns(q, o) /\ Unbooked(q))' => fills'[o] = 0
  BY DEF PaperOK, Paper
<1>4. CASE o = u
  <2>1. fills[o] = 0
    BY <1>3, <1>4 DEF PaperOK
  <2>2. task[o] \notin Unsent
    BY <1>3, <1>4 DEF TypeInv, OwnOK, Unsent, Cancellable
  <2>3. ASSUME NEW q \in Pass PROVE ~(Owns(q, o) /\ Unbooked(q))'
    <3>1. CASE q = p
      BY <1>2, <3>1 DEF Unbooked
    <3>2. CASE q # p
      BY <1>3, <1>4, <3>2, OwnerAlone, OthersPoll
    <3> QED BY <3>1, <3>2
  <2> QED BY <1>2, <1>4, <2>1, <2>2, <2>3
<1>5. CASE o # u
  <2>1. o \in Order /\ fills'[o] = fills[o] /\ ~Owns(p, o)'
    BY <1>1, <1>2, <1>5 DEF Owns, Paper
  <2>2. \A q \in Pass : (Owns(q, o) /\ Unbooked(q))' => Owns(q, o) /\ Unbooked(q)
    BY <2>1, OthersPoll DEF Unbooked
  <2> QED BY <1>2, <2>1, <2>2 DEF PaperOK
<1> QED BY <1>4, <1>5

LEMMA PassPaper ==
  ASSUME TypeInv, IdOK, PaperOK, NEW p \in Pass, PassBegin(p) \/ PassStep(p) PROVE PaperOK'
<1> DEFINE Waits == \A o \in Paper : task'[o] \in Unsent => task[o] \in Unsent
           Holds == \A o \in Paper : (Owns(p, o) /\ Unbooked(p))'
                                        => (Owns(p, o) /\ Unbooked(p)) \/ task[o] \in Unsent
<1>a. ASSUME Waits, Holds, UNCHANGED fills PROVE PaperOK'
  BY <1>a, StepPaper
<1>b. UNCHANGED task => Waits
  OBVIOUS
<1>c. at'[p] \notin {"mark", "gate", "submit", "insert", "fill", "refuse", "task"} => Holds
  BY DEF Owns
<1>d. UNCHANGED <<phase, cur>> /\ Unbooked(p) /\ at[p] \in {"mark", "gate", "submit", "insert", "refuse"} => Holds
  BY DEF Owns
<1> USE DEF TypeInv, TypeOK, PassOK, OwnPlace, Goto, Decide, Take
<1> HIDE DEF Waits, Holds
<1>0. CASE PassBegin(p)
  <2>1. at'[p] = "scan" /\ UNCHANGED <<task, fills>>
    BY <1>0 DEF PassBegin, PassStart, db
  <2> QED BY <1>a, <1>b, <1>c, <2>1
<1>e. SUFFICES ASSUME PassStep(p) PROVE PaperOK'
  BY <1>0
<1>1. CASE PassScan(p) \/ PassNextSweep(p) \/ PassAskFails(p) \/ PassLife(p)
  <2>1. at'[p] \in {"next", "start", "scan"} /\ UNCHANGED <<task, fills>>
    BY <1>1 DEF PassScan, PassNextSweep, PassAskFails, PassLife, db
  <2> QED BY <1>a, <1>b, <1>c, <2>1
<1>2. CASE PassAsk(p) \/ PassRow(p)
  <2>1. phase'[p] = "poll" /\ UNCHANGED <<task, fills>>
    BY <1>2 DEF PassAsk, PassRow, db
  <2>2. Holds
    BY <2>1 DEF Holds, Owns
  <2> QED BY <1>a, <1>b, <2>1, <2>2
<1>3. CASE PassMark(p) \/ PassGate(p) \/ PassSubmit(p) \/ PassInsert(p) \/ PassRefuse(p)
  <2>1. /\ at[p] \in {"mark", "gate", "submit", "insert", "refuse"}
        /\ UNCHANGED <<phase, cur, task, fills>>
    <3>1. PassSubmit(p) => at[p] = "submit" /\ UNCHANGED <<phase, cur, task, fills>>
      BY SubmitDoes DEF PassSubmit, db
    <3> QED BY <1>3, <3>1 DEF PassMark, PassGate, PassInsert, PassRefuse, db
  <2> QED BY <1>a, <1>b, <1>d, <2>1 DEF Unbooked
<1>4. CASE PassTask(p)
  <2> HIDE DEF TypeInv, TypeOK, PassOK, OwnPlace
  <2>1. PICK u \in Order :
          /\ cur[p] = u /\ at[p] = "task" /\ at'[p] = "life" /\ phase[p] \in {"expire", "poll", "due"}
          /\ \A o \in Order \ {u} : task'[o] = task[o]
          /\ phase[p] = "due" =>
               /\ verdict[p] \in {"filled", "open", "paused", "blocked", "retry", "giveUp"}
               /\ task' = [task EXCEPT ![u] = TaskOf[verdict[p]]]
          /\ phase[p] = "poll" =>
               /\ verdict[p] \in {"filled", "refused", "dropped"}
               /\ task' = [task EXCEPT ![u] = TaskOf[verdict[p]]]
          /\ phase[p] = "expire" =>
               \/ UNCHANGED task
               \/ task[u] = "awaiting_review" /\ task' = [task EXCEPT ![u] = "rejected"]
    BY <1>4, TaskDoes
  <2>2. UNCHANGED fills /\ UNCHANGED <<phase, cur, verdict>>
    BY <1>4 DEF PassTask
  <2>3. Holds
    BY <1>c, <2>1
  <2>4. CASE u \in Paper /\ task'[u] \in Unsent => task[u] \in Unsent
    <3>1. Waits
      BY <2>1, <2>4 DEF Waits, Paper
    <3> QED BY <1>a, <2>2, <2>3, <3>1
  <2>5. CASE ~(u \in Paper /\ task'[u] \in Unsent => task[u] \in Unsent)
    <3>1. phase[p] = "due" /\ verdict[p] = "retry"
      <4>1. phase[p] # "poll"
        BY <2>1, <2>5 DEF Polls, IdOK, Paper
      <4>2. phase[p] # "expire"
        BY <2>1, <2>5 DEF Unsent, Cancellable, TypeInv, TypeOK
      <4>3. phase[p] = "due"
        BY <2>1, <4>1, <4>2
      <4>4. task'[u] = TaskOf[verdict[p]]
        BY <2>1, <4>3 DEF TypeInv, TypeOK
      <4> QED BY <2>1, <2>5, <4>3, <4>4 DEF TaskOf, Unsent, Cancellable
    <3>2. u \in Paper /\ Owns(p, u) /\ Unbooked(p)
      BY <2>1, <2>5, <3>1 DEF Owns, Unbooked
    <3>3. fills[u] = 0
      BY <3>2 DEF PaperOK
    <3>4. ASSUME NEW o \in Paper, NEW q \in Pass, (Owns(q, o) /\ Unbooked(q))' PROVE Owns(q, o) /\ Unbooked(q)
      <4>1. q # p
        BY <2>1, <3>4 DEF Unbooked
      <4> QED BY <1>e, <3>4, <4>1, OthersPoll DEF Unbooked, Paper
    <3> QED BY <2>1, <2>2, <3>3, <3>4 DEF PaperOK, Paper
  <2> QED BY <2>4, <2>5
<1>5. ASSUME NEW u \in Order, PassExpire(p, u) \/ PassPoll(p, u) PROVE PaperOK'
  <2>1. phase'[p] \in {"expire", "poll"} /\ UNCHANGED <<task, fills>>
    BY <1>5 DEF PassExpire, PassPoll, db
  <2>2. Holds
    BY <2>1 DEF Holds, Owns
  <2> QED BY <1>a, <1>b, <2>1, <2>2
<1>6. ASSUME NEW u \in Order, PassAcquire(p, u) PROVE PaperOK'
  <2>1. /\ cur'[p] = u /\ at[p] = "next" /\ UNCHANGED fills
        /\ \A o \in Order \ {u} : task'[o] = task[o]
        /\ \/ task[u] = "pending" /\ task'[u] = "dispatching" /\ at'[p] = "mark"
           \/ task'[u] = task[u] /\ at'[p] = "next"
    BY <1>6 DEF PassAcquire, WriteTask
  <2>2. Waits
    BY <2>1 DEF Waits, Paper, Unsent, Cancellable
  <2>3. Holds
    BY <2>1 DEF Holds, Owns, Unsent, Cancellable
  <2> QED BY <1>a, <2>1, <2>2, <2>3
<1> HIDE DEF TypeInv, TypeOK, PassOK, OwnPlace
<1>7. CASE PassFill(p)
  BY <1>7, <1>e, FillPaper
<1> QED BY <1>e, <1>1, <1>2, <1>3, <1>4, <1>5, <1>6, <1>7 DEF PassStep

LEMMA NextPaper == TypeInv /\ IdOK /\ PaperOK /\ [Next]_vars => PaperOK'
<1> SUFFICES ASSUME TypeInv, IdOK, PaperOK, [Next]_vars PROVE PaperOK'
  OBVIOUS
<1>a. ASSUME UNCHANGED <<fills, pass>>, \A o \in Order : task'[o] \in Unsent => task[o] \in Unsent
      PROVE  PaperOK'
  BY <1>a, PaperKept DEF pass, Owns, Unbooked, Paper
<1> USE DEF Unsent, Cancellable
<1>1. CASE UNCHANGED vars
  BY <1>1, <1>a DEF vars, db
<1>2. ASSUME NEW u \in Order, CreateStep(u) \/ RetryDue(u) \/ \E a \in Act : ReviewStep(u, a)
      PROVE  PaperOK'
  <2>1. UNCHANGED fills
    BY <1>2 DEF CreateStep, CreateIntent, CreateRisk, CreateLife, CreateTicket, CreateTask, RetryDue,
                ReviewStep, ReviewRead, ReviewTicket, ReviewTask, ReviewLife, db
  <2>2. \A o \in Order : task'[o] \in Unsent => task[o] \in Unsent
    BY <1>2, RequestDoes DEF TypeInv, TypeOK
  <2> QED BY <1>2, <1>a, <2>1, <2>2, RequestDoes
<1>3. CASE PauseStep
  <2>1. UNCHANGED fills
    BY <1>3 DEF PauseStep, Pause, Resume, PauseScan, PauseCancel, PauseLife, PauseReturn, db
  <2>2. \A o \in Order : task'[o] \in Unsent => task[o] \in Unsent
    BY <1>3, PauseDoes DEF TypeInv, TypeOK
  <2> QED BY <1>3, <1>a, <2>1, <2>2, PauseDoes
<1>4. ASSUME NEW u \in Order, NEW i \in DOMAIN broker[u], BrokerMove(u, i) PROVE PaperOK'
  BY <1>4, <1>a DEF BrokerMove, db
<1>5. ASSUME NEW u \in Order, CancelStep(u) PROVE PaperOK'
  <2>1. UNCHANGED fills
    BY <1>5 DEF CancelStep, CancelRead, CancelTask, CancelBroker, CancelRow, db
  <2>2. \A o \in Order : task'[o] \in Unsent => task[o] \in Unsent
    BY <1>5, CancelTurns DEF TypeInv, TypeOK
  <2> QED BY <1>5, <1>a, <2>1, <2>2, CancelTurns
<1>6. CASE Crash
  BY <1>6, PaperKept DEF Crash, db, Owns
<1> QED BY <1>1, <1>2, <1>3, <1>4, <1>5, <1>6, PassPaper DEF Next

(* The built-in paper account fills an order at most once: over any number  *)
(* of passes, retries, reviews, cancels, pauses and restarts.               *)
THEOREM PaperOnce == Spec => []PaperFilledOnce
<1>1. Init => PaperOK /\ IdOK
  BY DEF Init, PaperOK, IdOK, Polls, Owns, Paper
<1>2. PaperOK => PaperFilledOnce
  BY DEF PaperOK, PaperFilledOnce
<1> QED BY <1>1, <1>2, InitInv, NextInv, NextId, NextPaper, PTL DEF Spec

-----------------------------------------------------------------------------
(* A fill of the broker is booked at most once when passes run one at a     *)
(* time: it belongs to a row, and to one that no pass is still to book.     *)

(* Row k of o is open, or a pass is between the answer and the fill row; a  *)
(* poll that has booked the fill has only to close the row.                 *)
Awaits(o, k) ==
  \/ /\ row[o][k].status = "submitted"
     /\ ~(k = 1 /\ \E p \in Pass : Asking(p, o) /\ at[p] = "row")
  \/ k = 1 /\ \E p \in Pass : Asking(p, o) /\ at[p] \in {"ask", "fill"}
  \/ k = Len(row[o]) /\ \E p \in Pass : Owns(p, o) /\ at[p] = "fill"

FilledRow(o, k) ==
  row[o][k].id \in DOMAIN broker[o] /\ broker[o][row[o][k].id] = "filled"

Booked(o) == {k \in DOMAIN row[o] : FilledRow(o, k) /\ ~Awaits(o, k)}

OneRowEach(o) == \A j, k \in DOMAIN row[o] : row[o][j].id = row[o][k].id => j = k

(* What a pass knows that is about to write a row or a fill.                *)
FillAt(p, o) ==
  /\ Writes(p, o) =>
       /\ \A k \in DOMAIN row[o] : row[o][k].id # Len(broker[o])
       /\ verdict[p] = "filled" => broker[o][Len(broker[o])] = "filled"
  /\ Owns(p, o) /\ at[p] = "fill" =>
       /\ row[o] # <<>> /\ FilledRow(o, Len(row[o]))
       /\ row[o][Len(row[o])].status # "submitted"
  /\ Asking(p, o) /\ at[p] \in {"ask", "fill"} => row[o] # <<>>
  /\ Asking(p, o) /\ at[p] = "fill" => FilledRow(o, 1)

FillsAt(o) ==
  /\ OneRowEach(o) /\ fills[o] <= Cardinality(Booked(o))
  /\ \A p \in Pass : FillAt(p, o)

FillsOK == \A o \in Order \ Paper : FillsAt(o)

LEMMA BookedFinite ==
  ASSUME TypeInv, NEW o \in Order PROVE IsFiniteSet(Booked(o)) /\ Cardinality(Booked(o)) \in Nat
<1>1. row[o] \in Seq(Rows)
  BY DEF TypeInv, TypeOK
<1>2. IsFiniteSet(DOMAIN row[o])
  BY <1>1, FS_Interval
<1>3. Booked(o) \in SUBSET DOMAIN row[o]
  BY DEF Booked
<1> QED BY <1>2, <1>3, FS_Subset, FS_CardinalityType

LEMMA BookedFiniteNext ==
  ASSUME TypeInv', NEW o \in Order PROVE IsFiniteSet(Booked(o)') /\ Cardinality(Booked(o)') \in Nat
<1>1. row'[o] \in Seq(Rows)
  BY DEF TypeInv, TypeOK
<1>2. IsFiniteSet(DOMAIN row'[o])
  BY <1>1, FS_Interval
<1>3. Booked(o)' \in SUBSET DOMAIN row'[o]
  BY DEF Booked
<1> QED BY <1>2, <1>3, FS_Subset, FS_CardinalityType

(* Every booked row stands for an order of its own that is filled.          *)
LEMMA BookedBacked ==
  ASSUME TypeInv, NEW o \in Order, OneRowEach(o)
  PROVE  Cardinality(Booked(o)) <= Cardinality({i \in DOMAIN broker[o] : broker[o][i] = "filled"})
<1> DEFINE F == {i \in DOMAIN broker[o] : broker[o][i] = "filled"}
           idOf == [k \in Booked(o) |-> row[o][k].id]
<1>1. IsFiniteSet(F)
  <2>1. Len(broker[o]) \in Nat /\ DOMAIN broker[o] = 1 .. Len(broker[o])
    BY IdsKnown
  <2>2. IsFiniteSet(DOMAIN broker[o])
    BY <2>1, FS_Interval
  <2> QED BY <2>2, FS_Subset
<1>2. idOf \in [Booked(o) -> F] /\ \A j, k \in Booked(o) : idOf[j] = idOf[k] => j = k
  BY DEF Booked, FilledRow, OneRowEach
<1> HIDE DEF F, idOf
<1>3. idOf \in Injection(Booked(o), F)
  BY <1>2 DEF Injection, IsInjective
<1>4. Cardinality(Booked(o)) <= Cardinality(F)
  BY <1>1, <1>3, FS_Injection
<1> QED BY <1>4 DEF F

(* A filled row stays one, and stays booked if it awaits nothing new.       *)
LEMMA FilledRowStays ==
  ASSUME NEW o \in Order, Grows(o), NEW k \in DOMAIN row[o], FilledRow(o, k)
  PROVE  k \in DOMAIN row'[o] /\ FilledRow(o, k)'
BY DEF Grows, KeepsRows, Answered, FilledRow

LEMMA BookedStays ==
  ASSUME NEW o \in Order, Grows(o), \A k \in DOMAIN row[o] : Awaits(o, k)' => Awaits(o, k)
  PROVE  Booked(o) \subseteq Booked(o)'
BY FilledRowStays DEF Booked

LEMMA NoneBooked ==
  ASSUME TypeInv, TypeInv', NEW o \in Order, Grows(o), fills'[o] = fills[o],
         fills[o] <= Cardinality(Booked(o)),
         \A k \in DOMAIN row[o] : Awaits(o, k)' => Awaits(o, k)
  PROVE  fills'[o] <= Cardinality(Booked(o)')
<1>1. Booked(o) \subseteq Booked(o)'
  BY BookedStays
<1>2. IsFiniteSet(Booked(o)') /\ Cardinality(Booked(o)') \in Nat /\ Cardinality(Booked(o)) \in Nat
  BY BookedFinite, BookedFiniteNext
<1>3. Cardinality(Booked(o)) <= Cardinality(Booked(o)')
  BY <1>1, <1>2, FS_Subset
<1>4. fills[o] \in Nat
  BY DEF TypeInv, TypeOK
<1> QED BY <1>2, <1>3, <1>4

LEMMA OneBooked ==
  ASSUME TypeInv, TypeInv', NEW o \in Order, Grows(o), fills'[o] = fills[o] + 1,
         fills[o] <= Cardinality(Booked(o)),
         \A k \in DOMAIN row[o] : Awaits(o, k)' => Awaits(o, k),
         NEW n \in DOMAIN row[o], FilledRow(o, n), Awaits(o, n), ~Awaits(o, n)'
  PROVE  fills'[o] <= Cardinality(Booked(o)')
<1>1. Booked(o) \cup {n} \subseteq Booked(o)'
  BY BookedStays, FilledRowStays DEF Booked
<1>2. n \notin Booked(o)
  BY DEF Booked
<1>3. /\ IsFiniteSet(Booked(o)') /\ Cardinality(Booked(o)') \in Nat
      /\ IsFiniteSet(Booked(o)) /\ Cardinality(Booked(o)) \in Nat
  BY BookedFinite, BookedFiniteNext
<1>4. Cardinality(Booked(o) \cup {n}) = Cardinality(Booked(o)) + 1
  BY <1>2, <1>3, FS_AddElement
<1>5. Cardinality(Booked(o) \cup {n}) <= Cardinality(Booked(o)')
  BY <1>1, <1>3, FS_Subset
<1>6. fills[o] \in Nat
  BY DEF TypeInv, TypeOK
<1> QED BY <1>3, <1>4, <1>5, <1>6

(* The rows are the same but for statuses, and none is opened again.        *)
OpensNone(o) ==
  /\ Len(row'[o]) = Len(row[o]) /\ DOMAIN row'[o] = DOMAIN row[o]
  /\ \A j \in DOMAIN row[o] :
       /\ row'[o][j].id = row[o][j].id
       /\ row'[o][j].status = "submitted" => row[o][j].status = "submitted"

LEMMA SameOpens == ASSUME NEW o \in Order, row'[o] = row[o] PROVE OpensNone(o)
BY DEF OpensNone

LEMMA StatusOpens ==
  ASSUME TypeInv, TypeInv', NEW u \in Order, NEW k, NEW s, s # "submitted",
         row' = [row EXCEPT ![u][k].status = s], NEW o \in Order
  PROVE  OpensNone(o)
<1>1. /\ DOMAIN row'[o] = DOMAIN row[o]
      /\ \A j \in DOMAIN row[o] : row'[o][j].id = row[o][j].id
  BY StatusKeepsId
<1>2. row[o] \in Seq(Rows) /\ row'[o] \in Seq(Rows)
  BY DEF TypeInv, TypeOK
<1>3. Len(row'[o]) = Len(row[o])
  <2>1. /\ Len(row[o]) \in Nat /\ Len(row'[o]) \in Nat
        /\ DOMAIN row[o] = 1 .. Len(row[o]) /\ DOMAIN row'[o] = 1 .. Len(row'[o])
    BY <1>2
  <2>2. 1 .. Len(row[o]) = 1 .. Len(row'[o])
    BY <1>1, <2>1
  <2>3. ASSUME NEW m \in Nat, NEW n \in Nat, 1 .. m = 1 .. n PROVE m = n
    <3>1. (m # 0 => m \in 1 .. m) /\ (n # 0 => n \in 1 .. n)
      OBVIOUS
    <3>2. (m # 0 => m \in 1 .. n) /\ (n # 0 => n \in 1 .. m)
      BY <2>3, <3>1
    <3> QED BY <3>2
  <2> QED BY <2>1, <2>2, <2>3
<1>4. ASSUME NEW j \in DOMAIN row[o], row'[o][j].status = "submitted"
      PROVE  row[o][j].status = "submitted"
  <2>1. row'[o] = IF o = u THEN [row[u] EXCEPT ![k] = [row[u][k] EXCEPT !.status = s]] ELSE row[o]
    BY DEF TypeInv, TypeOK
  <2>2. row[o][j] \in Rows
    BY <1>2
  <2>3. [row[o][j] EXCEPT !.status = s].status = s
    BY <2>2 DEF Rows
  <2> QED BY <1>4, <2>1, <2>3
<1> QED BY <1>1, <1>3, <1>4 DEF OpensNone

LEMMA CancelOpens ==
  ASSUME TypeInv, TypeInv', NEW u \in Order, CancelStep(u), NEW o \in Order PROVE OpensNone(o)
<1>1. CASE UNCHANGED row
  BY <1>1, SameOpens
<1>2. CASE CancelRow(u)
  BY <1>2, StatusOpens DEF CancelRow
<1> QED BY <1>1, <1>2 DEF CancelStep, CancelRead, CancelTask, CancelBroker, db

(* Where the passes stand with an order, as far as its rows await them.     *)
Closing(p, o) == Asking(p, o) /\ at[p] = "row"
Hearing(p, o) == Asking(p, o) /\ at[p] \in {"ask", "fill"}
Filling(p, o) == Asking(p, o) /\ at[p] = "fill"
Booking(p, o) == Owns(p, o) /\ at[p] = "fill"

LEMMA StandsAre ==
  ASSUME NEW o \in Order
  PROVE  /\ \A k : Awaits(o, k) <=>
              \/ row[o][k].status = "submitted" /\ ~(k = 1 /\ \E p \in Pass : Closing(p, o))
              \/ k = 1 /\ \E p \in Pass : Hearing(p, o)
              \/ k = Len(row[o]) /\ \E p \in Pass : Booking(p, o)
         /\ \A k : Awaits(o, k)' <=>
              \/ row'[o][k].status = "submitted" /\ ~(k = 1 /\ \E p \in Pass : Closing(p, o)')
              \/ k = 1 /\ \E p \in Pass : Hearing(p, o)'
              \/ k = Len(row'[o]) /\ \E p \in Pass : Booking(p, o)'
BY DEF Awaits, Closing, Hearing, Booking

LEMMA FillAtIs ==
  ASSUME NEW p \in Pass, NEW o \in Order
  PROVE  FillAt(p, o) <=>
           /\ Writes(p, o) =>
                /\ \A k \in DOMAIN row[o] : row[o][k].id # Len(broker[o])
                /\ verdict[p] = "filled" => broker[o][Len(broker[o])] = "filled"
           /\ Booking(p, o) => /\ row[o] # <<>> /\ FilledRow(o, Len(row[o]))
                               /\ row[o][Len(row[o])].status # "submitted"
           /\ Hearing(p, o) => row[o] # <<>>
           /\ Filling(p, o) => FilledRow(o, 1)
BY DEF FillAt, Booking, Hearing, Filling

(* Nobody writes, hears or books anything new about an order.               *)
LEMMA FillsKept ==
  ASSUME TypeInv, TypeInv', NEW o \in Order \ Paper, FillsAt(o), Grows(o), fills'[o] = fills[o],
         OpensNone(o), Len(broker'[o]) = Len(broker[o]),
         \A p \in Pass : /\ Writes(p, o)' => Writes(p, o) /\ verdict'[p] = verdict[p]
                         /\ Booking(p, o)' => Booking(p, o)
                         /\ Hearing(p, o)' => Hearing(p, o)
                         /\ Filling(p, o)' => Filling(p, o)
                         /\ Closing(p, o) => Closing(p, o)'
  PROVE  FillsAt(o)'
<1>1. Len(row[o]) \in Nat /\ DOMAIN row[o] = 1 .. Len(row[o]) /\ (row[o] # <<>> => Len(row[o]) # 0 /\ row'[o] # <<>>)
  <2>1. row[o] \in Seq(Rows) /\ row'[o] \in Seq(Rows)
    BY DEF TypeInv, TypeOK
  <2> QED BY <2>1 DEF OpensNone
<1>2. \A k \in DOMAIN row[o] : Awaits(o, k)' => Awaits(o, k)
  BY StandsAre DEF OpensNone
<1>3. fills'[o] <= Cardinality(Booked(o)')
  BY <1>2, NoneBooked DEF FillsAt
<1>4. OneRowEach(o)'
  BY DEF FillsAt, OneRowEach, OpensNone
<1>5. ASSUME NEW p \in Pass PROVE FillAt(p, o)'
  <2>1. FillAt(p, o)
    BY DEF FillsAt
  <2>2. Writes(p, o)' =>
          /\ \A k \in DOMAIN row'[o] : row'[o][k].id # Len(broker'[o])
          /\ verdict'[p] = "filled" => broker'[o][Len(broker'[o])] = "filled"
    <3>1. Writes(p, o) => Len(broker[o]) \in DOMAIN broker[o] \/ broker[o] = <<>>
      BY IdsKnown
    <3>2. broker[o] = <<>> => Len(broker[o]) = 0 /\ Len(broker'[o]) = 0 /\ broker'[o] = broker[o]
      BY DEF TypeInv, TypeOK
    <3> QED BY <2>1, <3>1, <3>2 DEF FillAt, OpensNone, Grows, Answered
  <2>3. Booking(p, o)' => /\ row'[o] # <<>> /\ FilledRow(o, Len(row[o]))'
                          /\ row'[o][Len(row[o])].status # "submitted"
    BY <1>1, <2>1, FillAtIs, FilledRowStays DEF OpensNone
  <2>4. Hearing(p, o)' => row'[o] # <<>>
    BY <1>1, <2>1, FillAtIs
  <2>5. Filling(p, o)' => FilledRow(o, 1)'
    <3>1. Filling(p, o) => Hearing(p, o)
      BY DEF Filling, Hearing
    <3> QED BY <1>1, <2>1, <3>1, FillAtIs, FilledRowStays
  <2> QED BY <2>2, <2>3, <2>4, <2>5 DEF OpensNone, FillAt, Booking, Hearing, Filling, FilledRow
<1> QED BY <1>3, <1>4, <1>5 DEF FillsAt

(* One pass: a step that adds no order, no row and no fill.                 *)
LEMMA StepFills ==
  ASSUME \A p, q \in Pass : p = q, TypeInv, TypeInv', FillsOK, NEW p \in Pass, PassBegin(p) \/ PassStep(p),
         UNCHANGED <<fills, broker>>, \A o \in Order : OpensNone(o),
         \A o \in Order \ Paper : ~Writes(p, o)' /\ ~Booking(p, o)',
         \A o \in Order \ Paper : /\ Hearing(p, o)' => Hearing(p, o)
                                  /\ Filling(p, o)' => Filling(p, o)
                                  /\ Closing(p, o) => Closing(p, o)'
  PROVE  FillsOK'
<1> SUFFICES ASSUME NEW o \in Order \ Paper PROVE FillsAt(o)'
  BY DEF FillsOK, Paper
<1>1. \A q \in Pass : q = p
  OBVIOUS
<1>2. Grows(o)
  BY PassGrows
<1>3. FillsAt(o)
  BY DEF FillsOK
<1> QED BY <1>1, <1>2, <1>3, FillsKept

LEMMA PollFills ==
  ASSUME \A p, q \in Pass : p = q, TypeInv, TypeInv', FillsOK, NEW p \in Pass, PassStep(p),
         NEW u \in Order, PassPoll(p, u)
  PROVE  FillsOK'
<1>1. /\ at[p] = "next" /\ phase[p] = "poll" /\ phase'[p] = "poll" /\ cur'[p] = u
      /\ UNCHANGED <<row, fills, broker>>
      /\ at'[p] = IF row[u] # <<>> /\ Head(row[u]).status = "submitted" THEN "ask" ELSE "next"
  BY DEF PassPoll, Take, Goto, db, TypeInv, TypeOK
<1>2. CASE at'[p] = "next"
  <2>1. \A o \in Order : OpensNone(o)
    BY <1>1, SameOpens
  <2> QED BY <1>1, <1>2, <2>1, StepFills DEF Writes, Booking, Hearing, Filling, Closing, Asking, Owns
<1>3. CASE at'[p] = "ask"
  <2>1. row[u] # <<>> /\ row[u][1].status = "submitted"
    BY <1>1, <1>3, IdsKnown
  <2>2. \A q \in Pass : q = p
    OBVIOUS
  <2> SUFFICES ASSUME NEW o \in Order \ Paper PROVE FillsAt(o)'
    BY DEF FillsOK, Paper
  <2>3. Grows(o) /\ FillsAt(o)
    BY PassGrows DEF FillsOK
  <2>4. /\ ~Writes(p, o)' /\ ~Booking(p, o)' /\ ~Filling(p, o)' /\ ~Closing(p, o)
        /\ Hearing(p, o)' => o = u
    BY <1>1, <1>3 DEF Writes, Booking, Hearing, Filling, Closing, Asking, Owns
  <2>5. \A k \in DOMAIN row[o] : Awaits(o, k)' => Awaits(o, k)
    BY <1>1, <2>1, <2>2, <2>4, StandsAre
  <2>6. fills'[o] <= Cardinality(Booked(o)')
    BY <1>1, <2>3, <2>5, NoneBooked DEF FillsAt
  <2>7. \A q \in Pass : FillAt(q, o)'
    BY <1>1, <2>1, <2>2, <2>4 DEF FillAt, Hearing, Filling, Booking
  <2> QED BY <1>1, <2>3, <2>6, <2>7 DEF FillsAt, OneRowEach
<1> QED BY <1>1, <1>2, <1>3

LEMMA AskFills ==
  ASSUME \A p, q \in Pass : p = q, TypeInv, TypeInv', IdOK, FillsOK, NEW p \in Pass, PassStep(p), PassAsk(p)
  PROVE  FillsOK'
<1>1. PICK u \in Order : cur[p] = u
  BY DEF PassAsk, TypeInv, PassOK, OwnPlace
<1>2. /\ at[p] = "ask" /\ phase[p] = "poll" /\ UNCHANGED <<phase, cur, row, fills, broker>>
      /\ at'[p] \in {"next", "fill", "row"}
      /\ at'[p] = "fill" => broker[u][Head(row[u]).id] = "filled"
  BY <1>1 DEF PassAsk, Decide, Goto, TypeInv, TypeOK, PassOK, OwnPlace, db
<1>3. u \in Live /\ u \in Order \ Paper
  BY <1>1, <1>2 DEF IdOK, Polls, Paper
<1>4. Hearing(p, u)
  BY <1>1, <1>2 DEF Hearing, Asking
<1>5. \A q \in Pass : q = p
  OBVIOUS
<1>6. row[u] # <<>>
  BY <1>3, <1>4, FillAtIs DEF FillsOK, FillsAt
<1>7. at'[p] = "fill" => FilledRow(u, 1)
  BY <1>2, <1>3, <1>6, IdsKnown DEF FilledRow, IdOK
<1> SUFFICES ASSUME NEW o \in Order \ Paper PROVE FillsAt(o)'
  BY DEF FillsOK, Paper
<1>8. Grows(o) /\ FillsAt(o)
  BY PassGrows DEF FillsOK
<1>9. /\ ~Writes(p, o)' /\ ~Booking(p, o)' /\ ~Booking(p, o) /\ ~Closing(p, o)
      /\ Hearing(p, o)' => Hearing(p, o)
      /\ Filling(p, o)' => o = u /\ at'[p] = "fill"
  BY <1>1, <1>2 DEF Writes, Booking, Hearing, Filling, Closing, Asking, Owns
<1>10. \A k \in DOMAIN row[o] : Awaits(o, k)' => Awaits(o, k)
  BY <1>2, <1>5, <1>9, StandsAre
<1>11. fills'[o] <= Cardinality(Booked(o)')
  BY <1>2, <1>8, <1>10, NoneBooked DEF FillsAt
<1>12. \A q \in Pass : FillAt(q, o)'
  <2>1. Hearing(p, o)' => row'[o] # <<>>
    BY <1>2, <1>8, <1>9, FillAtIs DEF FillsAt
  <2>2. Filling(p, o)' => FilledRow(o, 1)'
    BY <1>2, <1>7, <1>9 DEF FilledRow
  <2> QED BY <1>5, <1>9, <2>1, <2>2 DEF FillAt, Hearing, Filling, Booking
<1> QED BY <1>2, <1>8, <1>11, <1>12 DEF FillsAt, OneRowEach

(* The fill row: of the first row when the pass has asked, of the last one  *)
(* when it has submitted.                                                   *)
LEMMA FillFills ==
  ASSUME \A p, q \in Pass : p = q, TypeInv, TypeInv', IdOK, FillsOK, NEW p \in Pass, PassStep(p), PassFill(p)
  PROVE  FillsOK'
<1>1. PICK u \in Order : cur[p] = u
  BY DEF PassFill, TypeInv, PassOK, OwnPlace
<1>2. /\ at[p] = "fill" /\ phase[p] \in {"poll", "due"} /\ UNCHANGED <<phase, cur, row, broker>>
      /\ at'[p] = (IF phase[p] = "poll" THEN "row" ELSE "task")
      /\ fills'[u] = fills[u] + 1 /\ \A o \in Order \ {u} : fills'[o] = fills[o]
  BY <1>1 DEF PassFill, Goto, TypeInv, TypeOK, PassOK, OwnPlace
<1>3. \A q \in Pass : q = p
  OBVIOUS
<1> SUFFICES ASSUME NEW o \in Order \ Paper PROVE FillsAt(o)'
  BY DEF FillsOK, Paper
<1>4. Grows(o) /\ FillsAt(o) /\ FillAt(p, o)
  BY PassGrows DEF FillsOK, FillsAt
<1>5. /\ ~Writes(p, o)' /\ ~Booking(p, o)' /\ ~Hearing(p, o)' /\ ~Filling(p, o)' /\ ~Closing(p, o)
      /\ o # u => ~Booking(p, o) /\ ~Hearing(p, o) /\ ~Closing(p, o)'
  BY <1>1, <1>2 DEF Writes, Booking, Hearing, Filling, Closing, Asking, Owns
<1>6. \A k \in DOMAIN row[o] : Awaits(o, k)' => Awaits(o, k)
  BY <1>2, <1>3, <1>5, StandsAre
<1>7. \A q \in Pass : FillAt(q, o)'
  BY <1>3, <1>5, FillAtIs DEF FillAt, Hearing, Filling, Booking
<1>8. fills'[o] <= Cardinality(Booked(o)')
  <2>1. CASE o # u
    BY <1>2, <1>4, <1>6, <2>1, NoneBooked DEF FillsAt
  <2>2. ASSUME o = u, NEW n \in DOMAIN row[o], FilledRow(o, n), Awaits(o, n), ~Awaits(o, n)'
        PROVE  fills'[o] <= Cardinality(Booked(o)')
    BY <1>2, <1>4, <1>6, <2>2, OneBooked DEF FillsAt
  <2>3. CASE o = u /\ phase[p] = "poll"
    <3>1. Hearing(p, o) /\ Filling(p, o) /\ Closing(p, o)' /\ ~Booking(p, o)'
      BY <1>1, <1>2, <1>5, <2>3 DEF Hearing, Filling, Closing, Asking
    <3>2. 1 \in DOMAIN row[o] /\ FilledRow(o, 1)
      BY <1>4, <3>1, FillAtIs, IdsKnown
    <3>3. Awaits(o, 1) /\ ~Awaits(o, 1)'
      BY <1>3, <1>5, <3>1, StandsAre
    <3> QED BY <2>2, <2>3, <3>2, <3>3
  <2>4. CASE o = u /\ phase[p] = "due"
    <3>1. Booking(p, o) /\ ~Closing(p, o)' /\ ~Hearing(p, o)
      BY <1>1, <1>2, <2>4 DEF Booking, Owns, Closing, Hearing, Asking
    <3>2. Len(row[o]) \in DOMAIN row[o] /\ FilledRow(o, Len(row[o])) /\ row[o][Len(row[o])].status # "submitted"
      <4>1. row[o] # <<>> /\ FilledRow(o, Len(row[o])) /\ row[o][Len(row[o])].status # "submitted"
        BY <1>4, <3>1, FillAtIs
      <4>2. row[o] # <<>> => Len(row[o]) \in DOMAIN row[o]
        <5>1. row[o] \in Seq(Rows)
          BY IdsKnown
        <5> QED BY <5>1
      <4> QED BY <4>1, <4>2
    <3>3. PICK n : n = Len(row[o])
      OBVIOUS
    <3>4. Awaits(o, n) /\ ~Awaits(o, n)'
      BY <1>2, <1>3, <1>5, <3>1, <3>2, <3>3, StandsAre
    <3> QED BY <2>2, <2>4, <3>2, <3>3, <3>4
  <2> QED BY <1>2, <2>1, <2>3, <2>4
<1> QED BY <1>2, <1>4, <1>7, <1>8 DEF FillsAt, OneRowEach

LEMMA RowFills ==
  ASSUME \A p, q \in Pass : p = q, TypeInv, TypeInv', FillsOK, NEW p \in Pass, PassStep(p), PassRow(p)
  PROVE  FillsOK'
<1>1. PICK u \in Order : cur[p] = u
  BY DEF PassRow, TypeInv, PassOK, OwnPlace
<1>2. /\ at[p] = "row" /\ phase[p] = "poll" /\ UNCHANGED <<phase, cur, fills, broker>> /\ at'[p] = "task"
  BY DEF PassRow, Goto, TypeInv, TypeOK, PassOK, OwnPlace
<1>3. PICK s \in {"filled", "rejected", "cancelled"} : row' = [row EXCEPT ![u][1].status = s]
  BY <1>1 DEF PassRow
<1>4. \A q \in Pass : q = p
  OBVIOUS
<1> SUFFICES ASSUME NEW o \in Order \ Paper PROVE FillsAt(o)'
  BY DEF FillsOK, Paper
<1>5. Grows(o) /\ FillsAt(o) /\ OpensNone(o)
  BY <1>3, PassGrows, StatusOpens DEF FillsOK
<1>6. /\ ~Writes(p, o)' /\ ~Booking(p, o)' /\ ~Hearing(p, o)' /\ ~Filling(p, o)'
      /\ Closing(p, o) => o = u
  BY <1>1, <1>2 DEF Writes, Booking, Hearing, Filling, Closing, Asking, Owns
<1>7. ASSUME 1 \in DOMAIN row[u] PROVE row'[u][1].status # "submitted"
  <2>1. s \in {"submitted", "filled", "rejected", "cancelled"} /\ s # "submitted"
    OBVIOUS
  <2>2. \A j \in DOMAIN row[u] : /\ row'[u][j].id = row[u][j].id
                                  /\ row'[u][j].status = IF j = 1 THEN s ELSE row[u][j].status
    BY <1>3, <1>7, <2>1, StatusDoes
  <2> QED BY <1>7, <2>1, <2>2
<1>8. \A k \in DOMAIN row[o] : Awaits(o, k)' => Awaits(o, k)
  BY <1>4, <1>5, <1>6, <1>7, StandsAre DEF OpensNone
<1>9. fills'[o] <= Cardinality(Booked(o)')
  BY <1>2, <1>5, <1>8, NoneBooked DEF FillsAt
<1>10. \A q \in Pass : FillAt(q, o)'
  BY <1>4, <1>6 DEF FillAt, Hearing, Filling, Booking
<1>11. OneRowEach(o)'
  BY <1>5 DEF FillsAt, OneRowEach, OpensNone
<1> QED BY <1>9, <1>10, <1>11 DEF FillsAt

LEMMA InsertFills ==
  ASSUME \A p, q \in Pass : p = q, TypeInv, TypeInv', IdOK, FillsOK, NEW p \in Pass, PassStep(p), PassInsert(p)
  PROVE  FillsOK'
<1>1. PICK u \in Order :
        LET s == IF verdict[p] = "filled" THEN "filled" ELSE "submitted"
            n == Len(row[u]) + 1
        IN /\ cur[p] = u /\ Owns(p, u) /\ at[p] = "insert"
           /\ UNCHANGED broker /\ UNCHANGED <<phase, cur, verdict>>
           /\ at'[p] = CASE verdict[p] = "filled" -> "fill"
                         [] verdict[p] = "open" -> "task"
                         [] OTHER -> "refuse"
           /\ \A o \in Order \ {u} : row'[o] = row[o]
           /\ Len(row[u]) \in Nat /\ Len(row'[u]) = n /\ row'[u] # <<>>
           /\ DOMAIN row[u] = 1 .. Len(row[u]) /\ DOMAIN row'[u] = 1 .. n
           /\ \A j \in DOMAIN row[u] : row'[u][j] = row[u][j]
           /\ row'[u][n].id = Len(broker[u]) /\ row'[u][n].status = s
  BY InsertDoes
<1>2. UNCHANGED fills
  BY DEF PassInsert
<1>3. phase[p] = "due" /\ at'[p] \in {"fill", "task", "refuse"} /\ (at'[p] = "fill" => verdict[p] = "filled")
  BY <1>1 DEF Owns
<1>4. \A q \in Pass : q = p
  OBVIOUS
<1> SUFFICES ASSUME NEW o \in Order \ Paper PROVE FillsAt(o)'
  BY DEF FillsOK, Paper
<1>5. Grows(o) /\ FillsAt(o) /\ FillAt(p, o)
  BY PassGrows DEF FillsOK, FillsAt
<1>6. /\ ~Writes(p, o)' /\ ~Hearing(p, o)' /\ ~Filling(p, o)' /\ ~Closing(p, o)
      /\ Booking(p, o)' => o = u /\ at'[p] = "fill"
  BY <1>1, <1>3 DEF Writes, Booking, Hearing, Filling, Closing, Asking, Owns
<1>7. CASE o # u
  <2>1. OpensNone(o) /\ ~Closing(p, o)' /\ ~Booking(p, o)'
    BY <1>1, <1>3, <1>6, <1>7, SameOpens DEF Closing, Asking
  <2> QED BY <1>1, <1>2, <1>4, <1>5, <1>6, <2>1, FillsKept
<1>8. CASE o = u
  <2>1. \A k \in DOMAIN row[o] : Awaits(o, k)' => Awaits(o, k)
    <3>1. \A k \in DOMAIN row[o] : k # Len(row'[o]) /\ row'[o][k] = row[o][k]
      BY <1>1, <1>8
    <3> QED BY <1>4, <1>6, <3>1, StandsAre
  <2>2. fills'[o] <= Cardinality(Booked(o)')
    BY <1>2, <1>5, <2>1, NoneBooked DEF FillsAt
  <2>3. /\ \A k \in DOMAIN row[o] : row[o][k].id # Len(broker[o])
        /\ verdict[p] = "filled" => broker[o][Len(broker[o])] = "filled"
    <3>1. Writes(p, o)
      BY <1>1, <1>8 DEF Writes
    <3> QED BY <1>5, <3>1 DEF FillAt
  <2>4. PICK n \in Nat : n = Len(row'[o])
    BY <1>1, <1>8
  <2>5. /\ DOMAIN row'[o] = DOMAIN row[o] \cup {n} /\ row'[o][n].id = Len(broker[o])
        /\ \A k \in DOMAIN row[o] : row'[o][k] = row[o][k]
        /\ at'[p] = "fill" => row'[o][n].status # "submitted"
    BY <1>1, <1>3, <1>8, <2>4
  <2>6. OneRowEach(o)'
    BY <1>5, <2>3, <2>5 DEF FillsAt, OneRowEach
  <2>7. at'[p] = "fill" => FilledRow(o, n)'
    <3>1. Len(broker[o]) \in DOMAIN broker[o]
      BY <1>1, <1>8, IdsKnown DEF IdOK
    <3> QED BY <1>1, <1>3, <1>8, <2>3, <2>5, <3>1 DEF FilledRow
  <2>8. ASSUME NEW q \in Pass PROVE FillAt(q, o)'
    <3>1. Booking(q, o)' => /\ row'[o] # <<>> /\ FilledRow(o, n)' /\ row'[o][n].status # "submitted"
      BY <1>1, <1>4, <1>6, <1>8, <2>5, <2>7
    <3>2. ~Writes(q, o)' /\ ~Hearing(q, o)' /\ ~Filling(q, o)'
      BY <1>4, <1>6
    <3> QED BY <2>4, <3>1, <3>2 DEF FillAt, Hearing, Filling, Booking, FilledRow
  <2> QED BY <2>2, <2>6, <2>8 DEF FillsAt
<1> QED BY <1>7, <1>8

LEMMA SubmitFills ==
  ASSUME \A p, q \in Pass : p = q, TypeInv, TypeInv', IdOK, FillsOK, NEW p \in Pass, PassStep(p), PassSubmit(p)
  PROVE  FillsOK'
<1>1. PICK u \in Order : cur[p] = u
  BY DEF PassSubmit, TypeInv, PassOK, OwnPlace
<1>2. at[p] = "submit" /\ phase[p] = "due" /\ UNCHANGED <<phase, cur, row, fills>>
  <2>1. at[p] = "submit"
    BY DEF PassSubmit
  <2>2. phase[p] = "due"
    BY <2>1 DEF TypeInv, PassOK, OwnPlace
  <2> QED BY <2>1, <2>2, SubmitDoes DEF db
<1>3. \/ at'[p] # "insert" /\ (UNCHANGED broker \/ \E s \in Held : Accept(u, s))
      \/ \E s \in Held : Accept(u, s) /\ (verdict'[p] = "filled" => s = "filled")
  <2>1. \/ UNCHANGED <<at, verdict>> /\ (UNCHANGED broker \/ Accept(u, "open"))
        \/ Decide(p, Failure(u), "task") /\ (UNCHANGED broker \/ Accept(u, "open"))
        \/ Accept(u, "filled")
        \/ Accept(u, "open") /\ Decide(p, "open", "insert")
        \/ Accept(u, "rejected") /\ Decide(p, Failure(u), "insert")
    BY <1>1 DEF PassSubmit
  <2>2. Failure(u) # "filled"
    BY FailureIs
  <2> QED BY <1>2, <2>1, <2>2 DEF Decide, Goto, Held, TypeInv, TypeOK
<1>4. \A q \in Pass : q = p
  OBVIOUS
<1> SUFFICES ASSUME NEW o \in Order \ Paper PROVE FillsAt(o)'
  BY DEF FillsOK, Paper
<1>5. Grows(o) /\ FillsAt(o)
  BY PassGrows DEF FillsOK
<1>6. at'[p] \in {"submit", "insert", "task"}
  BY <1>2, SubmitDoes DEF Decide, Goto, TypeInv, TypeOK
<1>7. /\ ~Booking(p, o)' /\ ~Hearing(p, o)' /\ ~Filling(p, o)' /\ ~Closing(p, o)
      /\ Writes(p, o)' => o = u /\ at'[p] = "insert"
  BY <1>1, <1>2, <1>6 DEF Writes, Booking, Hearing, Filling, Closing, Asking, Owns
<1>8. \A k \in DOMAIN row[o] : Awaits(o, k)' => Awaits(o, k)
  BY <1>2, <1>4, <1>7, StandsAre
<1>9. fills'[o] <= Cardinality(Booked(o)')
  BY <1>2, <1>5, <1>8, NoneBooked DEF FillsAt
<1>10. Writes(p, o)' =>
         /\ \A k \in DOMAIN row[o] : row[o][k].id # Len(broker'[o])
         /\ verdict'[p] = "filled" => broker'[o][Len(broker'[o])] = "filled"
  <2>1. ASSUME NEW s \in Held, Accept(u, s), verdict'[p] = "filled" => s = "filled", o = u
        PROVE  /\ \A k \in DOMAIN row[o] : row[o][k].id # Len(broker'[o])
               /\ verdict'[p] = "filled" => broker'[o][Len(broker'[o])] = "filled"
    <3>1. /\ Len(broker[o]) \in Nat /\ Len(broker'[o]) = Len(broker[o]) + 1
          /\ DOMAIN broker[o] = 1 .. Len(broker[o])
          /\ broker'[o][Len(broker[o]) + 1] = s
      BY <2>1, AcceptDoes
    <3>2. \A k \in DOMAIN row[o] : row[o][k].id \in 1 .. Len(broker[o])
      BY <3>1 DEF IdOK
    <3> QED BY <2>1, <3>1, <3>2
  <2> QED BY <1>3, <1>7, <2>1
<1>11. \A q \in Pass : FillAt(q, o)'
  BY <1>2, <1>4, <1>7, <1>10 DEF FillAt, Hearing, Filling, Booking
<1> QED BY <1>2, <1>5, <1>9, <1>11 DEF FillsAt, OneRowEach

LEMMA PassFills ==
  ASSUME \A p, q \in Pass : p = q, TypeInv, TypeInv', IdOK, FillsOK, NEW p \in Pass, PassBegin(p) \/ PassStep(p)
  PROVE  FillsOK'
<1> DEFINE Idle == \A o \in Order \ Paper :
                     /\ ~Writes(p, o)' /\ ~Booking(p, o)' /\ ~Hearing(p, o)' /\ ~Filling(p, o)'
                     /\ ~Closing(p, o)
<1>a. ASSUME Idle, UNCHANGED <<fills, broker>>, \A o \in Order : OpensNone(o) PROVE FillsOK'
  BY <1>a, StepFills
<1>b. UNCHANGED row => \A o \in Order : OpensNone(o)
  BY SameOpens
<1>c. ASSUME at[p] # "row", at'[p] \notin {"ask", "fill", "insert"} PROVE Idle
  BY <1>c DEF Writes, Booking, Hearing, Filling, Closing, Asking, Owns
<1> USE DEF TypeInv, TypeOK, PassOK, OwnPlace, Goto, Decide, Take
<1> HIDE DEF Idle
<1>0. CASE PassBegin(p)
  <2>1. at[p] = "start" /\ at'[p] = "scan" /\ UNCHANGED <<row, fills, broker>>
    BY <1>0 DEF PassBegin, PassStart, db
  <2> QED BY <1>a, <1>b, <1>c, <2>1
<1>d. SUFFICES ASSUME PassStep(p) PROVE FillsOK'
  BY <1>0
<1>1. CASE PassScan(p) \/ PassNextSweep(p) \/ PassAskFails(p) \/ PassMark(p) \/ PassTask(p) \/ PassLife(p)
  <2>1. /\ at[p] \in {"scan", "next", "ask", "mark", "task", "life"}
        /\ at'[p] \in {"next", "start", "scan", "gate", "life"} /\ UNCHANGED <<row, fills, broker>>
    BY <1>1 DEF PassScan, PassNextSweep, PassAskFails, PassMark, PassTask, PassLife, db
  <2> QED BY <1>a, <1>b, <1>c, <2>1
<1>2. CASE PassGate(p)
  <2>1. /\ at[p] = "gate" /\ phase'[p] = "due" /\ UNCHANGED <<cur, row, fills, broker>>
        /\ at'[p] \in {"task", "submit"} \/ (at'[p] = "insert" /\ cur[p] \in Paper)
    BY <1>2 DEF PassGate, db
  <2>2. Idle
    BY <2>1 DEF Idle, Writes, Booking, Hearing, Filling, Closing, Asking, Owns
  <2> QED BY <1>a, <1>b, <2>1, <2>2
<1>3. ASSUME NEW u \in Order, PassExpire(p, u) \/ PassAcquire(p, u) PROVE FillsOK'
  <2>1. /\ at[p] = "next" /\ at'[p] \in {"task", "mark", "next"} /\ UNCHANGED <<row, fills, broker>>
    BY <1>3 DEF PassExpire, PassAcquire
  <2> QED BY <1>a, <1>b, <1>c, <2>1
<1>4. CASE PassRefuse(p)
  <2>1. at[p] = "refuse" /\ at'[p] = "task" /\ UNCHANGED <<fills, broker>>
    BY <1>4 DEF PassRefuse
  <2>2. PICK u \in Order : cur[p] = u
    BY <2>1
  <2>3. row' = [row EXCEPT ![u][Len(row[u])].status = "rejected"]
    BY <1>4, <2>2 DEF PassRefuse
  <2> HIDE DEF TypeInv, TypeOK, PassOK, OwnPlace
  <2>4. \A o \in Order : OpensNone(o)
    BY <2>3, StatusOpens
  <2> QED BY <1>a, <1>c, <2>1, <2>4
<1> HIDE DEF TypeInv, TypeOK, PassOK, OwnPlace
<1> QED
  BY <1>d, <1>1, <1>2, <1>3, <1>4, PollFills, AskFills, FillFills, RowFills, InsertFills, SubmitFills DEF PassStep

LEMMA NextFills ==
  ASSUME \A p, q \in Pass : p = q, crashes' = 0,
         TypeInv, TypeInv', IdOK, FillsOK, [Next]_vars
  PROVE  FillsOK'
<1>a. ASSUME UNCHANGED <<fills, pass>>, \A o \in Order : OpensNone(o) /\ Len(broker'[o]) = Len(broker[o])
      PROVE  FillsOK'
  <2>1. \A o \in Order : Grows(o)
    BY AllGrow
  <2> QED BY <1>a, <2>1, FillsKept DEF FillsOK, Paper, pass, Writes, Booking, Hearing, Filling, Closing, Asking, Owns
<1>b. UNCHANGED row => \A o \in Order : OpensNone(o)
  BY SameOpens
<1>1. CASE UNCHANGED vars
  BY <1>1, <1>a, <1>b DEF vars, db
<1>2. ASSUME NEW u \in Order, CreateStep(u) \/ RetryDue(u) \/ \E a \in Act : ReviewStep(u, a)
      PROVE  FillsOK'
  <2>1. UNCHANGED fills
    BY <1>2 DEF CreateStep, CreateIntent, CreateRisk, CreateLife, CreateTicket, CreateTask, RetryDue,
                ReviewStep, ReviewRead, ReviewTicket, ReviewTask, ReviewLife, db
  <2> QED BY <1>2, <1>a, <1>b, <2>1, RequestDoes
<1>3. CASE PauseStep
  <2>1. UNCHANGED fills
    BY <1>3 DEF PauseStep, Pause, Resume, PauseScan, PauseCancel, PauseLife, PauseReturn, db
  <2> QED BY <1>3, <1>a, <1>b, <2>1, PauseDoes
<1>4. ASSUME NEW u \in Order, NEW i \in DOMAIN broker[u], BrokerMove(u, i) PROVE FillsOK'
  <2>1. UNCHANGED fills
    BY <1>4 DEF BrokerMove, db
  <2> QED BY <1>4, <1>a, <1>b, <2>1, MoveDoes
<1>5. ASSUME NEW u \in Order, CancelStep(u) PROVE FillsOK'
  BY <1>5, <1>a, CancelDoes, CancelOpens
<1>6. ~Crash
  BY DEF Crash, TypeInv, TypeOK
<1> QED BY <1>1, <1>2, <1>3, <1>4, <1>5, <1>6, PassFills DEF Next

(* While passes run one at a time, and until the host restarts, no more     *)
(* fills are booked for an order than the broker has filled, and one for a  *)
(* paper order: over any retries, lost answers, reviews, cancels and pauses.*)
(* Two passes that hear of one fill, or a restart between the fill row and  *)
(* the record of it, book it twice.                                         *)
THEOREM FilledOnce ==
  ASSUME \A p, q \in Pass : p = q PROVE Spec => [](crashes = 0 => FillOnce)
<1>1. Init => PaperOK /\ IdOK /\ FillsOK
  <2> SUFFICES ASSUME Init PROVE PaperOK /\ IdOK /\ FillsOK
    OBVIOUS
  <2>1. PaperOK /\ IdOK
    BY DEF Init, PaperOK, IdOK, Polls, Owns, Paper
  <2>2. ASSUME NEW o \in Order \ Paper PROVE FillsAt(o)
    <3>1. fills[o] = 0 /\ row[o] = <<>> /\ o \in Order
      BY DEF Init
    <3>2. Cardinality(Booked(o)) \in Nat
      BY InitInv, BookedFinite
    <3>3. OneRowEach(o)
      BY <3>1 DEF OneRowEach
    <3>4. \A p \in Pass : FillAt(p, o)
      BY DEF Init, FillAt, Writes, Asking, Owns
    <3> QED BY <3>1, <3>2, <3>3, <3>4 DEF FillsAt
  <2> QED BY <2>1, <2>2 DEF FillsOK
<1>2. TypeInv /\ PaperOK /\ (crashes = 0 => FillsOK) => (crashes = 0 => FillOnce)
  <2> SUFFICES ASSUME TypeInv, PaperOK, FillsOK, NEW o \in Order
               PROVE  fills[o] <= IF o \in Paper THEN 1
                        ELSE Cardinality({i \in DOMAIN broker[o] : broker[o][i] = "filled"})
    BY DEF FillOnce
  <2>1. CASE o \in Paper
    BY <2>1 DEF PaperOK
  <2>2. CASE o \notin Paper
    <3> DEFINE F == {i \in DOMAIN broker[o] : broker[o][i] = "filled"}
    <3>1. fills[o] <= Cardinality(Booked(o)) /\ OneRowEach(o)
      BY <2>2 DEF FillsOK, FillsAt
    <3>2. Cardinality(Booked(o)) <= Cardinality(F)
      BY <3>1, BookedBacked
    <3>3. Cardinality(F) \in Nat
      <4>1. Len(broker[o]) \in Nat /\ DOMAIN broker[o] = 1 .. Len(broker[o])
        BY IdsKnown
      <4>2. IsFiniteSet(DOMAIN broker[o])
        BY <4>1, FS_Interval
      <4> QED BY <4>2, FS_Subset, FS_CardinalityType
    <3>4. fills[o] \in Nat /\ Cardinality(Booked(o)) \in Nat
      BY BookedFinite DEF TypeInv, TypeOK
    <3> HIDE DEF F
    <3>5. fills[o] <= Cardinality(F)
      BY <3>1, <3>2, <3>3, <3>4
    <3> QED BY <2>2, <3>5 DEF F
  <2> QED BY <2>1, <2>2
<1>3. TypeInv /\ TypeInv' /\ IdOK /\ (crashes = 0 => FillsOK) /\ [Next]_vars => (crashes = 0 => FillsOK)'
  BY NextFills, CrashesStay
<1> QED BY <1>1, <1>2, <1>3, InitInv, NextInv, NextId, NextPaper, PTL DEF Spec

===============================================================================
