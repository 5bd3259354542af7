------------------------ MODULE OrderSettlementProofs ------------------------
(***************************************************************************)
(* OrderExecution submits no more often than its attempts and retries      *)
(* allow, and leaves a final status alone.                                 *)
(***************************************************************************)
EXTENDS OrderExecutionProofs

(* The status of a task that nobody works on and nobody has ended.          *)
Unsent == {"none"} \cup Cancellable

(* What an owner may have submitted beyond the retries on record.           *)
Room(p) == IF at[p] \in {"mark", "gate"} THEN 0
           ELSE IF at[p] = "submit" THEN tries[p] ELSE MaxAttempts

Quota(o) == retries[o] * MaxAttempts

QuotaOK ==
  \A o \in Order :
    /\ Len(broker[o]) <= Quota(o) + MaxAttempts
    /\ task[o] \in Unsent => Len(broker[o]) <= Quota(o)
    /\ \A p \in Pass : Owns(p, o) => Len(broker[o]) <= Quota(o) + Room(p)

-----------------------------------------------------------------------------
(* What the steps do, as far as these proofs ask.                           *)

(* A pass that works on a task is alone with it.                            *)
LEMMA OwnerAlone ==
  ASSUME TypeInv, NEW p \in Pass, NEW o \in Order, Owns(p, o)
  PROVE  \A q \in Pass : ~Polls(q, o) /\ (Owns(q, o) => q = p)
BY DEF TypeInv, OwnOK

LEMMA TaskDoes ==
  ASSUME TypeInv, NEW p \in Pass, PassTask(p)
  PROVE  \E u \in Order :
           /\ cur[p] = u /\ at[p] = "task" /\ at'[p] = "life" /\ phase[p] \in {"expire", "poll", "due"}
           /\ UNCHANGED <<phase, todo, cur, verdict, tries, row, broker, lost>>
           /\ \A o \in Order \ {u} : task'[o] = task[o] /\ retries'[o] = retries[o]
           /\ phase[p] = "due" =>
                /\ verdict[p] \in {"filled", "open", "paused", "blocked", "retry", "giveUp"}
                /\ task' = [task EXCEPT ![u] = TaskOf[verdict[p]]]
                /\ retries'[u] = IF verdict[p] \in {"retry", "giveUp"} THEN retries[u] + 1
                                                                      ELSE retries[u]
           /\ phase[p] = "poll" =>
                /\ verdict[p] \in {"filled", "refused", "dropped"}
                /\ task' = [task EXCEPT ![u] = TaskOf[verdict[p]]] /\ UNCHANGED retries
           /\ phase[p] = "expire" =>
                /\ \/ UNCHANGED task
                   \/ task[u] = "awaiting_review" /\ task' = [task EXCEPT ![u] = "rejected"]
                /\ UNCHANGED retries
<1> USE DEF TypeInv, TypeOK
<1>1. PICK u \in Order : cur[p] = u
  BY DEF PassTask, PassOK, OwnPlace
<1>2. /\ at[p] = "task" /\ at'[p] = "life" /\ phase[p] \in {"expire", "poll", "due"}
      /\ UNCHANGED <<phase, todo, cur, verdict, tries, row, broker, lost>>
  BY DEF PassTask, Goto, PassOK, OwnPlace
<1>3. \A o \in Order \ {u} : task'[o] = task[o] /\ retries'[o] = retries[o]
  BY <1>1 DEF PassTask, WriteTask
<1>4. CASE phase[p] = "due"
  <2>1. verdict[p] \in {"filled", "open", "paused", "blocked", "retry", "giveUp"}
    BY <1>2, <1>4 DEF PassOK, OwnPlace
  <2> QED BY <1>1, <1>2, <1>3, <1>4, <2>1 DEF PassTask, WriteTask
<1>5. CASE phase[p] = "poll"
  <2>1. verdict[p] \in {"filled", "refused", "dropped"}
    BY <1>2, <1>5 DEF PassOK, OwnPlace
  <2> QED BY <1>1, <1>2, <1>3, <1>5, <2>1 DEF PassTask, WriteTask
<1>6. CASE phase[p] = "expire"
  <2>1. verdict[p] = "expired"
    BY <1>2, <1>6 DEF PassOK, OwnPlace
  <2> QED BY <1>1, <1>2, <1>3, <1>6, <2>1 DEF PassTask, WriteTask, TaskOf
<1> QED BY <1>2, <1>4, <1>5, <1>6

(* Requests write only tasks that are not under way, but for the user's     *)
(* cancel; and none of them submits anything.                               *)
LEMMA RequestDoes ==
  ASSUME TypeInv, NEW o \in Order,
         CreateStep(o) \/ RetryDue(o) \/ \E a \in Act : ReviewStep(o, a)
  PROVE  /\ UNCHANGED <<row, broker, retries, cancel, pass, lost>>
         /\ \/ UNCHANGED task
            \/ /\ task[o] = "none"
               /\ \E s \in {"awaiting_review", "pending", "rejected"} :
                    task' = [task EXCEPT ![o] = s]
            \/ /\ task[o] = "awaiting_review"
               /\ \E s \in {"pending", "rejected"} : task' = [task EXCEPT ![o] = s]
<1> UNCHANGED <<row, broker, retries, cancel, pass, lost>>
  BY DEF CreateStep, CreateIntent, CreateRisk, CreateLife, CreateTicket, CreateTask, RetryDue,
         ReviewStep, ReviewRead, ReviewTicket, ReviewTask, ReviewLife, db, requests
<1>1. CASE CreateTask(o)
  BY <1>1 DEF CreateTask, WriteTask, TypeInv, CreateOK
<1>2. ASSUME NEW a \in Act, ReviewTask(o, a)
      PROVE  \/ UNCHANGED task
             \/ /\ task[o] = "awaiting_review"
                /\ \E s \in {"pending", "rejected"} : task' = [task EXCEPT ![o] = s]
  BY <1>2 DEF ReviewTask, WriteTask
<1> QED
  BY <1>1, <1>2 DEF CreateStep, CreateIntent, CreateRisk, CreateLife, CreateTicket, RetryDue,
     ReviewStep, ReviewRead, ReviewTicket, ReviewLife, db

LEMMA PauseDoes ==
  ASSUME TypeInv, PauseStep
  PROVE  /\ UNCHANGED <<row, broker, retries, cancel, pass, lost>>
         /\ \/ UNCHANGED task
            \/ \E o \in Order : task[o] \in Cancellable /\ task' = [task EXCEPT ![o] = "cancelled"]
<1>1. UNCHANGED <<row, broker, retries, cancel, pass, lost>>
  BY DEF PauseStep, Pause, Resume, PauseScan, PauseCancel, PauseLife, PauseReturn, db, requests
<1>2. \/ UNCHANGED task
      \/ \E o \in Order : task[o] \in Cancellable /\ task' = [task EXCEPT ![o] = "cancelled"]
  BY DEF PauseStep, Pause, Resume, PauseScan, PauseCancel, PauseLife, PauseReturn, db, WriteTask
<1> QED BY <1>1, <1>2

(* A sequence with one element overwritten is as long as it was.            *)
LEMMA Overwritten ==
  ASSUME NEW S, NEW s \in Seq(S), NEW i \in DOMAIN s, NEW e \in S
  PROVE  /\ [s EXCEPT ![i] = e] \in Seq(S) /\ Len([s EXCEPT ![i] = e]) = Len(s)
         /\ DOMAIN [s EXCEPT ![i] = e] = DOMAIN s
         /\ \A j \in DOMAIN s : [s EXCEPT ![i] = e][j] = IF j = i THEN e ELSE s[j]
<1>1. i \in 1 .. Len(s)
  OBVIOUS
<1> QED BY <1>1, ExceptSeq

LEMMA MoveDoes ==
  ASSUME TypeInv, NEW o \in Order, NEW i \in DOMAIN broker[o], BrokerMove(o, i)
  PROVE  /\ UNCHANGED <<task, row, retries, cancel, pass, lost>>
         /\ \A u \in Order : Len(broker'[u]) = Len(broker[u]) /\ (u # o => broker'[u] = broker[u])
         /\ DOMAIN broker'[o] = DOMAIN broker[o] /\ broker[o][i] = "open"
         /\ \A j \in DOMAIN broker[o] : j # i => broker'[o][j] = broker[o][j]
         /\ broker'[o][i] # "open"
<1> USE DEF TypeInv, TypeOK
<1>1. PICK s \in Held \ {"open"} : broker' = [broker EXCEPT ![o] = [broker[o] EXCEPT ![i] = s]]
  BY DEF BrokerMove
<1>2. broker[o] \in Seq(Held)
  OBVIOUS
<1>3. UNCHANGED <<task, row, retries, cancel, pass, lost>> /\ broker[o][i] = "open"
  BY DEF BrokerMove, db, requests
<1>4. broker'[o] = [broker[o] EXCEPT ![i] = s] /\ \A u \in Order \ {o} : broker'[u] = broker[u]
  BY <1>1
<1> QED BY <1>2, <1>3, <1>4, Overwritten

LEMMA AcceptDoes ==
  ASSUME TypeInv, NEW o \in Order, NEW s \in Held, Accept(o, s)
  PROVE  /\ \A u \in Order \ {o} : broker'[u] = broker[u]
         /\ Len(broker[o]) \in Nat /\ Len(broker'[o]) = Len(broker[o]) + 1 /\ broker'[o] # <<>>
         /\ DOMAIN broker[o] = 1 .. Len(broker[o]) /\ DOMAIN broker'[o] = 1 .. Len(broker[o]) + 1
         /\ \A j \in DOMAIN broker[o] : broker'[o][j] = broker[o][j]
         /\ broker'[o][Len(broker[o]) + 1] = s
<1>1. broker[o] \in Seq(Held) /\ broker'[o] = Append(broker[o], s)
  BY DEF TypeInv, TypeOK, Accept
<1>2. /\ broker'[o] \in Seq(Held) /\ broker'[o] # <<>> /\ Len(broker'[o]) = Len(broker[o]) + 1
      /\ \A j \in 1 .. Len(broker[o]) : broker'[o][j] = broker[o][j]
      /\ broker'[o][Len(broker[o]) + 1] = s
  BY <1>1, AppendProperties
<1>3. \A u \in Order \ {o} : broker'[u] = broker[u]
  BY DEF TypeInv, TypeOK, Accept
<1> QED BY <1>1, <1>2, <1>3

-----------------------------------------------------------------------------
(* Attempts and retries bound what is submitted.                            *)

LEMMA Numbers ==
  ASSUME TypeInv, NEW o \in Order
  PROVE  /\ Len(broker[o]) \in Nat /\ retries[o] \in Nat /\ Quota(o) \in Nat
         /\ MaxAttempts \in Nat /\ MaxAttempts > 0
         /\ (retries[o] + 1) * MaxAttempts = Quota(o) + MaxAttempts
<1>1. broker[o] \in Seq(Held) /\ retries[o] \in Nat
  BY LimitAssumption DEF TypeInv, TypeOK
<1>2. \A r \in Nat, m \in Nat : r * m \in Nat /\ (r + 1) * m = r * m + m
  OBVIOUS
<1> QED BY <1>1, <1>2, LimitAssumption DEF Quota

LEMMA QuotaKept ==
  ASSUME QuotaOK, UNCHANGED retries,
         \A o \in Order :
           /\ Len(broker'[o]) = Len(broker[o])
           /\ task'[o] \in Unsent => task[o] \in Unsent
           /\ \A p \in Pass : Owns(p, o)' =>
                Owns(p, o) /\ (Room(p)' = Room(p) \/ Room(p)' = MaxAttempts)
  PROVE  QuotaOK'
BY DEF QuotaOK, Quota

(* The other passes own what they owned, with the room they had.            *)
LEMMA OthersRoom ==
  ASSUME TypeInv, NEW p \in Pass, PassBegin(p) \/ PassStep(p), NEW q \in Pass, q # p
  PROVE  Room(q)' = Room(q) /\ \A o \in Order : Owns(q, o)' <=> Owns(q, o)
<1>1. phase'[q] = phase[q] /\ at'[q] = at[q] /\ cur'[q] = cur[q] /\ tries'[q] = tries[q]
  BY OthersStay
<1> QED BY <1>1 DEF Room, Owns

LEMMA OutsideQuota ==
  ASSUME TypeInv, QuotaOK, UNCHANGED <<retries, pass>>,
         \A o \in Order : /\ Len(broker'[o]) = Len(broker[o])
                          /\ task'[o] \in Unsent => task[o] \in Unsent
  PROVE  QuotaOK'
<1>1. \A p \in Pass : Room(p)' = Room(p) /\ \A o \in Order : Owns(p, o)' <=> Owns(p, o)
  BY DEF Room, Owns, pass
<1> QED BY <1>1, QuotaKept

LEMMA CancelQuota == ASSUME TypeInv, QuotaOK, NEW o \in Order, CancelStep(o) PROVE QuotaOK'
<1> USE DEF TypeInv, TypeOK
<1>1. UNCHANGED <<retries, pass>> /\ task' \in {task, [task EXCEPT ![o] = "cancelled"]}
  BY DEF CancelStep, CancelRead, CancelTask, CancelBroker, CancelRow, db, WriteTask
<1>2. \A u \in Order : Len(broker'[u]) = Len(broker[u])
  <2>1. UNCHANGED broker \/ \E i \in DOMAIN broker[o] :
                               broker' = [broker EXCEPT ![o] = [broker[o] EXCEPT ![i] = "cancelled"]]
    BY DEF CancelStep, CancelRead, CancelTask, CancelBroker, CancelRow
  <2>2. ASSUME NEW i \in DOMAIN broker[o],
               broker' = [broker EXCEPT ![o] = [broker[o] EXCEPT ![i] = "cancelled"]]
        PROVE  Len(broker'[o]) = Len(broker[o])
    <3>1. broker[o] \in Seq(Held) /\ broker'[o] = [broker[o] EXCEPT ![i] = "cancelled"]
      BY <2>2
    <3> QED BY <3>1, Overwritten DEF Held
  <2> QED BY <2>1, <2>2
<1> QED BY <1>1, <1>2, OutsideQuota DEF Unsent, Cancellable

LEMMA SubmitQuota ==
  ASSUME TypeInv, QuotaOK, NEW p \in Pass, PassStep(p), PassSubmit(p) PROVE QuotaOK'
<1> USE DEF TypeInv, TypeOK
<1>1. PICK u \in Order : cur[p] = u
  BY DEF PassSubmit, PassOK, OwnPlace
<1>2. /\ at[p] = "submit" /\ phase[p] = "due" /\ tries[p] \in Nat /\ tries[p] < MaxAttempts
      /\ tries' = [tries EXCEPT ![p] = @ + 1] /\ UNCHANGED <<phase, cur, task, retries>>
  BY SubmitDoes DEF PassSubmit, PassOK, OwnPlace, db
<1>3. Owns(p, u) /\ \A q \in Pass : Owns(q, u) => q = p
  BY <1>1, <1>2, OwnerAlone DEF Owns
<1>4. /\ \A o \in Order \ {u} : broker'[o] = broker[o]
      /\ Len(broker'[u]) \in {Len(broker[u]), Len(broker[u]) + 1}
  <2>1. UNCHANGED broker \/ \E s \in Held : Accept(u, s)
    BY <1>1, SubmitDoes
  <2> QED BY <2>1, AcceptDoes
<1>5. Room(p)' \in {tries[p] + 1, MaxAttempts}
  BY <1>2, SubmitDoes DEF Room, Decide, Goto
<1>6. ASSUME NEW q \in Pass \ {p}, NEW o \in Order, Owns(q, o)'
      PROVE  Owns(q, o) /\ o # u /\ Room(q)' = Room(q)
  <2>1. Owns(q, o) /\ Room(q)' = Room(q)
    BY <1>6, OthersRoom
  <2>2. ~Owns(q, u)
    BY <1>3
  <2> QED BY <2>1, <2>2
<1>7. \A o \in Order : Owns(p, o)' => o = u
  BY <1>1, <1>2 DEF Owns
<1>8. task[u] \notin Unsent
  BY <1>3 DEF OwnOK, Unsent, Cancellable
<1>9. SUFFICES ASSUME NEW o \in Order
      PROVE  /\ Len(broker'[o]) <= Quota(o)' + MaxAttempts
             /\ task'[o] \in Unsent => Len(broker'[o]) <= Quota(o)'
             /\ \A q \in Pass : Owns(q, o)' => Len(broker'[o]) <= Quota(o)' + Room(q)'
  BY DEF QuotaOK
<1>10. CASE o # u
  BY <1>2, <1>4, <1>6, <1>7, <1>10 DEF QuotaOK, Quota
<1>11. CASE o = u
  <2>1. Len(broker[u]) <= Quota(u) + tries[p] /\ Quota(u)' = Quota(u)
    BY <1>2, <1>3 DEF QuotaOK, Room, Quota
  <2>2. Len(broker'[u]) <= Quota(u) + tries[p] + 1
    <3>1. Len(broker[u]) \in Nat /\ Quota(u) \in Nat
      BY Numbers
    <3> QED BY <1>2, <1>4, <2>1, <3>1
  <2>3. Len(broker'[u]) \in Nat
    BY <1>4, Numbers
  <2>4. Len(broker'[u]) <= Quota(u) + MaxAttempts /\ Len(broker'[u]) <= Quota(u) + Room(p)'
    <3>1. Quota(u) \in Nat /\ MaxAttempts \in Nat
      BY Numbers
    <3>2. tries[p] + 1 <= MaxAttempts
      BY <1>2, <3>1
    <3>3. Len(broker'[u]) <= Quota(u) + MaxAttempts
      BY <1>2, <2>2, <2>3, <3>1, <3>2
    <3>4. Room(p)' = tries[p] + 1 \/ Room(p)' = MaxAttempts
      BY <1>5
    <3> QED BY <1>2, <2>2, <2>3, <3>1, <3>3, <3>4
  <2>5. task'[u] = task[u]
    BY <1>2
  <2> QED BY <1>6, <1>8, <1>11, <2>1, <2>4, <2>5
<1> QED BY <1>10, <1>11

LEMMA TaskQuota ==
  ASSUME TypeInv, QuotaOK, NEW p \in Pass, PassStep(p), PassTask(p) PROVE QuotaOK'
<1> USE DEF TypeInv, TypeOK
<1>1. PICK u \in Order :
        /\ cur[p] = u /\ at[p] = "task" /\ at'[p] = "life"
        /\ UNCHANGED <<phase, cur, broker>>
        /\ \A o \in Order \ {u} : task'[o] = task[o] /\ retries'[o] = retries[o]
        /\ phase[p] = "due" =>
             /\ verdict[p] \in {"filled", "open", "paused", "blocked", "retry", "giveUp"}
             /\ task'[u] = TaskOf[verdict[p]]
             /\ retries'[u] = IF verdict[p] \in {"retry", "giveUp"} THEN retries[u] + 1
                                                                   ELSE retries[u]
        /\ phase[p] # "due" => retries'[u] = retries[u] /\ (task'[u] \in Unsent => task[u] \in Unsent)
  BY TaskDoes DEF TaskOf, Unsent, Cancellable
<1>2. ASSUME NEW q \in Pass, NEW o \in Order, Owns(q, o)'
      PROVE  Owns(q, o) /\ q # p /\ Room(q)' = Room(q)
  <2>1. q # p
    BY <1>1, <1>2 DEF Owns
  <2> QED BY <1>2, <2>1, OthersRoom
<1>3. SUFFICES ASSUME NEW o \in Order
      PROVE  /\ Len(broker[o]) <= Quota(o)' + MaxAttempts
             /\ task'[o] \in Unsent => Len(broker[o]) <= Quota(o)'
             /\ \A q \in Pass : Owns(q, o)' => Len(broker[o]) <= Quota(o)' + Room(q)'
  BY <1>1 DEF QuotaOK
<1>4. CASE retries'[o] = retries[o] /\ (task'[o] \in Unsent => task[o] \in Unsent)
  BY <1>2, <1>4 DEF QuotaOK, Quota
<1>5. CASE o = u /\ phase[p] = "due"
  <2>1. Owns(p, u)
    BY <1>1, <1>5 DEF Owns
  <2>2. \A q \in Pass : ~Owns(q, u)'
    BY <1>2, <2>1, OwnerAlone
  <2>3. CASE verdict[p] \in {"retry", "giveUp"}
    <3>1. Quota(u)' = Quota(u) + MaxAttempts
      BY <1>1, <1>5, <2>3, Numbers DEF Quota
    <3>2. Len(broker[u]) <= Quota(u) + MaxAttempts
      BY DEF QuotaOK
    <3> QED BY <1>5, <2>2, <3>1, <3>2, Numbers
  <2>4. CASE verdict[p] \notin {"retry", "giveUp"}
    <3>1. task'[u] \notin Unsent /\ retries'[u] = retries[u]
      BY <1>1, <1>5, <2>4 DEF TaskOf, Unsent, Cancellable
    <3> QED BY <1>4, <1>5, <3>1
  <2> QED BY <2>3, <2>4
<1> QED BY <1>1, <1>4, <1>5

LEMMA AcquireQuota ==
  ASSUME TypeInv, QuotaOK, NEW p \in Pass, PassStep(p), NEW u \in Order, PassAcquire(p, u)
  PROVE  QuotaOK'
<1> USE DEF TypeInv, TypeOK
<1>1. /\ phase[p] = "due" /\ at[p] = "next" /\ UNCHANGED <<phase, broker, retries>> /\ cur'[p] = u
      /\ \/ UNCHANGED <<task, at>>
         \/ task[u] = "pending" /\ task' = [task EXCEPT ![u] = "dispatching"] /\ at'[p] = "mark"
  BY DEF PassAcquire, Take, Goto, WriteTask
<1>2. ASSUME NEW q \in Pass, q # p, NEW o \in Order, Owns(q, o)'
      PROVE  Owns(q, o) /\ Room(q)' = Room(q)
  BY <1>2, OthersRoom
<1>3. \A o \in Order : task'[o] \in Unsent => task[o] \in Unsent
  BY <1>1 DEF Unsent, Cancellable
<1>4. SUFFICES ASSUME NEW o \in Order, Owns(p, o)' PROVE Len(broker[o]) <= Quota(o)' + Room(p)'
  <2>1. ASSUME NEW o \in Order, NEW q \in Pass, q # p, Owns(q, o)'
        PROVE  Len(broker[o]) <= Quota(o)' + Room(q)'
    BY <1>1, <1>2, <2>1 DEF QuotaOK, Quota
  <2> QED BY <1>1, <1>3, <2>1 DEF QuotaOK, Quota
<1>5. o = u /\ task[u] = "pending" /\ Room(p)' = 0
  BY <1>1, <1>4 DEF Owns, Room
<1>6. Len(broker[o]) <= Quota(o) /\ Quota(o)' = Quota(o)
  BY <1>1, <1>5 DEF QuotaOK, Quota, Unsent, Cancellable
<1> QED BY <1>5, <1>6, Numbers

(* A pass that works on nothing new, submits nothing and leaves tasks alone. *)
LEMMA QuietQuota ==
  ASSUME TypeInv, QuotaOK, NEW p \in Pass, PassBegin(p) \/ PassStep(p),
         UNCHANGED <<task, retries, broker>>,
         \A o \in Order : Owns(p, o)' =>
           Owns(p, o) /\ (Room(p)' = Room(p) \/ Room(p)' = MaxAttempts)
  PROVE  QuotaOK'
<1>1. ASSUME NEW o \in Order, NEW q \in Pass, Owns(q, o)'
      PROVE  Owns(q, o) /\ (Room(q)' = Room(q) \/ Room(q)' = MaxAttempts)
  BY <1>1, OthersRoom
<1> QED BY <1>1, QuotaKept

LEMMA PassQuota ==
  ASSUME TypeInv, QuotaOK, NEW p \in Pass, PassBegin(p) \/ PassStep(p) PROVE QuotaOK'
<1> USE DEF TypeInv, TypeOK, PassOK, OwnPlace, Goto, Decide, Take, db
<1> DEFINE Less == /\ UNCHANGED <<task, retries, broker>>
                   /\ \A o \in Order : Owns(p, o)' =>
                        Owns(p, o) /\ (Room(p)' = Room(p) \/ Room(p)' = MaxAttempts)
<1>b. SUFFICES ASSUME ~Less PROVE QuotaOK'
  BY QuietQuota
<1>0. CASE PassBegin(p)
  BY <1>0, <1>b DEF PassBegin, PassStart, Owns
<1>c. SUFFICES ASSUME PassStep(p) PROVE QuotaOK'
  BY <1>0
<1>1. CASE PassScan(p)
  BY <1>1, <1>b DEF PassScan, Owns
<1>2. CASE PassNextSweep(p)
  BY <1>2, <1>b DEF PassNextSweep, Owns
<1>3. CASE PassAsk(p)
  BY <1>3, <1>b DEF PassAsk, Owns
<1>4. CASE PassAskFails(p) \/ PassFill(p) \/ PassRow(p) \/ PassMark(p)
  BY <1>4, <1>b DEF PassAskFails, PassFill, PassRow, PassMark, Owns, Room
<1>5. CASE PassGate(p)
  BY <1>5, <1>b DEF PassGate, Owns, Room
<1>6. CASE PassSubmit(p)
  BY <1>6, <1>c, SubmitQuota
<1>7. CASE PassInsert(p) \/ PassRefuse(p)
  BY <1>7, <1>b DEF PassInsert, PassRefuse, Owns, Room
<1>8. CASE PassTask(p)
  BY <1>8, <1>c, TaskQuota
<1>9. CASE PassLife(p)
  BY <1>9, <1>b DEF PassLife, Owns
<1>10. ASSUME NEW o \in Order, PassExpire(p, o) \/ PassPoll(p, o) PROVE QuotaOK'
  BY <1>10, <1>b DEF PassExpire, PassPoll, Owns
<1>11. ASSUME NEW o \in Order, PassAcquire(p, o) PROVE QuotaOK'
  BY <1>11, <1>c, AcquireQuota
<1> QED
  BY <1>c, <1>1, <1>2, <1>3, <1>4, <1>5, <1>6, <1>7, <1>8, <1>9, <1>10, <1>11 DEF PassStep

LEMMA InitQuota == Init => QuotaOK
BY LimitAssumption DEF Init, QuotaOK, Quota, Owns

LEMMA NextQuota == TypeInv /\ QuotaOK /\ [Next]_vars => QuotaOK'
<1> SUFFICES ASSUME TypeInv, QuotaOK, [Next]_vars PROVE QuotaOK'
  OBVIOUS
<1>1. CASE UNCHANGED vars
  BY <1>1, OutsideQuota DEF vars, db
<1>2. ASSUME NEW o \in Order, CreateStep(o) \/ RetryDue(o) \/ \E a \in Act : ReviewStep(o, a)
      PROVE  QuotaOK'
  <2>1. \A u \in Order : task'[u] \in Unsent => task[u] \in Unsent
    BY <1>2, RequestDoes DEF TypeInv, TypeOK, Unsent, Cancellable
  <2> QED BY <1>2, <2>1, RequestDoes, OutsideQuota
<1>3. CASE PauseStep
  <2>1. \A u \in Order : task'[u] \in Unsent => task[u] \in Unsent
    BY <1>3, PauseDoes DEF TypeInv, TypeOK, Unsent, Cancellable
  <2> QED BY <1>3, <2>1, PauseDoes, OutsideQuota
<1>4. ASSUME NEW o \in Order, NEW i \in DOMAIN broker[o], BrokerMove(o, i) PROVE QuotaOK'
  BY <1>4, MoveDoes, OutsideQuota
<1>5. CASE Crash
  <2>1. UNCHANGED <<task, retries, broker>> /\ \A p \in Pass, o \in Order : ~Owns(p, o)'
    BY <1>5 DEF Crash, db, Owns
  <2> QED BY <2>1, QuotaKept
<1> QED BY <1>1, <1>2, <1>3, <1>4, <1>5, CancelQuota, PassQuota DEF Next

(* Whatever answers are lost, however often the host restarts and whoever   *)
(* cancels, an intent is submitted no more often than its attempts and the  *)
(* retries on record allow.                                                 *)
THEOREM SubmitsAreBounded == Spec => []SubmitsBounded
<1>1. TypeInv /\ QuotaOK => SubmitsBounded
  <2> SUFFICES ASSUME TypeInv, QuotaOK, NEW o \in Order
               PROVE  Len(broker[o]) <= Quota(o)
                        + (IF task[o] \in {"dispatching", "waiting_ack"} \cup Final
                           THEN MaxAttempts ELSE 0)
    BY DEF SubmitsBounded, Quota
  <2>1. task[o] \in TaskStatus
    BY DEF TypeInv, TypeOK
  <2>2. CASE task[o] \in Unsent
    BY <2>2, Numbers DEF QuotaOK, Unsent, Cancellable, Final
  <2>3. CASE task[o] \notin Unsent
    BY <2>1, <2>3 DEF QuotaOK, Unsent, TaskStatus
  <2> QED BY <2>2, <2>3
<1> QED BY <1>1, InitInv, NextInv, InitQuota, NextQuota, PTL DEF Spec

-----------------------------------------------------------------------------
(* A final status is final, but for a task that a user cancels before the   *)
(* broker has a row for it: that cancel overwrites the task whatever its    *)
(* status by then (see ExecCancelTooLate). A cancel at the broker does not  *)
(* touch the task, and once made the overwriting stays on record.           *)

Overruled(o) == cancel[o].at = "cancelled"

Uncancelled == \A o \in Order : cancel[o].at = "idle"

LEMMA CancelIdle ==
  ASSUME CanCancel = {}, Uncancelled, NEW o \in Order PROVE ~CancelStep(o)
BY DEF CancelStep, CancelRead, CancelTask, CancelBroker, CancelRow, Uncancelled

LEMMA NextUncancelled ==
  ASSUME CanCancel = {}, TypeInv, Uncancelled, [Next]_vars PROVE Uncancelled'
<1>1. CASE UNCHANGED vars
  BY <1>1 DEF vars, requests, Uncancelled
<1>2. ASSUME NEW o \in Order, CreateStep(o) \/ RetryDue(o) \/ \E a \in Act : ReviewStep(o, a)
      PROVE  Uncancelled'
  BY <1>2, RequestDoes DEF Uncancelled
<1>3. CASE PauseStep
  BY <1>3, PauseDoes DEF Uncancelled
<1>4. ASSUME NEW o \in Order, NEW i \in DOMAIN broker[o], BrokerMove(o, i) PROVE Uncancelled'
  BY <1>4, MoveDoes DEF Uncancelled
<1>5. CASE Crash
  BY <1>5 DEF Crash, Uncancelled, TypeInv, TypeOK
<1>6. ASSUME NEW p \in Pass, PassBegin(p) \/ PassStep(p) PROVE Uncancelled'
  BY <1>6 DEF PassBegin, PassStep, requests, Uncancelled
<1> QED BY <1>1, <1>2, <1>3, <1>4, <1>5, <1>6, CancelIdle DEF Next

(* Rows: a status is overwritten, or a row is added.                        *)
LEMMA StatusDoes ==
  ASSUME TypeInv, NEW o \in Order, NEW k \in DOMAIN row[o],
         NEW s \in {"submitted", "filled", "rejected", "cancelled"},
         row' = [row EXCEPT ![o][k].status = s]
  PROVE  /\ \A u \in Order \ {o} : row'[u] = row[u]
         /\ DOMAIN row'[o] = DOMAIN row[o] /\ Len(row'[o]) = Len(row[o]) /\ row'[o] # <<>>
         /\ \A j \in DOMAIN row[o] :
              /\ row'[o][j].id = row[o][j].id
              /\ row'[o][j].status = IF j = k THEN s ELSE row[o][j].status
<1>1. row[o] \in Seq(Rows) /\ k \in 1 .. Len(row[o])
  BY DEF TypeInv, TypeOK
<1>2. row[o][k] \in Rows
  BY <1>1
<1>3. PICK r \in Rows : r.id = row[o][k].id /\ r.status = s /\ r = [row[o][k] EXCEPT !.status = s]
  BY <1>2 DEF Rows
<1>4. row'[o] = [row[o] EXCEPT ![k] = r] /\ \A u \in Order \ {o} : row'[u] = row[u]
  BY <1>3 DEF TypeInv, TypeOK
<1>5. /\ Len(row'[o]) = Len(row[o]) /\ DOMAIN row'[o] = DOMAIN row[o] /\ row'[o] \in Seq(Rows)
      /\ \A j \in DOMAIN row[o] : row'[o][j] = IF j = k THEN r ELSE row[o][j]
  <2>1. /\ [row[o] EXCEPT ![k] = r] \in Seq(Rows) /\ Len([row[o] EXCEPT ![k] = r]) = Len(row[o])
        /\ \A j \in 1 .. Len(row[o]) : [row[o] EXCEPT ![k] = r][j] = IF j = k THEN r ELSE row[o][j]
    BY <1>1, ExceptSeq
  <2> QED BY <1>1, <1>4, <2>1
<1>6. row'[o] # <<>>
  BY <1>1, <1>5
<1>7. ASSUME NEW j \in DOMAIN row[o]
      PROVE  /\ row'[o][j].id = row[o][j].id
             /\ row'[o][j].status = IF j = k THEN s ELSE row[o][j].status
  <2>1. CASE j = k
    <3>1. row'[o][j] = r
      BY <1>5, <2>1
    <3> QED BY <1>3, <2>1, <3>1
  <2>2. CASE j # k
    <3>1. row'[o][j] = row[o][j]
      BY <1>5, <2>2
    <3> QED BY <2>2, <3>1
  <2> QED BY <2>1, <2>2
<1> QED BY <1>4, <1>5, <1>6, <1>7

LEMMA InsertDoes ==
  ASSUME TypeInv, NEW p \in Pass, PassInsert(p)
  PROVE  \E o \in Order :
           LET s == IF verdict[p] = "filled" THEN "filled" ELSE "submitted"
               n == Len(row[o]) + 1
           IN /\ cur[p] = o /\ Owns(p, o) /\ at[p] = "insert" /\ UNCHANGED <<task, broker, lost>>
              /\ UNCHANGED <<phase, todo, cur, verdict, tries>>
              /\ at'[p] = CASE verdict[p] = "filled" -> "fill"
                            [] verdict[p] = "open" -> "task"
                            [] OTHER -> "refuse"
              /\ \A u \in Order \ {o} : row'[u] = row[u]
              /\ Len(row[o]) \in Nat /\ Len(row'[o]) = n /\ row'[o] # <<>>
              /\ DOMAIN row[o] = 1 .. Len(row[o]) /\ DOMAIN row'[o] = 1 .. n
              /\ \A j \in DOMAIN row[o] : row'[o][j] = row[o][j]
              /\ row'[o][n].id = Len(broker[o]) /\ row'[o][n].status = s
<1> USE DEF TypeInv, TypeOK
<1>1. PICK o \in Order : cur[p] = o
  BY DEF PassInsert, PassOK, OwnPlace
<1> DEFINE r == [id |-> Len(broker[o]),
                 status |-> IF verdict[p] = "filled" THEN "filled" ELSE "submitted"]
<1>2. row[o] \in Seq(Rows) /\ r \in Rows
  <2>1. broker[o] \in Seq(Held)
    OBVIOUS
  <2>2. Len(broker[o]) \in Nat
    BY <2>1
  <2> QED BY <2>2 DEF Rows
<1>3. row'[o] = Append(row[o], r) /\ \A u \in Order \ {o} : row'[u] = row[u]
  BY <1>1 DEF PassInsert
<1>4. /\ at[p] = "insert" /\ UNCHANGED <<task, broker, lost, phase, todo, cur, verdict, tries>>
      /\ at'[p] = CASE verdict[p] = "filled" -> "fill"
                    [] verdict[p] = "open" -> "task"
                    [] OTHER -> "refuse"
  BY DEF PassInsert, Goto
<1>5. Owns(p, o)
  BY <1>1, <1>4 DEF Owns, PassOK, OwnPlace
<1>6. /\ row'[o] \in Seq(Rows) /\ row'[o] # <<>> /\ Len(row'[o]) = Len(row[o]) + 1
      /\ \A j \in 1 .. Len(row[o]) : row'[o][j] = row[o][j]
      /\ row'[o][Len(row[o]) + 1] = r
  BY <1>2, <1>3, AppendProperties
<1>7. Len(row[o]) \in Nat /\ DOMAIN row[o] = 1 .. Len(row[o])
      /\ DOMAIN row'[o] = 1 .. Len(row[o]) + 1
  BY <1>2, <1>6
<1> HIDE DEF TypeInv, TypeOK
<1> QED BY <1>1, <1>3, <1>4, <1>5, <1>6, <1>7

(* What the broker says of the order's first row, and how a pass takes it.  *)
Told(o) == broker[o][row[o][1].id]
Word == [filled |-> "filled", rejected |-> "refused", cancelled |-> "dropped"]

Marked(o) == row[o] # <<>> => row[o][1].status # "submitted"

(* A pass is between its question about an order and the record of the      *)
(* answer, or has the order on its list.                                    *)
Asking(p, o)  == phase[p] = "poll" /\ cur[p] = o /\ at[p] \in {"ask", "fill", "row", "task"}
Listing(p, o) == phase[p] = "poll" /\ at[p] # "scan" /\ o \in todo[p]

(* Only live orders are polled, and their rows carry numbers the broker     *)
(* knows.                                                                   *)
IdOK ==
  /\ \A p \in Pass, o \in Order : Polls(p, o) => o \in Live
  /\ \A o \in Order \ Paper :
       /\ \A k \in DOMAIN row[o] : row[o][k].id \in DOMAIN broker[o]
       /\ \A p \in Pass : Owns(p, o) /\ at[p] = "insert" => broker[o] # <<>>

(* Passes that poll for the same order hear the same, and write the same.   *)
PollAt(p, o) ==
  /\ Asking(p, o) =>
       /\ row[o] # <<>>
       /\ at[p] # "ask" => Told(o) \in DOMAIN Word /\ verdict[p] = Word[Told(o)]
       /\ at[p] = "task" => Marked(o)
  /\ task[o] \in Final /\ ~Overruled(o) =>
       /\ Listing(p, o) => Marked(o)
       /\ Asking(p, o) => Told(o) \in DOMAIN Word /\ task[o] = TaskOf[Word[Told(o)]]

PollOK == \A p \in Pass, o \in Order : PollAt(p, o)

LEMMA IdsKnown ==
  ASSUME TypeInv, NEW o \in Order
  PROVE  /\ row[o] \in Seq(Rows) /\ broker[o] \in Seq(Held)
         /\ Len(row[o]) \in Nat /\ DOMAIN row[o] = 1 .. Len(row[o])
         /\ Len(broker[o]) \in Nat /\ DOMAIN broker[o] = 1 .. Len(broker[o])
         /\ row[o] # <<>> => 1 \in DOMAIN row[o] /\ Head(row[o]) = row[o][1]
         /\ broker[o] # <<>> => Len(broker[o]) \in DOMAIN broker[o]
<1>1. row[o] \in Seq(Rows) /\ broker[o] \in Seq(Held)
  BY DEF TypeInv, TypeOK
<1> QED BY <1>1

LEMMA OthersPoll ==
  ASSUME TypeInv, NEW p \in Pass, PassBegin(p) \/ PassStep(p), NEW q \in Pass, q # p, NEW o \in Order
  PROVE  /\ Polls(q, o)' <=> Polls(q, o)
         /\ Asking(q, o)' <=> Asking(q, o)
         /\ Listing(q, o)' <=> Listing(q, o)
         /\ Owns(q, o)' <=> Owns(q, o)
         /\ at'[q] = at[q] /\ verdict'[q] = verdict[q]
<1>1. /\ phase'[q] = phase[q] /\ at'[q] = at[q] /\ todo'[q] = todo[q]
      /\ cur'[q] = cur[q] /\ verdict'[q] = verdict[q]
  BY OthersStay
<1> QED BY <1>1 DEF Polls, Asking, Listing, Owns

(* A cancel that has overwritten a task stays, and passes do not cancel.    *)
LEMMA PassRules ==
  ASSUME NEW p \in Pass, PassBegin(p) \/ PassStep(p), NEW o \in Order
  PROVE  Overruled(o)' <=> Overruled(o)
BY DEF PassBegin, PassStep, requests, Overruled

LEMMA NextRules == ASSUME [Next]_vars, NEW o \in Order, Overruled(o), TypeInv PROVE Overruled(o)'
<1>1. CASE UNCHANGED vars
  BY <1>1 DEF vars, requests, Overruled
<1>2. ASSUME NEW u \in Order, CreateStep(u) \/ RetryDue(u) \/ \E a \in Act : ReviewStep(u, a)
      PROVE  Overruled(o)'
  BY <1>2, RequestDoes DEF Overruled
<1>3. CASE PauseStep
  BY <1>3, PauseDoes DEF Overruled
<1>4. ASSUME NEW u \in Order, NEW i \in DOMAIN broker[u], BrokerMove(u, i) PROVE Overruled(o)'
  BY <1>4, MoveDoes DEF Overruled
<1>5. CASE Crash
  BY <1>5 DEF Crash, Overruled, TypeInv, TypeOK
<1>6. ASSUME NEW u \in Order, CancelStep(u) PROVE Overruled(o)'
  BY <1>6 DEF CancelStep, CancelRead, CancelTask, CancelBroker, CancelRow, CancelTo, Overruled,
              TypeInv, TypeOK
<1> QED BY <1>1, <1>2, <1>3, <1>4, <1>5, <1>6, PassRules DEF Next

(* A pass that leaves an order alone leaves those that poll for it alone.   *)
LEMMA PollSame ==
  ASSUME PollOK, NEW q \in Pass, NEW o \in Order, Overruled(o) => Overruled(o)',
         task'[o] = task[o], row'[o] = row[o], broker'[o] = broker[o],
         Asking(q, o)' => Asking(q, o), Listing(q, o)' => Listing(q, o),
         Asking(q, o)' => at'[q] = at[q] /\ verdict'[q] = verdict[q]
  PROVE  PollAt(q, o)'
<1>1. PollAt(q, o)
  BY DEF PollOK
<1>2. Told(o)' = Told(o) /\ (Marked(o)' <=> Marked(o))
  BY DEF Told, Marked
<1> QED BY <1>1, <1>2 DEF PollAt

LEMMA OutsidePoll ==
  ASSUME PollOK, TypeInv, UNCHANGED <<row, broker, pass>>,
         \A o \in Order : Overruled(o) => Overruled(o)',
         \A o \in Order : task'[o] = task[o] \/ task[o] \in Unsent \/ Overruled(o)'
  PROVE  PollOK'
<1> SUFFICES ASSUME NEW q \in Pass, NEW o \in Order PROVE PollAt(q, o)'
  BY DEF PollOK
<1>1. /\ Asking(q, o)' <=> Asking(q, o)
      /\ Listing(q, o)' <=> Listing(q, o)
      /\ at'[q] = at[q] /\ verdict'[q] = verdict[q]
  BY DEF Asking, Listing, pass
<1>2. CASE task'[o] = task[o]
  BY <1>1, <1>2, PollSame
<1>3. CASE task[o] \in Unsent
  <2>1. ~Polls(q, o)
    BY <1>3 DEF TypeInv, OwnOK, Unsent, Cancellable, Final
  <2>2. ~Asking(q, o) /\ ~Listing(q, o)
    BY <2>1 DEF Polls, Asking, Listing
  <2> QED BY <1>1, <2>2 DEF PollAt
<1>4. CASE Overruled(o)'
  <2>1. PollAt(q, o) /\ UNCHANGED <<Told(o), Marked(o)>> /\ row'[o] = row[o]
    BY DEF PollOK, Told, Marked
  <2> QED BY <1>1, <1>4, <2>1 DEF PollAt
<1> QED BY <1>2, <1>3, <1>4

LEMMA QuietPoll ==
  ASSUME TypeInv, PollOK, NEW p \in Pass, PassBegin(p) \/ PassStep(p),
         UNCHANGED <<task, row, broker>>, \A o \in Order : PollAt(p, o)'
  PROVE  PollOK'
<1> SUFFICES ASSUME NEW q \in Pass, NEW o \in Order, q # p PROVE PollAt(q, o)'
  BY DEF PollOK
<1> QED BY OthersPoll, PollSame, PassRules

LEMMA OwnPoll ==
  ASSUME TypeInv, PollOK, NEW p \in Pass, PassStep(p), NEW u \in Order,
         phase'[p] = "due", Owns(p, u) \/ task[u] = "pending",
         \A o \in Order \ {u} : task'[o] = task[o] /\ row'[o] = row[o] /\ broker'[o] = broker[o]
  PROVE  PollOK'
<1> SUFFICES ASSUME NEW q \in Pass, NEW o \in Order PROVE PollAt(q, o)'
  BY DEF PollOK
<1>1. CASE q = p
  BY <1>1 DEF PollAt, Asking, Listing
<1>2. CASE q # p /\ o # u
  BY <1>2, OthersPoll, PollSame, PassRules
<1>3. CASE q # p /\ o = u
  <2>1. ~Polls(q, u)
    BY OwnerAlone DEF TypeInv, OwnOK, Final
  <2>2. ~Asking(q, u) /\ ~Listing(q, u)
    BY <2>1 DEF Polls, Asking, Listing
  <2> QED BY <1>3, <2>2, OthersPoll DEF PollAt
<1> QED BY <1>1, <1>2, <1>3

LEMMA RowPoll ==
  ASSUME TypeInv, PollOK, NEW p \in Pass, PassStep(p), PassRow(p) PROVE PollOK'
<1>1. PICK u \in Order : cur[p] = u
  BY DEF PassRow, TypeInv, PassOK, OwnPlace
<1>2. /\ at[p] = "row" /\ at'[p] = "task" /\ phase[p] = "poll"
      /\ UNCHANGED <<phase, cur, todo, verdict, task, broker>>
  BY DEF PassRow, Goto, TypeInv, TypeOK, PassOK, OwnPlace
<1>3. Asking(p, u) /\ row[u] # <<>>
  BY <1>1, <1>2 DEF Asking, PollOK, PollAt
<1>4. PICK s \in {"filled", "rejected", "cancelled"} : row' = [row EXCEPT ![u][1].status = s]
  BY <1>1 DEF PassRow
<1>5. 1 \in DOMAIN row[u]
  BY <1>3, IdsKnown
<1>6. /\ \A o \in Order \ {u} : row'[o] = row[o]
      /\ row'[u] # <<>> /\ row'[u][1].id = row[u][1].id /\ row'[u][1].status = s
  <2>1. s \in {"submitted", "filled", "rejected", "cancelled"}
    BY <1>4
  <2>2. /\ \A o \in Order \ {u} : row'[o] = row[o]
        /\ row'[u] # <<>>
        /\ \A j \in DOMAIN row[u] : /\ row'[u][j].id = row[u][j].id
                                     /\ row'[u][j].status = IF j = 1 THEN s ELSE row[u][j].status
    BY <1>4, <1>5, <2>1, StatusDoes
  <2> QED BY <1>5, <2>2
<1>7. Told(u)' = Told(u) /\ Marked(u)'
  BY <1>2, <1>6 DEF Told, Marked
<1>8. SUFFICES ASSUME NEW q \in Pass, NEW o \in Order PROVE PollAt(q, o)'
  BY DEF PollOK
<1>9. (Listing(q, o)' => Listing(q, o)) /\ (Asking(q, o)' => Asking(q, o)) /\ verdict'[q] = verdict[q]
      /\ (at'[q] = "ask" <=> at[q] = "ask")
  <2>1. CASE q = p
    BY <1>2, <2>1 DEF Asking, Listing
  <2>2. CASE q # p
    BY <2>2, OthersPoll
  <2> QED BY <2>1, <2>2
<1>10. CASE o = u
  <2>1. PollAt(q, u)
    BY DEF PollOK
  <2> QED BY <1>2, <1>6, <1>7, <1>9, <1>10, <2>1, PassRules DEF PollAt
<1>11. CASE o # u
  <2>1. q = p => ~Asking(q, o)'
    BY <1>1, <1>2, <1>11 DEF Asking
  <2>2. task'[o] = task[o] /\ row'[o] = row[o] /\ broker'[o] = broker[o]
    BY <1>2, <1>6, <1>11
  <2>3. CASE q # p
    BY <2>2, <2>3, OthersPoll, PollSame, PassRules
  <2>4. CASE q = p
    BY <1>9, <2>1, <2>2, <2>4, PollSame, PassRules
  <2> QED BY <2>3, <2>4
<1> QED BY <1>10, <1>11

LEMMA TaskPoll ==
  ASSUME TypeInv, PollOK, NEW p \in Pass, PassStep(p), PassTask(p) PROVE PollOK'
<1>1. PICK u \in Order :
        /\ cur[p] = u /\ at[p] = "task" /\ at'[p] = "life" /\ phase[p] \in {"expire", "poll", "due"}
        /\ UNCHANGED <<phase, todo, cur, verdict, row, broker>>
        /\ \A o \in Order \ {u} : task'[o] = task[o]
        /\ phase[p] = "poll" => task' = [task EXCEPT ![u] = TaskOf[verdict[p]]]
        /\ phase[p] = "expire" =>
             UNCHANGED task \/ (task[u] = "awaiting_review" /\ task' = [task EXCEPT ![u] = "rejected"])
  BY TaskDoes
<1>2. CASE phase[p] = "due"
  <2>1. Owns(p, u)
    BY <1>1, <1>2 DEF Owns
  <2> QED BY <1>1, <1>2, <2>1, OwnPoll
<1>3. SUFFICES ASSUME phase[p] # "due", NEW q \in Pass, NEW o \in Order PROVE PollAt(q, o)'
  BY <1>2 DEF PollOK
<1>4. /\ Listing(q, o)' => Listing(q, o)
      /\ Asking(q, o)' => Asking(q, o) /\ q # p
      /\ verdict'[q] = verdict[q] /\ (q # p => at'[q] = at[q])
  <2>1. CASE q = p
    BY <1>1, <2>1 DEF Asking, Listing
  <2>2. CASE q # p
    BY <2>2, OthersPoll
  <2> QED BY <2>1, <2>2
<1>5. PollAt(q, o) /\ Told(o)' = Told(o) /\ (Marked(o)' <=> Marked(o)) /\ row' = row
  BY <1>1 DEF PollOK, Told, Marked
<1>6. CASE task'[o] = task[o]
  BY <1>4, <1>5, <1>6, PassRules DEF PollAt
<1>7. CASE o = u /\ phase[p] = "poll"
  <2>1. Asking(p, u) /\ PollAt(p, u)
    BY <1>1, <1>7 DEF Asking, PollOK
  <2>2. Marked(u) /\ Told(u) \in DOMAIN Word /\ verdict[p] = Word[Told(u)]
    BY <1>1, <2>1 DEF PollAt
  <2>3. task'[u] = TaskOf[Word[Told(u)]]
    BY <1>1, <1>7, <2>2 DEF TypeInv, TypeOK
  <2> QED BY <1>4, <1>5, <1>7, <2>2, <2>3 DEF PollAt
<1>8. CASE o = u /\ phase[p] = "expire" /\ task[u] = "awaiting_review"
  <2>1. ~Polls(q, u)
    BY <1>8 DEF TypeInv, OwnOK, Final
  <2>2. ~Asking(q, u) /\ ~Listing(q, u)
    BY <2>1 DEF Polls, Asking, Listing
  <2> QED BY <1>4, <1>8, <2>2 DEF PollAt
<1> QED BY <1>1, <1>3, <1>6, <1>7, <1>8

LEMMA PassPolls ==
  ASSUME TypeInv, PollOK, NEW p \in Pass, PassBegin(p) \/ PassStep(p) PROVE PollOK'
<1> USE DEF TypeInv, TypeOK, PassOK, OwnPlace, Goto, Decide, Take, db
<1>a. ASSUME UNCHANGED <<task, row, broker>>,
             \A o \in Order : /\ Listing(p, o)' => Listing(p, o)
                              /\ Asking(p, o)' => /\ Asking(p, o) /\ verdict'[p] = verdict[p]
                                                  /\ at[p] # "ask" /\ at'[p] \in {"row", "fill"}
      PROVE  PollOK'
  <2>1. ASSUME NEW o \in Order PROVE PollAt(p, o)'
    <3>1. PollAt(p, o) /\ Told(o)' = Told(o) /\ (Marked(o)' <=> Marked(o))
      BY <1>a DEF PollOK, Told, Marked
    <3> QED BY <1>a, <3>1, PassRules DEF PollAt
  <2> HIDE DEF TypeInv, TypeOK, PassOK, OwnPlace
  <2> QED BY <1>a, <2>1, QuietPoll
<1>0. CASE PassBegin(p)
  BY <1>0, <1>a DEF PassBegin, PassStart, Asking, Listing
<1>c. SUFFICES ASSUME PassStep(p) PROVE PollOK'
  BY <1>0
<1>1. CASE PassScan(p)
  <2>1. /\ at'[p] = "next" /\ UNCHANGED <<phase, task, row, broker>>
        /\ phase[p] = "poll" => \A o \in Order : o \in todo'[p] => task[o] = "waiting_ack"
    BY <1>1 DEF PassScan
  <2>2. \A o \in Order : PollAt(p, o)'
    BY <2>1 DEF PollAt, Listing, Asking, Final
  <2> HIDE DEF TypeInv, TypeOK, PassOK, OwnPlace
  <2> QED BY <1>c, <2>1, <2>2, QuietPoll
<1>2. CASE PassNextSweep(p)
  BY <1>2, <1>a DEF PassNextSweep, Asking, Listing
<1>3. CASE PassAsk(p)
  <2>1. PICK u \in Order : cur[p] = u
    BY <1>3 DEF PassAsk
  <2>2. /\ at[p] = "ask" /\ phase[p] = "poll" /\ Asking(p, u)
        /\ UNCHANGED <<phase, cur, todo, task, row, broker>>
    BY <1>3, <2>1 DEF PassAsk, Asking
  <2>3. row[u] # <<>> /\ PollAt(p, u)
    BY <2>2 DEF PollOK, PollAt
  <2>4. Told(u)' = Told(u) /\ Told(u) = broker[u][Head(row[u]).id]
    BY <2>2, <2>3, IdsKnown DEF Told
  <2>5. \/ at'[p] = "next"
        \/ at'[p] \in {"fill", "row"} /\ Told(u) \in DOMAIN Word /\ verdict'[p] = Word[Told(u)]
    BY <1>3, <2>1, <2>4 DEF PassAsk, Word
  <2>6. ASSUME NEW o \in Order PROVE PollAt(p, o)'
    <3>1. PollAt(p, o) /\ (Marked(o)' <=> Marked(o)) /\ (Listing(p, o)' => Listing(p, o))
      BY <2>2 DEF PollOK, Marked, Listing
    <3>2. CASE o # u
      BY <2>1, <2>2, <3>1, <3>2, PassRules DEF PollAt, Asking
    <3>3. CASE o = u
      BY <2>2, <2>3, <2>4, <2>5, <3>1, <3>3, PassRules DEF PollAt, Asking
    <3> QED BY <3>2, <3>3
  <2> HIDE DEF TypeInv, TypeOK, PassOK, OwnPlace
  <2> QED BY <1>c, <2>2, <2>6, QuietPoll
<1>4. CASE PassAskFails(p)
  BY <1>4, <1>a DEF PassAskFails, Asking, Listing
<1>5. CASE PassFill(p)
  BY <1>5, <1>a DEF PassFill, Asking, Listing
<1>6. CASE PassRow(p)
  <2> HIDE DEF TypeInv, TypeOK, PassOK, OwnPlace
  <2> QED BY <1>6, <1>c, RowPoll
<1>7. CASE PassMark(p) \/ PassGate(p)
  <2>1. UNCHANGED <<task, row, broker, phase>> /\ phase[p] = "due"
    BY <1>7 DEF PassMark, PassGate
  <2> QED BY <1>a, <2>1 DEF Asking, Listing
<1>8. CASE PassSubmit(p)
  <2>1. PICK u \in Order : cur[p] = u
    BY <1>8 DEF PassSubmit
  <2>2. Owns(p, u) /\ UNCHANGED <<task, row, phase>> /\ phase[p] = "due"
    BY <1>8, <2>1, SubmitDoes DEF PassSubmit, Owns
  <2>3. \A o \in Order \ {u} : broker'[o] = broker[o]
    <3>1. UNCHANGED broker \/ \E s \in Held : broker' = [broker EXCEPT ![u] = Append(@, s)]
      BY <1>8, <2>1, SubmitDoes DEF Accept
    <3> QED BY <3>1
  <2> HIDE DEF TypeInv, TypeOK, PassOK, OwnPlace
  <2> QED BY <1>c, <2>2, <2>3, OwnPoll
<1>9. CASE PassInsert(p) \/ PassRefuse(p)
  <2>1. PICK u \in Order : cur[p] = u
    BY <1>9 DEF PassInsert, PassRefuse
  <2>2. Owns(p, u) /\ UNCHANGED <<task, broker, phase>> /\ phase[p] = "due"
    BY <1>9, <2>1 DEF PassInsert, PassRefuse, Owns
  <2>3. \A o \in Order \ {u} : row'[o] = row[o]
    BY <1>9, <2>1 DEF PassInsert, PassRefuse
  <2> HIDE DEF TypeInv, TypeOK, PassOK, OwnPlace
  <2> QED BY <1>c, <2>2, <2>3, OwnPoll
<1>10. CASE PassTask(p)
  <2> HIDE DEF TypeInv, TypeOK, PassOK, OwnPlace
  <2> QED BY <1>10, <1>c, TaskPoll
<1>11. CASE PassLife(p)
  BY <1>11, <1>a DEF PassLife, Asking, Listing
<1>12. ASSUME NEW u \in Order, PassExpire(p, u) PROVE PollOK'
  BY <1>12, <1>a DEF PassExpire, Asking, Listing
<1>13. ASSUME NEW u \in Order, PassPoll(p, u) PROVE PollOK'
  <2>1. /\ phase[p] = "poll" /\ at[p] = "next" /\ Listing(p, u) /\ cur'[p] = u
        /\ UNCHANGED <<phase, task, row, broker>> /\ todo'[p] = todo[p] \ {u}
        /\ at'[p] = IF row[u] # <<>> /\ Head(row[u]).status = "submitted" THEN "ask" ELSE "next"
    BY <1>13 DEF PassPoll, Listing
  <2>2. PollAt(p, u)
    BY DEF PollOK
  <2>3. at'[p] = "ask" => row[u] # <<>> /\ (task[u] \notin Final \/ Overruled(u))
    BY <2>1, <2>2, IdsKnown DEF PollAt, Marked
  <2>4. ASSUME NEW o \in Order PROVE PollAt(p, o)'
    <3>1. PollAt(p, o) /\ (Marked(o)' <=> Marked(o)) /\ (Listing(p, o)' => Listing(p, o))
      BY <2>1 DEF PollOK, Marked, Listing
    <3>2. Asking(p, o)' => o = u /\ at'[p] = "ask"
      BY <2>1 DEF Asking
    <3> QED BY <2>1, <2>3, <3>1, <3>2, PassRules DEF PollAt
  <2> HIDE DEF TypeInv, TypeOK, PassOK, OwnPlace
  <2> QED BY <1>c, <2>1, <2>4, QuietPoll
<1>14. ASSUME NEW u \in Order, PassAcquire(p, u) PROVE PollOK'
  <2>1. /\ UNCHANGED <<row, broker, phase>> /\ phase[p] = "due"
        /\ UNCHANGED task \/ (task[u] = "pending" /\ task' = [task EXCEPT ![u] = "dispatching"])
    BY <1>14 DEF PassAcquire, WriteTask
  <2>2. CASE UNCHANGED task
    BY <1>a, <2>1, <2>2 DEF Asking, Listing
  <2>3. CASE task[u] = "pending" /\ task' = [task EXCEPT ![u] = "dispatching"]
    <3>1. \A o \in Order \ {u} : task'[o] = task[o]
      BY <2>3
    <3> HIDE DEF TypeInv, TypeOK, PassOK, OwnPlace
    <3> QED BY <1>c, <2>1, <2>3, <3>1, OwnPoll
  <2> QED BY <2>1, <2>2, <2>3
<1> QED
  BY <1>c, <1>1, <1>2, <1>3, <1>4, <1>5, <1>6, <1>7, <1>8, <1>9, <1>10, <1>11, <1>12, <1>13,
     <1>14 DEF PassStep


-----------------------------------------------------------------------------
(* The rows of an order carry numbers its broker knows.                     *)

Writes(p, o) == Owns(p, o) /\ at[p] = "insert"

LEMMA IdKept ==
  ASSUME IdOK, \A p \in Pass, o \in Order : Polls(p, o)' => Polls(p, o) \/ o \in Live,
         \A o \in Order \ Paper :
           /\ DOMAIN broker[o] \subseteq DOMAIN broker'[o]
           /\ broker[o] # <<>> => broker'[o] # <<>>
           /\ \A k \in DOMAIN row'[o] : k \in DOMAIN row[o] /\ row'[o][k].id = row[o][k].id
           /\ \A p \in Pass : Writes(p, o)' => Writes(p, o) \/ broker'[o] # <<>>
  PROVE  IdOK'
BY DEF IdOK, Writes

LEMMA OutsideId ==
  ASSUME TypeInv, IdOK, UNCHANGED <<row, pass>>,
         \A o \in Order : DOMAIN broker'[o] = DOMAIN broker[o] /\ (broker[o] # <<>> => broker'[o] # <<>>)
  PROVE  IdOK'
<1>1. \A p \in Pass, o \in Order : (Polls(p, o)' <=> Polls(p, o)) /\ (Writes(p, o)' <=> Writes(p, o))
  BY DEF Polls, Writes, Owns, pass
<1> QED BY <1>1, IdKept

(* A pass takes no new order but from the list of live orders, and has      *)
(* nothing to write down that the broker does not hold.                     *)
LEMMA StepId ==
  ASSUME TypeInv, IdOK, NEW p \in Pass, PassBegin(p) \/ PassStep(p),
         \A o \in Order : Polls(p, o)' => Polls(p, o) \/ o \in Live,
         \A o \in Order \ Paper :
           /\ DOMAIN broker[o] \subseteq DOMAIN broker'[o]
           /\ broker[o] # <<>> => broker'[o] # <<>>
           /\ \A k \in DOMAIN row'[o] : k \in DOMAIN row[o] /\ row'[o][k].id = row[o][k].id
           /\ Writes(p, o)' => Writes(p, o) \/ broker'[o] # <<>>
  PROVE  IdOK'
<1>1. ASSUME NEW q \in Pass, NEW o \in Order, q # p
      PROVE  (Polls(q, o)' <=> Polls(q, o)) /\ (Writes(q, o)' <=> Writes(q, o))
  BY <1>1, OthersPoll DEF Writes
<1>2. \A q \in Pass, o \in Order : Polls(q, o)' => Polls(q, o) \/ o \in Live
  BY <1>1
<1>3. \A o \in Order \ Paper : \A q \in Pass : Writes(q, o)' => Writes(q, o) \/ broker'[o] # <<>>
  BY <1>1
<1> QED BY <1>2, <1>3, IdKept

LEMMA InsertId == ASSUME TypeInv, IdOK, NEW p \in Pass, PassStep(p), PassInsert(p) PROVE IdOK'
<1>1. PICK u \in Order :
        /\ cur[p] = u /\ Owns(p, u) /\ at[p] = "insert" /\ UNCHANGED <<broker, phase, todo, cur>>
        /\ at'[p] \in {"fill", "task", "refuse"}
        /\ \A o \in Order \ {u} : row'[o] = row[o]
        /\ DOMAIN row[u] = 1 .. Len(row[u]) /\ DOMAIN row'[u] = 1 .. Len(row[u]) + 1
        /\ Len(row[u]) \in Nat
        /\ \A j \in DOMAIN row[u] : row'[u][j] = row[u][j]
        /\ row'[u][Len(row[u]) + 1].id = Len(broker[u])
  BY InsertDoes
<1>2. phase[p] = "due"
  BY <1>1 DEF Owns
<1>3. SUFFICES ASSUME NEW o \in Order
      PROVE  /\ \A q \in Pass : Polls(q, o)' => o \in Live
             /\ o \notin Paper => /\ \A k \in DOMAIN row'[o] : row'[o][k].id \in DOMAIN broker[o]
                                  /\ \A q \in Pass : Owns(q, o)' /\ at'[q] = "insert" => broker[o] # <<>>
  BY <1>1 DEF IdOK
<1>4. ASSUME NEW q \in Pass PROVE /\ Polls(q, o)' => o \in Live
                                  /\ o \notin Paper /\ Owns(q, o)' /\ at'[q] = "insert"
                                       => broker[o] # <<>>
  <2>1. CASE q = p
    BY <1>1, <1>2, <2>1 DEF Polls
  <2>2. CASE q # p
    BY <2>2, OthersPoll DEF IdOK
  <2> QED BY <2>1, <2>2
<1>5. ASSUME o \notin Paper, NEW k \in DOMAIN row'[o] PROVE row'[o][k].id \in DOMAIN broker[o]
  <2>1. CASE o # u
    BY <1>1, <1>5, <2>1 DEF IdOK
  <2>2. CASE o = u /\ k \in DOMAIN row[u]
    BY <1>1, <1>5, <2>2 DEF IdOK
  <2>3. CASE o = u /\ k = Len(row[u]) + 1
    <3>1. broker[u] # <<>>
      BY <1>1, <1>5, <2>3 DEF IdOK
    <3>2. Len(broker[u]) \in DOMAIN broker[u]
      BY <3>1, IdsKnown
    <3> QED BY <1>1, <2>3, <3>2
  <2> QED BY <1>1, <1>5, <2>1, <2>2, <2>3
<1> QED BY <1>4, <1>5

(* Overwriting a status leaves the numbers alone, and adds no row.          *)
LEMMA StatusKeepsId ==
  ASSUME TypeInv, NEW o \in Order, NEW k, NEW s, row' = [row EXCEPT ![o][k].status = s], NEW u \in Order
  PROVE  /\ DOMAIN row'[u] = DOMAIN row[u]
         /\ \A j \in DOMAIN row[u] : row'[u][j].id = row[u][j].id
<1>1. row[o] \in Seq(Rows)
  BY DEF TypeInv, TypeOK
<1>2. row'[u] = IF u = o THEN [row[o] EXCEPT ![k] = [row[o][k] EXCEPT !.status = s]] ELSE row[u]
  BY DEF TypeInv, TypeOK
<1>3. ASSUME NEW j \in DOMAIN row[u], u = o PROVE row'[u][j].id = row[u][j].id
  <2>1. row[o][j] \in Rows
    BY <1>1, <1>3
  <2>2. [row[o][j] EXCEPT !.status = s].id = row[o][j].id
    BY <2>1 DEF Rows
  <2> QED BY <1>2, <1>3, <2>2
<1> QED BY <1>2, <1>3

LEMMA PassIds == ASSUME TypeInv, IdOK, NEW p \in Pass, PassBegin(p) \/ PassStep(p) PROVE IdOK'
<1> USE DEF TypeInv, TypeOK, PassOK, OwnPlace, Goto, Decide, Take, db
<1> DEFINE Fewer == \A o \in Order : Polls(p, o)' => Polls(p, o) \/ o \in Live
           None == \A o \in Order \ Paper : Writes(p, o)' => Writes(p, o)
<1>a. ASSUME UNCHANGED <<row, broker>>, Fewer, None PROVE IdOK'
  <2> HIDE DEF TypeInv, TypeOK, PassOK, OwnPlace
  <2> QED BY <1>a, StepId
<1> HIDE DEF Fewer, None
<1>0. CASE PassBegin(p)
  BY <1>0, <1>a DEF PassBegin, PassStart, Polls, Writes, Owns, Fewer, None
<1>c. SUFFICES ASSUME PassStep(p) PROVE IdOK'
  BY <1>0
<1>1. CASE PassScan(p)
  BY <1>1, <1>a DEF PassScan, Polls, Writes, Owns, Fewer, None
<1>2. CASE PassNextSweep(p)
  BY <1>2, <1>a DEF PassNextSweep, Polls, Writes, Owns, Fewer, None
<1>3. CASE PassAsk(p)
  <2>1. /\ UNCHANGED <<phase, cur, todo, row, broker>> /\ at[p] = "ask"
        /\ at'[p] \in {"next", "fill", "row"}
    BY <1>3 DEF PassAsk
  <2> QED BY <1>a, <2>1 DEF Polls, Writes, Owns, Fewer, None
<1>4. CASE PassAskFails(p) \/ PassFill(p) \/ PassMark(p) \/ PassLife(p)
  <2>1. /\ UNCHANGED <<phase, cur, todo, row, broker>> /\ at[p] \in {"ask", "fill", "mark", "life"}
    BY <1>4 DEF PassAskFails, PassFill, PassMark, PassLife
  <2>2. at'[p] \in {"next", "row", "task", "gate"} /\ (at[p] \in {"mark", "life"} => at'[p] \in {"gate", "next"})
    BY <1>4 DEF PassAskFails, PassFill, PassMark, PassLife
  <2> QED BY <1>a, <2>1, <2>2 DEF Polls, Writes, Owns, Fewer, None
<1>5. CASE PassGate(p)
  <2>1. /\ UNCHANGED <<phase, cur, todo, row, broker>> /\ phase[p] = "due"
        /\ at'[p] = "insert" => cur[p] \in Paper
    BY <1>5 DEF PassGate
  <2> QED BY <1>a, <2>1 DEF Polls, Writes, Owns, Fewer, None
<1>6. CASE PassSubmit(p)
  <2>1. PICK u \in Order : cur[p] = u
    BY <1>6 DEF PassSubmit
  <2>2. /\ UNCHANGED <<phase, cur, todo, row>> /\ phase[p] = "due" /\ at[p] = "submit"
        /\ UNCHANGED broker \/ \E s \in Held : Accept(u, s)
        /\ at'[p] = "insert" => \E s \in Held : Accept(u, s)
    <3>1. at'[p] = "insert" => \E s \in Held : Accept(u, s)
      BY <1>6, <2>1 DEF PassSubmit, Held
    <3> QED BY <1>6, <2>1, <3>1, SubmitDoes DEF PassSubmit
  <2> HIDE DEF TypeInv, TypeOK, PassOK, OwnPlace
  <2>3. /\ \A o \in Order : DOMAIN broker[o] \subseteq DOMAIN broker'[o]
        /\ \A o \in Order : broker[o] # <<>> => broker'[o] # <<>>
        /\ at'[p] = "insert" => broker'[u] # <<>>
    <3>1. CASE UNCHANGED broker /\ at'[p] # "insert"
      BY <3>1
    <3>2. ASSUME NEW s \in Held, Accept(u, s)
          PROVE  /\ \A o \in Order \ {u} : broker'[o] = broker[o]
                 /\ broker'[u] # <<>> /\ DOMAIN broker[u] \subseteq DOMAIN broker'[u]
      <4>1. /\ \A o \in Order \ {u} : broker'[o] = broker[o]
            /\ Len(broker[u]) \in Nat /\ broker'[u] # <<>>
            /\ DOMAIN broker[u] = 1 .. Len(broker[u]) /\ DOMAIN broker'[u] = 1 .. Len(broker[u]) + 1
        BY <3>2, AcceptDoes
      <4> QED BY <4>1
    <3> QED BY <2>2, <3>1, <3>2
  <2>4. \A o \in Order : Writes(p, o)' => o = u /\ at'[p] = "insert"
    BY <2>1, <2>2 DEF Writes, Owns
  <2>5. \A o \in Order : ~Polls(p, o)'
    BY <2>2 DEF Polls
  <2> QED BY <1>c, <2>2, <2>3, <2>4, <2>5, StepId
<1>7. CASE PassInsert(p)
  <2> HIDE DEF TypeInv, TypeOK, PassOK, OwnPlace
  <2> QED BY <1>7, <1>c, InsertId
<1>8. CASE PassRow(p) \/ PassRefuse(p)
  <2>1. PICK u \in Order : cur[p] = u
    BY <1>8 DEF PassRow, PassRefuse
  <2>2. /\ UNCHANGED <<phase, cur, todo, broker>> /\ at'[p] = "task"
        /\ at[p] \in {"row", "refuse"}
    BY <1>8 DEF PassRow, PassRefuse
  <2>3. \A o \in Order : (Polls(p, o)' => Polls(p, o)) /\ ~Writes(p, o)'
    BY <1>8, <2>2 DEF Polls, Writes
  <2> HIDE DEF TypeInv, TypeOK, PassOK, OwnPlace
  <2>4. \A o \in Order : /\ DOMAIN row'[o] = DOMAIN row[o]
                         /\ \A j \in DOMAIN row[o] : row'[o][j].id = row[o][j].id
    <3>1. CASE PassRow(p)
      <4>1. PICK s : row' = [row EXCEPT ![u][1].status = s]
        BY <2>1, <3>1 DEF PassRow
      <4> QED BY <4>1, StatusKeepsId
    <3>2. CASE PassRefuse(p)
      <4>1. row' = [row EXCEPT ![u][Len(row[u])].status = "rejected"]
        BY <2>1, <3>2 DEF PassRefuse
      <4> QED BY <4>1, StatusKeepsId
    <3> QED BY <1>8, <3>1, <3>2
  <2> QED BY <1>c, <2>2, <2>3, <2>4, StepId
<1>9. CASE PassTask(p)
  <2>1. UNCHANGED <<phase, cur, todo, row, broker>> /\ at[p] = "task" /\ at'[p] = "life"
    BY <1>9 DEF PassTask
  <2> QED BY <1>a, <2>1 DEF Polls, Writes, Owns, Fewer, None
<1>10. ASSUME NEW u \in Order, PassExpire(p, u) \/ PassPoll(p, u) \/ PassAcquire(p, u) PROVE IdOK'
  <2>1. /\ UNCHANGED <<phase, row, broker>> /\ at[p] = "next" /\ u \in todo[p] /\ cur'[p] = u
        /\ \A o \in Order : o \in todo'[p] => o \in todo[p]
        /\ at'[p] # "insert"
    BY <1>10 DEF PassExpire, PassPoll, PassAcquire
  <2> QED BY <1>a, <2>1 DEF Polls, Writes, Owns, Fewer, None
<1> QED
  BY <1>c, <1>1, <1>2, <1>3, <1>4, <1>5, <1>6, <1>7, <1>8, <1>9, <1>10 DEF PassStep

(* A user's cancel adds no order and no row, and renumbers none.            *)
LEMMA CancelDoes ==
  ASSUME TypeInv, NEW o \in Order, CancelStep(o), NEW u \in Order
  PROVE  /\ UNCHANGED <<life, ticket, retries, fills, creator, review, pass, lost>>
         /\ DOMAIN broker'[u] = DOMAIN broker[u] /\ Len(broker'[u]) = Len(broker[u])
         /\ DOMAIN row'[u] = DOMAIN row[u]
         /\ \A j \in DOMAIN row[u] : row'[u][j].id = row[u][j].id
<1>1. UNCHANGED <<life, ticket, retries, fills, creator, review, pass, lost>>
  BY DEF CancelStep, CancelRead, CancelTask, CancelBroker, CancelRow, db
<1>2. DOMAIN broker'[u] = DOMAIN broker[u] /\ Len(broker'[u]) = Len(broker[u])
  <2>1. CASE UNCHANGED broker
    BY <2>1
  <2>2. CASE \E i \in DOMAIN broker[o] :
               broker' = [broker EXCEPT ![o] = [broker[o] EXCEPT ![i] = "cancelled"]]
    <3>1. PICK i \in DOMAIN broker[o] :
            broker' = [broker EXCEPT ![o] = [broker[o] EXCEPT ![i] = "cancelled"]]
      BY <2>2
    <3>2. broker[o] \in Seq(Held) /\ "cancelled" \in Held
      BY DEF TypeInv, TypeOK, Held
    <3>3. /\ Len([broker[o] EXCEPT ![i] = "cancelled"]) = Len(broker[o])
          /\ DOMAIN [broker[o] EXCEPT ![i] = "cancelled"] = DOMAIN broker[o]
      BY <3>2, Overwritten
    <3> QED BY <3>1, <3>3 DEF TypeInv, TypeOK
  <2> QED BY <2>1, <2>2 DEF CancelStep, CancelRead, CancelTask, CancelBroker, CancelRow
<1>3. /\ DOMAIN row'[u] = DOMAIN row[u]
      /\ \A j \in DOMAIN row[u] : row'[u][j].id = row[u][j].id
  <2>1. CASE UNCHANGED row
    BY <2>1
  <2>2. CASE CancelRow(o)
    BY <2>2, StatusKeepsId DEF CancelRow
  <2> QED BY <2>1, <2>2 DEF CancelStep, CancelRead, CancelTask, CancelBroker, db
<1> QED BY <1>1, <1>2, <1>3

LEMMA NextId == ASSUME TypeInv, IdOK, [Next]_vars PROVE IdOK'
<1>1. CASE UNCHANGED vars
  BY <1>1, OutsideId DEF vars, db
<1>2. ASSUME NEW o \in Order, CreateStep(o) \/ RetryDue(o) \/ \E a \in Act : ReviewStep(o, a)
      PROVE  IdOK'
  BY <1>2, RequestDoes, OutsideId
<1>3. CASE PauseStep
  BY <1>3, PauseDoes, OutsideId
<1>4. ASSUME NEW o \in Order, NEW i \in DOMAIN broker[o], BrokerMove(o, i) PROVE IdOK'
  <2>1. /\ UNCHANGED <<row, pass>> /\ DOMAIN broker'[o] = DOMAIN broker[o]
        /\ \A u \in Order : u # o => broker'[u] = broker[u]
    BY <1>4, MoveDoes
  <2>2. broker'[o] # <<>>
    <3>1. i \in DOMAIN broker'[o]
      BY <2>1
    <3> QED BY <3>1
  <2> QED BY <2>1, <2>2, OutsideId
<1>5. CASE Crash
  <2>1. UNCHANGED <<row, broker>> /\ \A p \in Pass, o \in Order : ~Polls(p, o)' /\ ~Writes(p, o)'
    BY <1>5 DEF Crash, db, Polls, Owns, Writes
  <2> QED BY <2>1, IdKept
<1>6. ASSUME NEW o \in Order, CancelStep(o) PROVE IdOK'
  <2>1. UNCHANGED pass
    BY <1>6, CancelDoes
  <2>2. \A p \in Pass, u \in Order : (Polls(p, u)' <=> Polls(p, u)) /\ (Writes(p, u)' <=> Writes(p, u))
    BY <2>1 DEF Polls, Writes, Owns, pass
  <2>3. ASSUME NEW u \in Order
        PROVE  /\ DOMAIN broker'[u] = DOMAIN broker[u] /\ (broker[u] # <<>> => broker'[u] # <<>>)
               /\ \A k \in DOMAIN row'[u] : k \in DOMAIN row[u] /\ row'[u][k].id = row[u][k].id
    <3>1. /\ DOMAIN broker'[u] = DOMAIN broker[u]
          /\ \A k \in DOMAIN row'[u] : k \in DOMAIN row[u] /\ row'[u][k].id = row[u][k].id
      BY <1>6, CancelDoes
    <3>2. broker[u] # <<>> => \E i : i \in DOMAIN broker[u]
      BY IdsKnown
    <3> QED BY <3>1, <3>2
  <2> QED BY <2>2, <2>3, IdKept
<1> QED BY <1>1, <1>2, <1>3, <1>4, <1>5, <1>6, PassIds DEF Next

-----------------------------------------------------------------------------
(* Answers of the broker are final, and so is what they make of a task.     *)

LEMMA MovePoll ==
  ASSUME TypeInv, IdOK, PollOK, NEW o \in Order, NEW i \in DOMAIN broker[o], BrokerMove(o, i)
  PROVE  PollOK'
<1>1. /\ UNCHANGED <<task, row, pass>> /\ broker[o][i] = "open"
      /\ \A u \in Order : u # o => broker'[u] = broker[u]
      /\ \A j \in DOMAIN broker[o] : j # i => broker'[o][j] = broker[o][j]
  BY MoveDoes
<1>2. SUFFICES ASSUME NEW q \in Pass, NEW u \in Order PROVE PollAt(q, u)'
  BY DEF PollOK
<1>3. /\ Asking(q, u)' <=> Asking(q, u)
      /\ Listing(q, u)' <=> Listing(q, u)
      /\ at'[q] = at[q] /\ verdict'[q] = verdict[q] /\ (Marked(u)' <=> Marked(u))
  BY <1>1 DEF Asking, Listing, pass, Marked
<1>4. PollAt(q, u)
  BY DEF PollOK
<1>5. Asking(q, u) /\ Told(u) \in DOMAIN Word => Told(u)' = Told(u)
  <2> SUFFICES ASSUME Asking(q, u), Told(u) \in DOMAIN Word PROVE Told(u)' = Told(u)
    OBVIOUS
  <2>1. CASE u # o
    BY <1>1, <2>1 DEF Told
  <2>2. CASE u = o
    <3>1. Polls(q, o)
      BY <2>2 DEF Asking, Polls
    <3>2. o \notin Paper
      BY <3>1 DEF IdOK, Paper
    <3>3. row[o] # <<>>
      BY <1>4, <2>2 DEF PollAt
    <3>4. row[o][1].id \in DOMAIN broker[o]
      BY <3>2, <3>3, IdsKnown DEF IdOK
    <3>5. row[o][1].id # i
      BY <1>1, <2>2 DEF Told, Word
    <3> QED BY <1>1, <2>2, <3>4, <3>5 DEF Told
  <2> QED BY <2>1, <2>2
<1>6. Overruled(u)' <=> Overruled(u)
  BY MoveDoes DEF Overruled
<1> QED BY <1>1, <1>3, <1>4, <1>5, <1>6 DEF PollAt

(* A cancel at the broker is one more answer that stays, and a row that is  *)
(* marked by it is marked.                                                  *)
LEMMA CancelHeard ==
  ASSUME TypeInv, NEW o \in Order, CancelBroker(o) \/ CancelRow(o), CancelStep(o),
         NEW u \in Order, row[u] # <<>>
  PROVE  /\ row'[u] # <<>> /\ (Marked(u) => Marked(u)')
         /\ row[u][1].id \in DOMAIN broker[u] /\ Told(u) \in DOMAIN Word => Told(u)' = Told(u)
<1>1. row[u] \in Seq(Rows) /\ broker \in [Order -> Seq(Held)] /\ 1 \in DOMAIN row[u]
  BY IdsKnown DEF TypeInv, TypeOK
<1>2. 1 \in DOMAIN row'[u] /\ row'[u] # <<>> /\ row'[u][1].id = row[u][1].id
  <2>1. 1 \in DOMAIN row'[u] /\ row'[u][1].id = row[u][1].id
    BY <1>1, CancelDoes
  <2> QED BY <2>1
<1>3. CASE CancelBroker(o)
  <2>1. row' = row
    BY <1>3 DEF CancelBroker, db
  <2>2. CASE UNCHANGED broker
    BY <1>1, <2>1, <2>2 DEF Told, Marked
  <2>3. ASSUME NEW i, broker[o][i] = "open", broker' = [broker EXCEPT ![o][i] = "cancelled"]
        PROVE  row[u][1].id \in DOMAIN broker[u] /\ Told(u) \in DOMAIN Word => Told(u)' = Told(u)
    <3>1. u = o => broker'[u] = [broker[u] EXCEPT ![i] = "cancelled"]
      BY <1>1, <2>3
    <3>2. u # o => broker'[u] = broker[u]
      BY <1>1, <2>3
    <3>3. u = o /\ row[u][1].id \in DOMAIN broker[u] \ {i}
            => broker'[u][row[u][1].id] = broker[u][row[u][1].id]
      BY <1>1, <3>1
    <3> QED BY <2>1, <2>3, <3>2, <3>3 DEF Told, Word
  <2> QED BY <1>2, <1>3, <2>1, <2>2, <2>3 DEF CancelBroker, Marked
<1>4. CASE CancelRow(o)
  <2>1. broker' = broker /\ row' = [row EXCEPT ![o][cancel[o].row].status = "cancelled"]
    BY <1>4 DEF CancelRow
  <2>2. row'[u] = IF u = o
                    THEN [row[u] EXCEPT ![cancel[o].row] =
                            [row[u][cancel[o].row] EXCEPT !.status = "cancelled"]]
                    ELSE row[u]
    BY <2>1 DEF TypeInv, TypeOK
  <2>3. row'[u][1].status \in {row[u][1].status, "cancelled"}
    <3>1. row[u][1] \in Rows
      BY <1>1
    <3>2. [row[u][1] EXCEPT !.status = "cancelled"].status = "cancelled"
      BY <3>1 DEF Rows
    <3> QED BY <1>1, <2>2, <3>2
  <2> QED BY <1>2, <2>1, <2>3 DEF Told, Marked
<1> QED BY <1>3, <1>4

LEMMA CancelPoll ==
  ASSUME TypeInv, IdOK, PollOK, [Next]_vars, NEW o \in Order, CancelStep(o) PROVE PollOK'
<1>1. CASE CancelRead(o) \/ CancelTask(o)
  <2>1. UNCHANGED <<row, broker, pass>>
    BY <1>1 DEF CancelRead, CancelTask, CancelStep, db
  <2>2. \A u \in Order : task'[u] = task[u] \/ Overruled(u)'
    BY <1>1 DEF CancelRead, CancelTask, CancelTo, WriteTask, Overruled, TypeInv, TypeOK, db
  <2> QED BY <2>1, <2>2, NextRules, OutsidePoll
<1>2. CASE CancelBroker(o) \/ CancelRow(o)
  <2>1. UNCHANGED <<task, pass>>
    BY <1>2 DEF CancelBroker, CancelRow, CancelStep, db
  <2>2. SUFFICES ASSUME NEW q \in Pass, NEW u \in Order PROVE PollAt(q, u)'
    BY DEF PollOK
  <2>3. /\ Asking(q, u)' <=> Asking(q, u)
        /\ Listing(q, u)' <=> Listing(q, u)
        /\ at'[q] = at[q] /\ verdict'[q] = verdict[q]
    BY <2>1 DEF Asking, Listing, pass
  <2>4. PollAt(q, u)
    BY DEF PollOK
  <2>5. CASE row[u] # <<>>
    <3>1. Asking(q, u) => row[u][1].id \in DOMAIN broker[u]
      BY <2>5, IdsKnown DEF Asking, Polls, IdOK, Paper
    <3> QED BY <1>2, <2>1, <2>3, <2>4, <2>5, <3>1, CancelHeard, NextRules DEF PollAt
  <2>6. CASE row[u] = <<>>
    <3>1. row'[u] = <<>>
      <4>1. row[u] \in Seq(Rows) /\ DOMAIN row'[u] = {}
        BY <2>6, CancelDoes DEF TypeInv, TypeOK
      <4>2. CASE UNCHANGED row
        BY <2>6, <4>2
      <4>3. CASE CancelRow(o)
        BY <2>6, <4>3 DEF CancelRow, TypeInv, TypeOK
      <4> QED BY <1>2, <4>2, <4>3 DEF CancelBroker, db
    <3> QED BY <2>1, <2>3, <2>4, <2>6, <3>1, NextRules DEF PollAt, Marked
  <2> QED BY <2>5, <2>6
<1> QED BY <1>1, <1>2 DEF CancelStep

LEMMA NextPoll == ASSUME TypeInv, IdOK, PollOK, [Next]_vars PROVE PollOK'
<1>1. CASE UNCHANGED vars
  BY <1>1, NextRules, OutsidePoll DEF vars, db
<1>2. ASSUME NEW o \in Order, CreateStep(o) \/ RetryDue(o) \/ \E a \in Act : ReviewStep(o, a)
      PROVE  PollOK'
  <2>1. \A u \in Order : task'[u] = task[u] \/ task[u] \in Unsent
    BY <1>2, RequestDoes DEF TypeInv, TypeOK, Unsent, Cancellable
  <2> QED BY <1>2, <2>1, NextRules, RequestDoes, OutsidePoll
<1>3. CASE PauseStep
  <2>1. \A u \in Order : task'[u] = task[u] \/ task[u] \in Unsent
    BY <1>3, PauseDoes DEF TypeInv, TypeOK, Unsent, Cancellable
  <2> QED BY <1>3, <2>1, NextRules, PauseDoes, OutsidePoll
<1>4. ASSUME NEW o \in Order, NEW i \in DOMAIN broker[o], BrokerMove(o, i) PROVE PollOK'
  BY <1>4, MovePoll
<1>5. CASE Crash
  BY <1>5 DEF Crash, PollOK, PollAt, Asking, Listing
<1> QED BY <1>1, <1>2, <1>3, <1>4, <1>5, CancelPoll, PassPolls DEF Next

SettledInv == TypeInv /\ IdOK /\ PollOK

LEMMA InitSettled == Init => SettledInv
<1>1. Init => IdOK /\ PollOK
  BY DEF Init, IdOK, PollOK, PollAt, Polls, Owns, Asking, Listing
<1> QED BY <1>1, InitInv DEF SettledInv

LEMMA NextSettled == SettledInv /\ [Next]_vars => SettledInv'
BY NextInv, NextId, NextPoll DEF SettledInv

(* Every write to a task that no cancel overrules finds it unfinished, or   *)
(* writes what is there.                                                    *)
LEMMA SettledStep ==
  ASSUME SettledInv, [Next]_vars, NEW o \in Order, task[o] \in Final, ~Overruled(o)'
  PROVE  task'[o] = task[o]
<1> USE DEF SettledInv
<1>0. ~Overruled(o)
  BY NextRules
<1>1. CASE UNCHANGED vars
  BY <1>1 DEF vars, db
<1>2. ASSUME NEW u \in Order, CreateStep(u) \/ RetryDue(u) \/ \E a \in Act : ReviewStep(u, a)
      PROVE  task'[o] = task[o]
  BY <1>2, RequestDoes DEF TypeInv, TypeOK, Final
<1>3. CASE PauseStep
  BY <1>3, PauseDoes DEF TypeInv, TypeOK, Final, Cancellable
<1>4. ASSUME NEW u \in Order, NEW i \in DOMAIN broker[u], BrokerMove(u, i) PROVE task'[o] = task[o]
  BY <1>4, MoveDoes
<1>5. CASE Crash
  BY <1>5 DEF Crash, db
<1>6. ASSUME NEW p \in Pass, PassStep(p), PassTask(p) PROVE task'[o] = task[o]
  <2>1. PICK u \in Order :
          /\ cur[p] = u /\ at[p] = "task" /\ phase[p] \in {"expire", "poll", "due"}
          /\ \A v \in Order \ {u} : task'[v] = task[v]
          /\ phase[p] = "poll" => task' = [task EXCEPT ![u] = TaskOf[verdict[p]]]
          /\ phase[p] = "expire" =>
               UNCHANGED task \/ (task[u] = "awaiting_review" /\ task' = [task EXCEPT ![u] = "rejected"])
    BY <1>6, TaskDoes
  <2>2. CASE o # u
    BY <2>1, <2>2
  <2>3. CASE o = u /\ phase[p] = "due"
    <3>1. Owns(p, o)
      BY <2>1, <2>3 DEF Owns
    <3>2. task[o] = "dispatching"
      BY <1>0, <3>1 DEF TypeInv, OwnOK, Overruled
    <3> QED BY <3>2 DEF Final
  <2>4. CASE o = u /\ phase[p] = "expire"
    BY <2>1, <2>4 DEF Final
  <2>5. CASE o = u /\ phase[p] = "poll"
    <3>1. Asking(p, o) /\ PollAt(p, o)
      BY <2>1, <2>5 DEF Asking, PollOK
    <3>2. verdict[p] = Word[Told(o)] /\ task[o] = TaskOf[Word[Told(o)]]
      BY <1>0, <2>1, <3>1 DEF PollAt
    <3> QED BY <2>1, <2>5, <3>2 DEF TypeInv, TypeOK
  <2> QED BY <2>1, <2>2, <2>3, <2>4, <2>5
<1>7. ASSUME NEW p \in Pass, NEW u \in Order, PassAcquire(p, u) PROVE task'[o] = task[o]
  BY <1>7 DEF PassAcquire, WriteTask, TypeInv, TypeOK, Final
<1>8. ASSUME NEW p \in Pass, PassBegin(p) \/ PassStep(p), ~PassTask(p),
             \A u \in Order : ~PassAcquire(p, u)
      PROVE  task'[o] = task[o]
  BY <1>8 DEF PassBegin, PassStart, PassStep, PassScan, PassNextSweep, PassAsk, PassAskFails, PassFill,
              PassRow, PassMark, PassGate, PassSubmit, PassInsert, PassRefuse, PassLife, PassExpire,
              PassPoll, db
<1> QED
  <2>1. ASSUME NEW p \in Pass, PassBegin(p) \/ PassStep(p) PROVE task'[o] = task[o]
    <3>1. CASE PassStep(p)
      BY <3>1, <1>6, <1>7, <1>8
    <3>2. CASE PassBegin(p)
      BY <3>2 DEF PassBegin, PassStart, db
    <3> QED BY <2>1, <3>1, <3>2
  <2>2. ASSUME NEW u \in Order, CancelStep(u) PROVE task'[o] = task[o]
    BY <2>2 DEF CancelStep, CancelRead, CancelTask, CancelBroker, CancelRow, CancelTo, WriteTask, db,
                Overruled, TypeInv, TypeOK
  <2> QED BY <1>1, <1>2, <1>3, <1>4, <1>5, <2>1, <2>2 DEF Next

(* A task that has reached a final status keeps it, whichever passes,       *)
(* reviewers, pauses, answers and restarts follow, and whatever is          *)
(* cancelled at the broker: the only write that can take a final status     *)
(* away is the unguarded one of a cancel that found no row for the order.   *)
THEOREM FinalIsFinal == Spec => FinalStays
<1>1. SettledInv /\ [Next]_vars
        => [\A o \in Order : task[o] \in Final /\ cancel'[o].at # "cancelled" => task'[o] = task[o]]_vars
  BY SettledStep DEF Overruled
<1> QED BY <1>1, InitSettled, NextSettled, PTL DEF Spec, FinalStays

-----------------------------------------------------------------------------
(* Where no user cancels by hand nothing overrules a task: the form that    *)
(* the refinement of OrderService needs.                                    *)

FinalInv == TypeInv /\ Uncancelled /\ IdOK /\ PollOK

LEMMA InitFinal == Init => FinalInv
<1>1. Init => Uncancelled
  BY DEF Init, Uncancelled
<1> QED BY <1>1, InitSettled DEF FinalInv, SettledInv

LEMMA NextFinal == ASSUME CanCancel = {} PROVE FinalInv /\ [Next]_vars => FinalInv'
BY NextSettled, NextUncancelled DEF FinalInv, SettledInv

LEMMA FinalStep ==
  ASSUME CanCancel = {}, FinalInv, [Next]_vars, NEW o \in Order, task[o] \in Final
  PROVE  task'[o] = task[o]
<1>1. ~Overruled(o)'
  BY NextFinal DEF FinalInv, Uncancelled, Overruled
<1> QED BY <1>1, SettledStep DEF FinalInv, SettledInv
==============================================================================
