------------------------- MODULE BracketOrdersProofs -------------------------
(***************************************************************************)
(* Proofs about BracketOrders, for any legs, passes, prices and bounds.    *)
(***************************************************************************)
EXTENDS BracketOrders, SequenceTheorems, TLAPS

Gone      == {"rejected", "cancelled"}
RowStatus == {"submitted", "filled"} \cup Gone

\* The broker has, or has had, this order, and nobody is about to send it:
\* that stays so.
Past(o) == task[o] \in {"waiting_ack"} \cup Final /\ ~Sending(o)

\* Where the passes are, and which orders they may hold there.
PassOK ==
  \A p \in Pass :
    /\ at[p] \in {"asked", "sent", "calling"} => cur[p] \in Order /\ mode = "live"
    /\ at[p] = "calling" => cur[p] \in Leg
    /\ at[p] = "poll" /\ todo[p] # {} => mode = "live"
    /\ at[p] \in {"siblings", "calling"} => todo[p] \subseteq Leg

\* What a pass polls, asks about or calls off at the broker has been sent.
PastOK ==
  \A p \in Pass, o \in Order :
    /\ at[p] \in {"poll", "asked"} /\ o \in todo[p] => Past(o)
    /\ at[p] \in {"asked", "calling"} /\ cur[p] = o => Past(o) /\ row[o] # <<>>

\* An order is sent by one pass at a time, and has a retry left.
SendOK ==
  \A p \in Pass, o \in Order : at[p] = "sent" /\ cur[p] = o =>
    /\ task[o] \in {"dispatching", "cancelled"} /\ retries[o] < MaxRetries
    /\ \A q \in Pass : at[q] = "sent" /\ cur[q] = o => q = p

RetryOK ==
  \A o \in Order :
    task[o] \in {"none", "dispatching"} \cup Cancellable => retries[o] < MaxRetries

\* The rows of an order and what the broker holds for them.
RowOK ==
  \A o \in Order :
    /\ mode = "none" => task[o] = "none" /\ row[o] = <<>>
    /\ mode = "paper" => \A i \in DOMAIN row[o] : row[o][i] = "filled"
    /\ mode # "live" => broker[o] = <<>>
    /\ mode = "live" => Len(broker[o]) = Len(row[o])
    /\ task[o] = "waiting_ack" => mode = "live" /\ row[o] # <<>>
    /\ cancel[o].at = "asked" => mode = "live" /\ cancel[o].row \in 1 .. Len(row[o])
    /\ ~Past(o) => \A i \in DOMAIN row[o] : row[o][i] \in Gone

\* The lifecycle and the task agree on a fill; an open ticket is about an
\* order nobody has touched.
FillOK ==
  \A o \in Order :
    /\ life[o] = "filled" <=> task[o] = "filled"
    /\ task[o] = "filled" => row[o] # <<>> /\ row[o][1] # "submitted"
    /\ o \in open => task[o] \in {"awaiting_review", "cancelled"} /\ row[o] = <<>> /\ ~Sending(o)

\* While a pass waits for the broker's word, a fill that is on record is what
\* the broker will say, and an end of the entry is one at the broker.
HeadOK ==
  /\ row[Entry] # <<>> /\ row[Entry][1] = "submitted" => task[Entry] = "waiting_ack"
  /\ \A p \in Pass : at[p] = "asked" =>
       /\ task[cur[p]] = "filled" => broker[cur[p]][1] = "filled"
       /\ cur[p] = Entry /\ task[Entry] \in Final \ {"filled"} => broker[Entry][1] \in Gone

\* A leg that was ever sent had its trigger fired, after the entry's fill.
LegOK ==
  \A l \in Leg :
    /\ row[l] # <<>> \/ Sending(l) \/ task[l] \in Started
         => active[l] = "triggered" /\ life[Entry] = "filled"
    /\ task[l] = "conditional_wait" => life[Entry] = "filled"
    /\ task[l] = "held" \/ l \in open => active[l] = "held"

\* A pass is to call this leg off.
Calls(p, l) == \/ at[p] = "calling" /\ cur[p] = l
               \/ at[p] \in {"siblings", "calling"} /\ l \in todo[p]

\* The leg that filled first is called off by nobody.
ChiefOK ==
  (\E p \in Pass, l \in Leg : Calls(p, l)) =>
    \E w \in Leg : task[w] = "filled" /\ \A p \in Pass : ~Calls(p, w)

IInv == TypeOK /\ PassOK /\ PastOK /\ SendOK /\ RetryOK /\ RowOK /\ FillOK /\ HeadOK /\ LegOK
        /\ ChiefOK

-----------------------------------------------------------------------------
LEMMA Orders ==
  /\ Entry \in Order /\ Leg \subseteq Order /\ Entry \notin Leg /\ NoOrder \notin Order
  /\ \A o \in Order : o = Entry \/ o \in Leg
  BY OrderAssumption DEF Order

LEMMA InitInv == Init => IInv
<1> SUFFICES ASSUME Init PROVE IInv
  OBVIOUS
<1> USE OrderAssumption, PriceAssumption, BoundAssumption DEF Init
<1>1. TypeOK
  BY DEF TypeOK, Order
<1>2. PassOK /\ PastOK /\ SendOK /\ RetryOK
  BY DEF PassOK, PastOK, SendOK, RetryOK, Order
<1>3. RowOK
  BY DEF RowOK, Past, Sending
<1>4. FillOK
  BY DEF FillOK, Sending
<1>5. HeadOK
  BY DEF HeadOK, Order
<1>6. LegOK
  BY DEF LegOK, Sending, Started, Order
<1>7. ChiefOK
  BY DEF ChiefOK, Calls
<1>8. QED
  BY <1>1, <1>2, <1>3, <1>4, <1>5, <1>6, <1>7 DEF IInv

\* Steps that touch neither the orders' states nor the passes.
LEMMA AsideInv ==
  ASSUME IInv, TypeOK',
         UNCHANGED <<mode, task, life, active, open, retries, row, broker, at, todo, cur, cancel>>
  PROVE  IInv'
<1>1. \A o : Sending(o)' = Sending(o) /\ Past(o)' = Past(o)
  BY DEF Sending, Past
<1>2. \A p, l : Calls(p, l)' = Calls(p, l)
  BY DEF Calls
<1>3. PassOK' /\ PastOK' /\ SendOK' /\ RetryOK'
  BY <1>1 DEF IInv, PassOK, PastOK, SendOK, RetryOK
<1>4. RowOK' /\ FillOK' /\ HeadOK' /\ LegOK' /\ ChiefOK'
  BY <1>1, <1>2 DEF IInv, RowOK, FillOK, HeadOK, LegOK, ChiefOK
<1>5. QED
  BY <1>3, <1>4 DEF IInv

-----------------------------------------------------------------------------
(* Rows: one status is marked, or a row is appended.                        *)

LEMMA Marked ==
  ASSUME NEW S, NEW f \in [Order -> Seq(S)], NEW g, NEW o \in Order,
         NEW i \in 1 .. Len(f[o]), NEW s \in S, g = [f EXCEPT ![o][i] = s]
  PROVE  /\ g \in [Order -> Seq(S)]
         /\ \A q \in Order : Len(g[q]) = Len(f[q]) /\ (q # o => g[q] = f[q])
         /\ \A j \in 1 .. Len(f[o]) : g[o][j] = IF j = i THEN s ELSE f[o][j]
<1>1. g = [f EXCEPT ![o] = [f[o] EXCEPT ![i] = s]]
  OBVIOUS
<1>2. f[o] \in Seq(S)
  OBVIOUS
<1>3. /\ [f[o] EXCEPT ![i] = s] \in Seq(S)
      /\ Len([f[o] EXCEPT ![i] = s]) = Len(f[o])
      /\ \A j \in 1 .. Len(f[o]) : [f[o] EXCEPT ![i] = s][j] = IF j = i THEN s ELSE f[o][j]
  BY <1>2, ExceptSeq
<1>4. QED
  BY <1>1, <1>3

LEMMA AddedRow ==
  ASSUME NEW S, NEW f \in [Order -> Seq(S)], NEW g, NEW o \in Order, NEW s \in S,
         g = [f EXCEPT ![o] = Append(@, s)]
  PROVE  /\ g \in [Order -> Seq(S)]
         /\ \A q \in Order \ {o} : g[q] = f[q]
         /\ Len(g[o]) = Len(f[o]) + 1 /\ g[o] # <<>> /\ Len(f[o]) \in Nat
         /\ \A j \in 1 .. Len(f[o]) : g[o][j] = f[o][j]
         /\ g[o][Len(f[o]) + 1] = s
         /\ DOMAIN g[o] = 1 .. Len(f[o]) + 1
<1>1. f[o] \in Seq(S) /\ g[o] = Append(f[o], s)
  OBVIOUS
<1>2. /\ g[o] \in Seq(S) /\ g[o] # <<>> /\ Len(g[o]) = Len(f[o]) + 1
      /\ \A j \in 1 .. Len(f[o]) : g[o][j] = f[o][j]
      /\ g[o][Len(f[o]) + 1] = s
  BY <1>1, AppendProperties
<1>3. QED
  BY <1>1, <1>2

LEMMA SeqFacts ==
  ASSUME NEW S, NEW f \in [Order -> Seq(S)], NEW o \in Order
  PROVE  /\ Len(f[o]) \in Nat /\ DOMAIN f[o] = 1 .. Len(f[o])
         /\ (f[o] # <<>> <=> Len(f[o]) > 0)
<1>1. f[o] \in Seq(S)
  OBVIOUS
<1>2. QED
  BY <1>1

LEMMA RowTypes ==
  ASSUME TypeOK
  PROVE  /\ row \in [Order -> Seq(RowStatus)] /\ broker \in [Order -> Seq(Answers)]
         /\ \A o \in Order : /\ Len(row[o]) \in Nat /\ DOMAIN row[o] = 1 .. Len(row[o])
                             /\ Len(broker[o]) \in Nat /\ DOMAIN broker[o] = 1 .. Len(broker[o])
                             /\ (row[o] # <<>> <=> Len(row[o]) > 0)
                             /\ (broker[o] # <<>> <=> Len(broker[o]) > 0)
<1>1. row \in [Order -> Seq(RowStatus)] /\ broker \in [Order -> Seq(Answers)]
  BY DEF TypeOK, RowStatus, Gone
<1>2. ASSUME NEW o \in Order
      PROVE  /\ Len(row[o]) \in Nat /\ DOMAIN row[o] = 1 .. Len(row[o])
             /\ Len(broker[o]) \in Nat /\ DOMAIN broker[o] = 1 .. Len(broker[o])
             /\ (row[o] # <<>> <=> Len(row[o]) > 0) /\ (broker[o] # <<>> <=> Len(broker[o]) > 0)
  <2>1. row[o] \in Seq(RowStatus) /\ broker[o] \in Seq(Answers)
    BY <1>1
  <2>2. QED
    BY <2>1
<1>3. QED
  BY <1>1, <1>2

\* The first row of an order a pass asks about, or calls off at the broker.
LEMMA AskedRow ==
  ASSUME IInv, NEW p \in Pass, at[p] \in {"asked", "calling"}
  PROVE  /\ cur[p] \in Order /\ mode = "live" /\ Past(cur[p])
         /\ 1 \in 1 .. Len(row[cur[p]]) /\ 1 \in 1 .. Len(broker[cur[p]])
         /\ Len(broker[cur[p]]) = Len(row[cur[p]])
         /\ broker[cur[p]][1] \in Answers /\ Head(broker[cur[p]]) = broker[cur[p]][1]
<1>1. cur[p] \in Order /\ mode = "live"
  BY DEF IInv, PassOK
<1>2. Past(cur[p]) /\ row[cur[p]] # <<>>
  BY <1>1 DEF IInv, PastOK
<1>3. Len(broker[cur[p]]) = Len(row[cur[p]])
  BY <1>1 DEF IInv, RowOK
<1>4. /\ Len(row[cur[p]]) > 0 /\ Len(row[cur[p]]) \in Nat /\ Len(broker[cur[p]]) \in Nat
      /\ broker[cur[p]] \in Seq(Answers)
  BY <1>1, <1>2, RowTypes DEF IInv
<1>5. 1 \in 1 .. Len(row[cur[p]]) /\ 1 \in 1 .. Len(broker[cur[p]])
  BY <1>3, <1>4
<1>6. broker[cur[p]][1] \in Answers
  BY <1>4, <1>5, ElementOfSeq
<1>7. QED
  BY <1>1, <1>2, <1>3, <1>5, <1>6

-----------------------------------------------------------------------------
(* The user, the clock and the broker.                                      *)

LEMMA CreateInv == IInv /\ CreateBracket => IInv'
<1> SUFFICES ASSUME IInv, CreateBracket PROVE IInv'
  OBVIOUS
<1> USE DEF CreateBracket, IInv, pass, user, bounds
<1>1. mode = "none" /\ mode' \in {"paper", "live"} /\ UNCHANGED <<row, broker, retries, cancel, at, cur, todo>>
  OBVIOUS
<1>2. ASSUME NEW o \in Order
      PROVE  /\ task[o] = "none" /\ row[o] = <<>> /\ broker[o] = <<>> /\ cancel[o].at # "asked"
             /\ ~Sending(o) /\ ~Sending(o)' /\ ~Past(o) /\ ~Past(o)'
             /\ task'[o] \in {"awaiting_review", "held", "pending"}
             /\ life'[o] \in {"pending_approval", "risk_checked"}
             /\ (task'[o] = "awaiting_review" <=> o \in open')
             /\ (task'[o] = "held" => o \in Leg)
             /\ (o \in Leg => active'[o] = "held" /\ task'[o] # "pending")
  <2>1. task[o] = "none" /\ row[o] = <<>> /\ broker[o] = <<>> /\ cancel[o].at # "asked"
    BY <1>1 DEF RowOK
  <2>2. ~Sending(o) /\ ~Sending(o)'
    BY <1>1 DEF Sending, PassOK
  <2>3. /\ task'[o] \in {"awaiting_review", "held", "pending"}
        /\ life'[o] \in {"pending_approval", "risk_checked"}
        /\ (task'[o] = "awaiting_review" <=> o \in open')
        /\ (task'[o] = "held" => o \in Leg)
        /\ (o \in Leg => active'[o] = "held" /\ task'[o] # "pending")
    BY Orders DEF Activation, ReadyStatus
  <2>4. ~Past(o) /\ ~Past(o)'
    BY <2>1, <2>3 DEF Past, Final
  <2>5. QED
    BY <2>1, <2>2, <2>3, <2>4
<1>3. TypeOK'
  <2>1. open' \subseteq Order
    BY BoundAssumption
  <2> QED
    BY <2>1, <1>1 DEF TypeOK, Activation, ReadyStatus, Cancellable, Final
<1>4. PassOK' /\ PastOK' /\ SendOK'
  <2>1. PassOK'
    BY <1>1 DEF PassOK
  <2>2. PastOK' /\ SendOK'
    BY <1>1, <1>2 DEF PassOK, PastOK, SendOK, Sending
  <2>3. QED
    BY <2>1, <2>2
<1>5. RetryOK'
  BY <1>1, <1>2 DEF RetryOK, Cancellable
<1>6. RowOK'
  BY <1>1, <1>2 DEF RowOK
<1>7. FillOK'
  BY <1>1, <1>2 DEF FillOK
<1>8. HeadOK'
  BY <1>1, <1>2, Orders DEF HeadOK, PassOK
<1>9. LegOK'
  BY <1>1, <1>2, Orders DEF LegOK, Started
<1>10. ChiefOK'
  BY <1>1, <1>2, Orders DEF ChiefOK, Calls
<1>11. QED
  BY <1>3, <1>4, <1>5, <1>6, <1>7, <1>8, <1>9, <1>10

LEMMA ReviewInv == ASSUME IInv, NEW o \in Order, Review(o) PROVE IInv'
<1> USE DEF Review, IInv, pass, user, bounds
<1>1. UNCHANGED <<mode, row, broker, retries, cancel, active, at, cur, todo>>
  OBVIOUS
<1>2. /\ task[o] \in {"awaiting_review", "cancelled"} /\ row[o] = <<>> /\ ~Sending(o)
      /\ life[o] # "filled" /\ (o \in Leg => active[o] = "held")
  BY DEF FillOK, LegOK
<1>3. \A q : Sending(q)' = Sending(q)
  BY <1>1 DEF Sending
<1>4. \A p, l : (\A q \in Order : Past(q) => Past(q)') /\ Calls(p, l)' = Calls(p, l)
  <2>1. ASSUME NEW q \in Order, Past(q) PROVE Past(q)'
    BY <2>1, <1>2, <1>3 DEF TypeOK, Past, Final
  <2>2. QED
    BY <2>1, <1>1 DEF Calls
<1>5. /\ task'[o] \in {"pending", "held", "conditional_wait", "rejected", "cancelled"}
      /\ life'[o] \in {"risk_checked", "rejected"} /\ open' = open \ {o}
      /\ (o \in Leg => task'[o] \in {"held", "rejected", "cancelled"})
      /\ (task'[o] = "held" => active[o] = "held")
      /\ (task'[o] = "cancelled" => task[o] = "cancelled")
      /\ (task'[o] # "cancelled" => task[o] = "awaiting_review")
      /\ \A q \in Order \ {o} : task'[q] = task[q] /\ life'[q] = life[q]
  BY <1>2 DEF TypeOK, ReadyStatus
<1>6. TypeOK'
  BY <1>1, <1>2 DEF TypeOK, ReadyStatus, Cancellable, Final
<1>7. PassOK' /\ PastOK'
  BY <1>1, <1>4 DEF PassOK, PastOK
<1>8. SendOK' /\ RetryOK'
  BY <1>1, <1>2, <1>3, <1>5 DEF SendOK, RetryOK, Sending, Cancellable
<1>9. RowOK'
  BY <1>1, <1>2, <1>3, <1>4, <1>5, Orders DEF RowOK
<1>10. FillOK'
  BY <1>1, <1>2, <1>3, <1>5 DEF FillOK
<1>11. HeadOK'
  BY <1>1, <1>2, <1>3, <1>4, <1>5, AskedRow, Orders DEF HeadOK, Final
<1>12. LegOK'
  <2>1. life[Entry] = "filled" => life'[Entry] = "filled"
    BY <1>2, <1>5, Orders
  <2>2. QED
    BY <2>1, <1>1, <1>2, <1>3, <1>5, Orders DEF LegOK, Started
<1>13. ChiefOK'
  <2>1. \A w \in Leg : task[w] = "filled" => task'[w] = "filled"
    BY <1>2, <1>5, Orders
  <2>2. QED
    BY <2>1, <1>4 DEF ChiefOK
<1>14. QED
  BY <1>6, <1>7, <1>8, <1>9, <1>10, <1>11, <1>12, <1>13

LEMMA AsideSteps ==
  ASSUME IInv, Pause \/ Resume \/ (\E l \in Leg : Amend(l)) \/ (\E o \in Order : RetryDue(o))
  PROVE  IInv'
<1> USE DEF Pause, Resume, Amend, RetryDue, orders, pass, user, bounds
<1>1. UNCHANGED <<mode, task, life, active, open, retries, row, broker, at, todo, cur, cancel>>
  BY Zenon
<1>2. TypeOK'
  <2>1. CASE Pause \/ Resume
    <3>1. TypeOK
      BY DEF IInv
    <3>2. pauses' = pauses \/ pauses' = pauses + 1
      BY <2>1, Zenon
    <3>3. pauses' \in Nat
      BY <3>1, <3>2 DEF TypeOK
    <3>4. enabled' \in BOOLEAN /\ pauser' \in {"idle", "sweep"}
      BY <2>1, <3>1, Zenon DEF TypeOK
    <3>5. UNCHANGED <<stop, cooling, amended, stage>>
      BY <2>1, Zenon
    <3>6. QED
      BY <1>1, <3>1, <3>3, <3>4, <3>5, Zenon DEF TypeOK
  <2>2. CASE \E l \in Leg : Amend(l)
    BY <2>2, <1>1, BoundAssumption DEF IInv, TypeOK
  <2>3. CASE \E o \in Order : RetryDue(o)
    BY <2>3, <1>1 DEF IInv, TypeOK
  <2>4. QED
    BY <2>1, <2>2, <2>3
<1>3. QED
  BY <1>1, <1>2, AsideInv

LEMMA CancelOrderInv == ASSUME IInv, NEW o \in Order, CancelOrder(o) PROVE IInv'
<1> USE DEF CancelOrder, IInv, pass, bounds
<1>1. UNCHANGED <<mode, life, active, open, retries, row, broker, at, todo, cur, stop, cooling>>
  OBVIOUS
<1>2. /\ task' = [task EXCEPT ![o] = IF row[o] = <<>> THEN "cancelled" ELSE @]
      /\ cancel' = [cancel EXCEPT ![o] =
           IF row[o] = <<>> \/ Last(row[o]) \in {"filled", "cancelled"}
           THEN [at |-> "done", row |-> 0] ELSE [at |-> "asked", row |-> Len(row[o])]]
      /\ task[o] # "none"
  BY DEF TypeOK
<1>3. \A q : Sending(q)' = Sending(q)
  BY <1>1 DEF Sending
<1>4. \A p, l : (\A q \in Order : Past(q) => Past(q)') /\ Calls(p, l)' = Calls(p, l)
  <2>1. ASSUME NEW q \in Order, Past(q) PROVE Past(q)'
    BY <2>1, <1>2, <1>3 DEF TypeOK, Past, Final
  <2>2. QED
    BY <2>1, <1>1 DEF Calls
<1>5. /\ \A q \in Order : task'[q] = task[q] \/ (task'[q] = "cancelled" /\ row[q] = <<>>)
      /\ \A q \in Order : task[q] = "filled" <=> task'[q] = "filled"
  BY <1>2 DEF TypeOK, FillOK
<1>6. TypeOK'
  <2>1. task' \in [Order -> {"none", "dispatching", "waiting_ack"} \cup Cancellable \cup Final]
    BY <1>2 DEF TypeOK, Final
  <2>2. cancel' \in [Order -> [at : {"idle", "asked", "done"}, row : Nat]]
    BY <1>2, RowTypes DEF TypeOK
  <2>3. QED
    BY <1>1, <2>1, <2>2 DEF TypeOK
<1>7. PassOK' /\ PastOK'
  BY <1>1, <1>4 DEF PassOK, PastOK
<1>8. SendOK' /\ RetryOK'
  BY <1>1, <1>3, <1>5 DEF SendOK, RetryOK, Cancellable
<1>9. RowOK'
  <2>1. ASSUME NEW q \in Order, cancel'[q].at = "asked"
        PROVE  mode = "live" /\ cancel'[q].row \in 1 .. Len(row[q])
    <3>1. CASE q # o
      BY <3>1, <2>1, <1>2 DEF TypeOK, RowOK
    <3>2. CASE q = o
      <4>1. row[o] # <<>> /\ Last(row[o]) \notin {"filled", "cancelled"} /\ cancel'[o].row = Len(row[o])
        BY <3>2, <2>1, <1>2 DEF TypeOK
      <4>2. Len(row[o]) \in Nat \ {0} /\ DOMAIN row[o] = 1 .. Len(row[o])
        BY <4>1, RowTypes
      <4>3. row[o][Len(row[o])] # "filled"
        BY <4>1 DEF Last
      <4>4. mode = "live"
        BY <4>1, <4>2, <4>3 DEF RowOK, TypeOK
      <4>5. QED
        BY <3>2, <4>1, <4>2, <4>4
    <3>3. QED
      BY <3>1, <3>2
  <2>2. \A q \in Order : mode = "none" => task'[q] = "none"
    BY <1>2 DEF TypeOK, RowOK
  <2>3. QED
    BY <2>1, <2>2, <1>1, <1>4, <1>5 DEF RowOK
<1>10. FillOK'
  BY <1>1, <1>3, <1>5 DEF FillOK
<1>11. HeadOK'
  BY <1>1, <1>5, AskedRow, Orders, RowTypes DEF HeadOK
<1>12. LegOK'
  BY <1>1, <1>3, <1>5, Orders DEF LegOK, Started
<1>13. ChiefOK'
  BY <1>4, <1>5, Orders DEF ChiefOK
<1>14. QED
  BY <1>6, <1>7, <1>8, <1>9, <1>10, <1>11, <1>12, <1>13

LEMMA PauseSweepInv == IInv /\ PauseSweep => IInv'
<1> SUFFICES ASSUME IInv, PauseSweep PROVE IInv'
  OBVIOUS
<1> USE DEF PauseSweep, IInv, pass, bounds
<1>1. UNCHANGED <<mode, active, open, retries, row, broker, at, todo, cur, stop, cooling, cancel>>
  OBVIOUS
<1>2. \A q \in Order :
        IF task[q] \in Cancellable THEN task'[q] = "cancelled" /\ life'[q] = "cancelled"
                                   ELSE task'[q] = task[q] /\ life'[q] = life[q]
  BY DEF CallOff
<1>3. \A q : Sending(q)' = Sending(q)
  BY <1>1 DEF Sending
<1>4. \A p, l : (\A q \in Order : Past(q) => Past(q)') /\ Calls(p, l)' = Calls(p, l)
  <2>1. ASSUME NEW q \in Order, Past(q) PROVE Past(q)'
    BY <2>1, <1>2, <1>3 DEF TypeOK, Past, Final, Cancellable
  <2>2. QED
    BY <2>1, <1>1 DEF Calls
<1>5. \A q \in Order : task[q] = "filled" <=> task'[q] = "filled"
  BY <1>2 DEF Cancellable
<1>6. TypeOK'
  BY <1>1 DEF TypeOK, CallOff, Final
<1>7. PassOK' /\ PastOK'
  BY <1>1, <1>4 DEF PassOK, PastOK
<1>8. SendOK' /\ RetryOK'
  BY <1>1, <1>2, <1>3 DEF SendOK, RetryOK, Cancellable
<1>9. RowOK'
  BY <1>1, <1>2, <1>4 DEF RowOK, Cancellable
<1>10. FillOK'
  BY <1>1, <1>2, <1>3 DEF FillOK, Cancellable
<1>11. HeadOK'
  BY <1>1, <1>2, AskedRow, Orders DEF HeadOK, Past, Final, Cancellable
<1>12. LegOK'
  BY <1>1, <1>2, <1>3, Orders DEF LegOK, FillOK, Started, Cancellable
<1>13. ChiefOK'
  BY <1>4, <1>5, Orders DEF ChiefOK
<1>14. QED
  BY <1>6, <1>7, <1>8, <1>9, <1>10, <1>11, <1>12, <1>13

LEMMA BrokerMoveInv ==
  ASSUME IInv, NEW o \in Order, NEW i \in DOMAIN broker[o], BrokerMove(o, i) PROVE IInv'
<1> USE DEF BrokerMove, IInv, orders, pass, user, bounds
<1>1. /\ UNCHANGED <<mode, task, life, active, open, retries, row, at, todo, cur, stop, cooling, cancel>>
      /\ broker[o][i] = "open"
  OBVIOUS
<1>2. PICK s \in Answers \ {"open"} : broker' = [broker EXCEPT ![o][i] = s]
  OBVIOUS
<1>3. i \in 1 .. Len(broker[o]) /\ broker \in [Order -> Seq(Answers)]
  BY RowTypes
<1>4. /\ broker' \in [Order -> Seq(Answers)]
      /\ \A q \in Order : Len(broker'[q]) = Len(broker[q]) /\ (q # o => broker'[q] = broker[q])
      /\ \A j \in 1 .. Len(broker[o]) : broker'[o][j] = IF j = i THEN s ELSE broker[o][j]
  BY <1>2, <1>3, Marked
<1>5. \A q : Sending(q)' = Sending(q) /\ Past(q)' = Past(q)
  BY <1>1 DEF Sending, Past
<1>6. \A p, l : Calls(p, l)' = Calls(p, l)
  BY <1>1 DEF Calls
<1>7. TypeOK'
  BY <1>1, <1>4 DEF TypeOK
<1>8. PassOK' /\ PastOK' /\ SendOK' /\ RetryOK'
  BY <1>1, <1>5 DEF PassOK, PastOK, SendOK, RetryOK
<1>9. RowOK'
  <2>1. mode = "live"
    BY <1>3, RowTypes DEF RowOK
  <2>2. QED
    BY <2>1, <1>1, <1>4, <1>5 DEF RowOK
<1>10. FillOK' /\ LegOK' /\ ChiefOK'
  BY <1>1, <1>5, <1>6 DEF FillOK, LegOK, ChiefOK
<1>11. HeadOK'
  <2>1. ASSUME NEW p \in Pass, at[p] = "asked"
        PROVE  broker[cur[p]][1] # "open" => broker'[cur[p]][1] = broker[cur[p]][1]
    BY <2>1, <1>1, <1>4, AskedRow
  <2>2. QED
    BY <2>1, <1>1 DEF HeadOK, Gone
<1>12. QED
  BY <1>7, <1>8, <1>9, <1>10, <1>11

LEMMA CancelAnsweredInv == ASSUME IInv, NEW o \in Order, CancelAnswered(o) PROVE IInv'
<1> USE DEF CancelAnswered, IInv, pass, bounds
<1> DEFINE i == cancel[o].row
<1>1. UNCHANGED <<mode, task, life, active, open, retries, at, todo, cur, stop, cooling>>
  OBVIOUS
<1>2. mode = "live" /\ i \in 1 .. Len(row[o]) /\ i \in 1 .. Len(broker[o])
  BY DEF RowOK
<1>3. /\ broker' \in [Order -> Seq(Answers)]
      /\ \A q \in Order : Len(broker'[q]) = Len(broker[q]) /\ (q # o => broker'[q] = broker[q])
      /\ \A j \in 1 .. Len(broker[o]) : broker'[o][j] # broker[o][j]
           => broker[o][j] = "open" /\ broker'[o][j] = "cancelled"
  <2>1. CASE broker' = broker
    BY <2>1, RowTypes
  <2>2. CASE broker' = [broker EXCEPT ![o][i] = "cancelled"] /\ broker[o][i] = "open"
    BY <2>2, <1>2, RowTypes, Marked DEF Answers
  <2>3. QED
    BY <2>1, <2>2 DEF CancelAtBroker
<1>4. /\ row' \in [Order -> Seq(RowStatus)]
      /\ \A q \in Order : Len(row'[q]) = Len(row[q]) /\ (q # o => row'[q] = row[q])
      /\ \A j \in 1 .. Len(row[o]) : row'[o][j] = row[o][j] \/ row'[o][j] = "cancelled"
  <2>1. CASE row' = row
    BY <2>1, RowTypes
  <2>2. CASE row' = [row EXCEPT ![o][i] = "cancelled"]
    BY <2>2, <1>2, RowTypes, Marked DEF RowStatus, Gone
  <2>3. QED
    BY <2>1, <2>2
<1>5. \A q : Sending(q)' = Sending(q) /\ Past(q)' = Past(q)
  BY <1>1 DEF Sending, Past
<1>6. \A p, l : Calls(p, l)' = Calls(p, l)
  BY <1>1 DEF Calls
<1>7. TypeOK'
  <2>1. cancel' \in [Order -> [at : {"idle", "asked", "done"}, row : Nat]]
    BY DEF TypeOK
  <2>2. QED
    BY <2>1, <1>1, <1>3, <1>4 DEF TypeOK, RowStatus, Gone
<1>8. \A q \in Order : /\ row'[q] # <<>> <=> row[q] # <<>>
                       /\ DOMAIN row'[q] = DOMAIN row[q] /\ DOMAIN row[q] = 1 .. Len(row[q])
  BY <1>4, RowTypes, SeqFacts
<1>9. PassOK' /\ PastOK' /\ SendOK' /\ RetryOK'
  BY <1>1, <1>5, <1>8 DEF PassOK, PastOK, SendOK, RetryOK
<1>10. RowOK'
  <2>1. \A q \in Order : cancel'[q].at = "asked" => q # o /\ cancel'[q] = cancel[q]
    BY DEF TypeOK
  <2>2. ASSUME NEW q \in Order, ~Past(q), NEW j \in DOMAIN row'[q] PROVE row'[q][j] \in Gone
    <3>1. row[q][j] \in Gone /\ j \in 1 .. Len(row[q])
      BY <2>2, <1>8 DEF RowOK
    <3>2. row'[q][j] = row[q][j] \/ row'[q][j] = "cancelled"
      BY <3>1, <1>4
    <3>3. QED
      BY <3>1, <3>2 DEF Gone
  <2>3. QED
    BY <2>1, <2>2, <1>1, <1>2, <1>3, <1>4, <1>5, <1>8 DEF RowOK
<1>11. FillOK' /\ LegOK' /\ ChiefOK'
  BY <1>1, <1>4, <1>5, <1>6, <1>8, Orders, RowTypes DEF FillOK, LegOK, ChiefOK
<1>12. HeadOK'
  <2>1. ASSUME NEW p \in Pass, at[p] = "asked"
        PROVE  broker[cur[p]][1] # "open" => broker'[cur[p]][1] = broker[cur[p]][1]
    BY <2>1, <1>1, <1>3, AskedRow
  <2>2. row'[Entry] # <<>> /\ row'[Entry][1] = "submitted" => row[Entry] # <<>> /\ row[Entry][1] = "submitted"
    BY <1>4, <1>8, Orders, RowTypes
  <2>3. QED
    BY <2>1, <2>2, <1>1 DEF HeadOK, Gone
<1>13. QED
  BY <1>7, <1>9, <1>10, <1>11, <1>12

-----------------------------------------------------------------------------
(* The passes.                                                              *)

\* One pass moves.
Moves(p) ==
  /\ at' \in [Pass -> {"idle", "poll", "asked", "siblings", "calling", "due", "sent"}]
  /\ todo' \in [Pass -> SUBSET Order] /\ cur' \in [Pass -> Order \cup {NoOrder}]
  /\ stage' \in [Pass -> 1 .. 2]
  /\ \A q \in Pass \ {p} : at'[q] = at[q] /\ todo'[q] = todo[q] /\ cur'[q] = cur[q]

\* It goes on to the next order of its list, or waits for the broker about it.
LEMMA Advances ==
  ASSUME TypeOK, NEW p \in Pass, NEW o \in Order, NEW to \in {"asked", "calling", "sent"},
         UNCHANGED stage, Skip(p, o) \/ (Take(p, o) /\ Goto(p, to))
  PROVE  Moves(p)
<1>1. CASE Skip(p, o)
  BY <1>1 DEF Skip, Work, TypeOK, Moves
<1>2. CASE Take(p, o) /\ Goto(p, to)
  BY <1>2 DEF Take, Goto, Work, TypeOK, Moves
<1>3. QED
  BY <1>1, <1>2

\* A pass that moves without touching an order, and is not sending one.
LEMMA MoveInv ==
  ASSUME IInv, NEW p \in Pass, Moves(p), "sent" \notin {at[p], at'[p]},
         UNCHANGED <<mode, orders, broker, user, bounds>>,
         /\ at'[p] \in {"asked", "calling"} => cur'[p] \in Order /\ mode = "live"
         /\ at'[p] = "calling" => cur'[p] \in Leg
         /\ at'[p] = "poll" /\ todo'[p] # {} => mode = "live"
         /\ at'[p] \in {"siblings", "calling"} => todo'[p] \subseteq Leg,
         \A o \in Order :
           /\ at'[p] \in {"poll", "asked"} /\ o \in todo'[p] => Past(o)
           /\ at'[p] \in {"asked", "calling"} /\ cur'[p] = o => Past(o) /\ row[o] # <<>>,
         at'[p] = "asked" => row[cur'[p]][1] = "submitted",
         \A l \in Leg : Calls(p, l)' => Calls(p, l)
  PROVE  IInv'
<1> USE DEF IInv
<1>1. /\ UNCHANGED <<mode, task, life, active, stop, open, retries, cooling, row, broker, cancel>>
      /\ \A q \in Pass \ {p} : at'[q] = at[q] /\ todo'[q] = todo[q] /\ cur'[q] = cur[q]
  BY DEF orders, user, Moves
<1>2. TypeOK'
  BY DEF TypeOK, Moves, orders, user, bounds
<1>3. \A o : Sending(o)' = Sending(o)
  BY <1>1 DEF Sending
<1>4. \A o : Past(o)' = Past(o)
  BY <1>1, <1>3 DEF Past
<1>5. \A q \in Pass, l \in Leg : Calls(q, l)' => Calls(q, l)
  BY <1>1 DEF Calls
<1>6. PassOK'
  BY <1>1 DEF PassOK
<1>7. PastOK'
  BY <1>1, <1>4 DEF PastOK
<1>8. SendOK'
  BY <1>1 DEF SendOK
<1>9. RetryOK' /\ RowOK' /\ FillOK' /\ LegOK'
  BY <1>1, <1>3, <1>4 DEF RetryOK, RowOK, FillOK, LegOK
<1>10. HeadOK'
  <2>1. ASSUME NEW q \in Pass, at'[q] = "asked"
        PROVE  /\ task[cur'[q]] = "filled" => broker[cur'[q]][1] = "filled"
               /\ cur'[q] = Entry /\ task[Entry] \in Final \ {"filled"} => broker[Entry][1] \in Gone
    <3>1. CASE q # p
      BY <3>1, <2>1, <1>1 DEF HeadOK
    <3>2. CASE q = p
      <4>1. cur'[p] \in Order /\ row[cur'[p]] # <<>> /\ row[cur'[p]][1] = "submitted"
        BY <3>2, <2>1
      <4>2. task[cur'[p]] # "filled" /\ (cur'[p] = Entry => task[Entry] = "waiting_ack")
        BY <4>1 DEF FillOK, HeadOK
      <4>3. QED
        BY <3>2, <4>2 DEF Final
    <3>3. QED
      BY <3>1, <3>2
  <2>2. QED
    BY <2>1, <1>1 DEF HeadOK
<1>11. ChiefOK'
  BY <1>1, <1>5 DEF ChiefOK
<1>12. QED
  BY <1>2, <1>6, <1>7, <1>8, <1>9, <1>10, <1>11

LEMMA PassStartInv == ASSUME IInv, NEW p \in Pass, PassStart(p) PROVE IInv'
<1> USE DEF PassStart, Goto, Work
<1>1. /\ at[p] = "idle" /\ at'[p] = "poll" /\ UNCHANGED <<mode, orders, broker, user, bounds>>
      /\ todo'[p] = {o \in Order : mode = "live" /\ task[o] = "waiting_ack"}
  BY DEF IInv, TypeOK, user
<1>2. Moves(p)
  BY DEF IInv, TypeOK, Moves
<1>3. \A o \in Order : o \in todo'[p] => Past(o)
  BY <1>1 DEF IInv, SendOK, Sending, Past
<1>4. \A l \in Leg : ~Calls(p, l)'
  BY <1>1 DEF Calls
<1>5. QED
  BY <1>1, <1>2, <1>3, <1>4, MoveInv

LEMMA PassPollInv ==
  ASSUME IInv, NEW p \in Pass, NEW o \in Order, PassPoll(p, o) PROVE IInv'
<1> USE DEF PassPoll, Goto, Work, Take, Skip
<1>1. /\ at[p] = "poll" /\ o \in todo[p] /\ UNCHANGED <<mode, orders, broker, user, bounds>>
      /\ todo'[p] = todo[p] \ {o}
      /\ \/ /\ row[o] # <<>> /\ Head(row[o]) = "submitted"
            /\ cur'[p] = o /\ at'[p] = "asked"
         \/ at'[p] = "poll"
  BY DEF IInv, TypeOK
<1>2. Moves(p)
  <2>1. TypeOK /\ UNCHANGED stage /\ (Skip(p, o) \/ (Take(p, o) /\ Goto(p, "asked")))
    BY DEF IInv
  <2>2. QED
    BY <2>1, Advances
<1>3. Past(o) /\ mode = "live" /\ \A q \in Order : q \in todo'[p] => Past(q)
  BY <1>1 DEF IInv, PastOK, PassOK
<1>4. row[o] # <<>> /\ Head(row[o]) = "submitted" => row[o][1] = "submitted"
  BY RowTypes DEF IInv
<1>5. \A l \in Leg : ~Calls(p, l)'
  BY <1>1 DEF Calls
<1>6. QED
  BY <1>1, <1>2, <1>3, <1>4, <1>5, MoveInv

LEMMA PassFailsInv ==
  ASSUME IInv, NEW p \in Pass, PassAnswerFails(p) \/ PassCallFails(p) PROVE IInv'
<1> USE DEF PassAnswerFails, PassCallFails, Goto, Back
<1>1. /\ \/ at[p] = "asked" /\ at'[p] = "poll"
         \/ at[p] = "calling" /\ at'[p] = "siblings"
      /\ UNCHANGED <<mode, orders, broker, user, bounds>> /\ todo'[p] = todo[p]
  BY DEF IInv, TypeOK
<1>2. Moves(p)
  BY DEF IInv, TypeOK, Moves
<1>3. mode = "live" /\ \A o \in Order : at[p] = "asked" /\ o \in todo[p] => Past(o)
  BY <1>1 DEF IInv, PastOK, PassOK
<1>4. at[p] = "calling" => todo[p] \subseteq Leg
  BY DEF IInv, PassOK
<1>5. \A l \in Leg : Calls(p, l)' => Calls(p, l)
  BY <1>1 DEF Calls
<1>6. QED
  BY <1>1, <1>2, <1>3, <1>4, <1>5, MoveInv

LEMMA PassNextInv == ASSUME IInv, NEW p \in Pass, PassNext(p) PROVE IInv'
<1> USE DEF PassNext, Goto, Work
<1>0. /\ todo' \in [Pass -> SUBSET Order] /\ stage' \in [Pass -> 1 .. 2]
      /\ \A q \in Pass \ {p} : todo'[q] = todo[q]
  <2>1. TypeOK
    BY DEF IInv
  <2>2. CASE UNCHANGED todo
    BY <2>1, <2>2 DEF TypeOK
  <2>3. CASE todo' = [todo EXCEPT ![p] = {o \in Order \ cooling : task[o] = "pending"}]
    BY <2>1, <2>3 DEF TypeOK
  <2>4. QED
    BY <2>2, <2>3
<1>1. /\ at[p] = "siblings" /\ at'[p] \in {"due", "idle"}
      /\ UNCHANGED <<mode, orders, broker, user, bounds>>
  BY DEF IInv, TypeOK
<1>2. Moves(p)
  BY <1>0 DEF IInv, TypeOK, Moves
<1>3. \A l \in Leg : ~Calls(p, l)'
  BY <1>1 DEF Calls
<1>4. QED
  BY <1>1, <1>2, <1>3, MoveInv

LEMMA PassAnswerInv == ASSUME IInv, NEW p \in Pass, PassAnswer(p) PROVE IInv'
<1> DEFINE o == cur[p]
           held == broker[o][1]
<1>1. /\ at[p] = "asked" /\ o \in Order /\ mode = "live" /\ Past(o) /\ 1 \in 1 .. Len(row[o])
      /\ held \in Answers /\ Head(broker[o]) = held
  BY AskedRow DEF PassAnswer
<1>2. /\ UNCHANGED <<mode, active, open, retries, broker, cancel, todo, stop, cooling>>
      /\ \A q \in Pass \ {p} : at'[q] = at[q] /\ cur'[q] = cur[q]
      /\ at'[p] = "poll" /\ Moves(p)
  BY DEF PassAnswer, user, Back, Goto, Moves, IInv, TypeOK
<1>3. \/ held = "open" /\ UNCHANGED <<row, task, life>>
      \/ held = "filled" /\ row' = [row EXCEPT ![o][1] = held] /\ Settle(o, "filled", "filled")
      \/ held = "rejected" /\ row' = [row EXCEPT ![o][1] = held] /\ Settle(o, "failed", "broker_rejected")
      \/ held = "cancelled" /\ row' = [row EXCEPT ![o][1] = held] /\ Settle(o, "cancelled", "cancelled")
  BY <1>1 DEF PassAnswer
<1>4. /\ row' \in [Order -> Seq(RowStatus)]
      /\ \A q \in Order : Len(row'[q]) = Len(row[q]) /\ (q # o => row'[q] = row[q])
      /\ held # "open" => row'[o][1] = held
  <2>1. CASE held = "open"
    BY <2>1, <1>3, RowTypes DEF IInv
  <2>2. CASE held # "open"
    <3>1. row' = [row EXCEPT ![o][1] = held] /\ held \in RowStatus
      BY <2>2, <1>1, <1>3 DEF Answers, RowStatus, Gone
    <3>2. QED
      BY <3>1, <1>1, RowTypes, Marked DEF IInv
  <2>3. QED
    BY <2>1, <2>2
<1>5. \A q \in Order : row'[q] # <<>> <=> row[q] # <<>>
  BY <1>4, RowTypes, SeqFacts DEF IInv
<1>6. /\ \A q \in Order \ {o} : task'[q] = task[q] /\ life'[q] = life[q]
      /\ \/ held = "open" /\ task'[o] = task[o] /\ life'[o] = life[o]
         \/ held = "filled" /\ task'[o] = "filled" /\ life'[o] = "filled"
         \/ held \in Gone /\ task'[o] \in {"failed", "cancelled"}
            /\ life'[o] \in {"broker_rejected", "cancelled"}
  BY <1>1, <1>3 DEF Settle, IInv, TypeOK, Gone
<1>7. task[o] = "filled" => held = "filled"
  BY <1>1 DEF IInv, HeadOK
<1>8. \A q \in Order : task[q] = "filled" => task'[q] = "filled"
  BY <1>6, <1>7 DEF Gone
<1>9. TypeOK'
  <2>1. task' \in [Order -> {"none", "dispatching", "waiting_ack"} \cup Cancellable \cup Final]
    BY <1>3 DEF IInv, TypeOK, Settle, Final
  <2>2. life' \in [Order -> {"none", "risk_checked", "pending_approval", "submitted", "filled",
                             "cancelled", "rejected", "broker_rejected"}]
    BY <1>3 DEF IInv, TypeOK, Settle
  <2>3. QED
    BY <2>1, <2>2, <1>2, <1>4 DEF IInv, TypeOK, PassAnswer, user, bounds, RowStatus, Gone, Moves
<1>10. \A q \in Order : Sending(q)' <=> Sending(q)
  BY <1>1, <1>2 DEF Sending
<1>11. \A q \in Order : Past(q) => Past(q)'
  BY <1>6, <1>10 DEF Past, Final
<1>12. \A q \in Pass, l \in Leg : (Calls(q, l) <=> Calls(q, l)')
  BY <1>1, <1>2 DEF Calls
<1> USE DEF IInv
<1>13. PassOK' /\ PastOK'
  BY <1>1, <1>2, <1>5, <1>11 DEF PassOK, PastOK
<1>14. SendOK'
  BY <1>1, <1>2, <1>6 DEF SendOK, Past, Sending
<1>15. RetryOK'
  BY <1>2, <1>6, <1>1 DEF RetryOK, Past, Final, Cancellable
<1>16. RowOK'
  BY <1>1, <1>2, <1>4, <1>5, <1>6, <1>11 DEF RowOK
<1>17. FillOK'
  <2>1. ASSUME NEW q \in Order, q = o
        PROVE  /\ life'[q] = "filled" <=> task'[q] = "filled"
               /\ task'[q] = "filled" => row'[q] # <<>> /\ row'[q][1] # "submitted"
               /\ q \notin open'
    <3>1. row[o] # <<>>
      BY <1>1, RowTypes
    <3>2. CASE held = "open"
      BY <3>1, <3>2, <2>1, <1>2, <1>3, <1>1 DEF FillOK, Gone
    <3>3. CASE held # "open"
      BY <3>1, <3>3, <2>1, <1>2, <1>4, <1>5, <1>6 DEF FillOK, Gone
    <3>4. QED
      BY <3>2, <3>3
  <2>2. ASSUME NEW q \in Order, q # o
        PROVE  task'[q] = task[q] /\ life'[q] = life[q] /\ row'[q] = row[q]
    BY <2>2, <1>4, <1>6
  <2>3. ASSUME NEW q \in Order, q # o, q \in open'
        PROVE  task'[q] \in {"awaiting_review", "cancelled"} /\ row'[q] = <<>> /\ ~Sending(q)'
    BY <2>2, <2>3, <1>2, <1>10 DEF FillOK
  <2>4. ASSUME NEW q \in Order, q # o
        PROVE  /\ life'[q] = "filled" <=> task'[q] = "filled"
               /\ task'[q] = "filled" => row'[q] # <<>> /\ row'[q][1] # "submitted"
    BY <2>2, <2>4 DEF FillOK
  <2>5. QED
    BY <2>1, <2>3, <2>4 DEF FillOK
<1>18. HeadOK'
  <2>1. row'[Entry] # <<>> /\ row'[Entry][1] = "submitted" => task'[Entry] = "waiting_ack"
    <3>1. CASE Entry # o
      BY <3>1, <1>4, <1>6, Orders DEF HeadOK
    <3>2. CASE Entry = o /\ held = "open"
      BY <3>2, <1>3 DEF HeadOK
    <3>3. CASE Entry = o /\ held # "open"
      BY <3>3, <1>4, <1>1 DEF Answers
    <3>4. QED
      BY <3>1, <3>2, <3>3
  <2>2. ASSUME NEW q \in Pass, at'[q] = "asked"
        PROVE  /\ task'[cur'[q]] = "filled" => broker[cur'[q]][1] = "filled"
               /\ cur'[q] = Entry /\ task'[Entry] \in Final \ {"filled"} => broker[Entry][1] \in Gone
    <3>1. q # p /\ at[q] = "asked" /\ cur'[q] = cur[q] /\ cur[q] \in Order
      BY <2>2, <1>2 DEF PassOK
    <3>2. CASE cur[q] # o
      BY <3>1, <3>2, <1>6 DEF HeadOK
    <3>3. CASE cur[q] = o
      BY <3>1, <3>3, <1>6 DEF HeadOK, Gone
    <3>4. QED
      BY <3>1, <3>2, <3>3
  <2>3. QED
    BY <2>1, <2>2, <1>2 DEF HeadOK
<1>19. LegOK'
  <2>1. life[Entry] = "filled" => life'[Entry] = "filled"
    BY <1>6, <1>7, Orders DEF FillOK, Gone
  <2>2. row[o] # <<>>
    BY <1>1, RowTypes
  <2>3. QED
    BY <2>1, <2>2, <1>1, <1>2, <1>5, <1>6, <1>10, Orders DEF LegOK, Started, Past, Final
<1>20. ChiefOK'
  BY <1>8, <1>12, Orders DEF ChiefOK
<1>21. QED
  BY <1>9, <1>13, <1>14, <1>15, <1>16, <1>17, <1>18, <1>19, <1>20

LEMMA PassCalledInv == ASSUME IInv, NEW p \in Pass, PassCalled(p) PROVE IInv'
<1> DEFINE o == cur[p]
<1>1. /\ at[p] = "calling" /\ o \in Leg /\ o \in Order /\ mode = "live" /\ Past(o)
      /\ 1 \in 1 .. Len(row[o]) /\ 1 \in 1 .. Len(broker[o])
  BY AskedRow DEF PassCalled, IInv, PassOK
<1>2. /\ UNCHANGED <<mode, active, open, retries, cancel, todo, stop, cooling>>
      /\ \A q \in Pass \ {p} : at'[q] = at[q] /\ cur'[q] = cur[q]
      /\ at'[p] = "siblings" /\ Moves(p)
  BY DEF PassCalled, user, Back, Goto, Moves, IInv, TypeOK
<1>3. /\ row' \in [Order -> Seq(RowStatus)]
      /\ \A q \in Order : Len(row'[q]) = Len(row[q]) /\ (q # o => row'[q] = row[q])
  BY <1>1, RowTypes, Marked DEF PassCalled, RowStatus, Gone, IInv
<1>4. /\ broker' \in [Order -> Seq(Answers)]
      /\ \A q \in Order : Len(broker'[q]) = Len(broker[q]) /\ (q # o => broker'[q] = broker[q])
      /\ broker[o][1] # "open" => broker' = broker
  <2>1. CASE broker' = broker
    BY <2>1, RowTypes DEF IInv
  <2>2. CASE broker' = [broker EXCEPT ![o][1] = "cancelled"] /\ broker[o][1] = "open"
    BY <2>2, <1>1, RowTypes, Marked DEF Answers, IInv
  <2>3. QED
    BY <2>1, <2>2 DEF PassCalled, CancelAtBroker
<1>5. \A q \in Order : row'[q] # <<>> <=> row[q] # <<>>
  BY <1>3, RowTypes, SeqFacts DEF IInv
<1>6. /\ \A q \in Order \ {o} : task'[q] = task[q] /\ life'[q] = life[q]
      /\ task'[o] = "cancelled" /\ life'[o] = "cancelled"
  BY <1>1 DEF PassCalled, CallOff
<1>7. TypeOK'
  <2>1. task' \in [Order -> {"none", "dispatching", "waiting_ack"} \cup Cancellable \cup Final]
    BY DEF IInv, TypeOK, PassCalled, CallOff, Final
  <2>2. life' \in [Order -> {"none", "risk_checked", "pending_approval", "submitted", "filled",
                             "cancelled", "rejected", "broker_rejected"}]
    BY DEF IInv, TypeOK, PassCalled, CallOff
  <2>3. QED
    BY <2>1, <2>2, <1>2, <1>3, <1>4 DEF IInv, TypeOK, PassCalled, user, bounds, RowStatus, Gone, Moves
<1>8. \A q \in Order : Sending(q)' <=> Sending(q)
  BY <1>1, <1>2 DEF Sending
<1>9. \A q \in Order : Past(q) => Past(q)'
  BY <1>6, <1>8 DEF Past, Final
<1>10. \A q \in Pass, l \in Leg : Calls(q, l)' => Calls(q, l)
  BY <1>1, <1>2 DEF Calls
<1> USE DEF IInv
<1>11. PassOK' /\ PastOK'
  BY <1>1, <1>2, <1>5, <1>9 DEF PassOK, PastOK
<1>12. SendOK'
  BY <1>1, <1>2, <1>6 DEF SendOK, Past, Sending
<1>13. RetryOK'
  BY <1>2, <1>6 DEF RetryOK, Cancellable
<1>14. RowOK'
  <2>1. ASSUME NEW q \in Order, q # o PROVE task'[q] = task[q] /\ row'[q] = row[q]
    BY <2>1, <1>3, <1>6
  <2>2. \A q \in Order : ~Past(q)' => q # o /\ ~Past(q)
    BY <1>1, <1>9
  <2>3. mode' = "live" /\ cancel' = cancel
    BY <1>1, <1>2
  <2>4. \A q \in Order : Len(broker'[q]) = Len(row'[q])
    BY <1>1, <1>3, <1>4 DEF RowOK
  <2>5. \A q \in Order : ~Past(q)' => \A i \in DOMAIN row'[q] : row'[q][i] \in Gone
    BY <2>1, <2>2 DEF RowOK
  <2>6. \A q \in Order : task'[q] = "waiting_ack" => row'[q] # <<>>
    BY <1>5, <1>6 DEF RowOK
  <2>7. \A q \in Order : cancel'[q].at = "asked" => cancel'[q].row \in 1 .. Len(row'[q])
    BY <2>3, <1>3 DEF RowOK
  <2>8. QED
    BY <2>3, <2>4, <2>5, <2>6, <2>7 DEF RowOK
<1>15. FillOK'
  <2>1. o \notin open
    BY <1>1, RowTypes DEF FillOK
  <2>2. QED
    BY <2>1, <1>2, <1>3, <1>5, <1>6, <1>8 DEF FillOK
<1>16. HeadOK'
  <2>1. row'[Entry] = row[Entry] /\ task'[Entry] = task[Entry] /\ Entry # o
        /\ broker'[Entry] = broker[Entry]
    BY <1>1, <1>3, <1>4, <1>6, Orders
  <2>2. ASSUME NEW q \in Pass, at'[q] = "asked"
        PROVE  /\ task'[cur'[q]] = "filled" => broker'[cur'[q]][1] = "filled"
               /\ cur'[q] = Entry /\ task'[Entry] \in Final \ {"filled"} => broker'[Entry][1] \in Gone
    <3>1. q # p /\ at[q] = "asked" /\ cur'[q] = cur[q] /\ cur[q] \in Order
      BY <2>2, <1>2 DEF PassOK
    <3>2. QED
      BY <3>1, <2>1, <1>4, <1>6 DEF HeadOK
  <2>3. QED
    BY <2>1, <2>2 DEF HeadOK
<1>17. LegOK'
  <2>1. life'[Entry] = life[Entry]
    BY <1>1, <1>6, Orders
  <2>2. row[o] # <<>>
    BY <1>1, RowTypes
  <2>3. QED
    BY <2>1, <2>2, <1>1, <1>2, <1>5, <1>6, <1>8, Orders DEF LegOK, Started
<1>18. ChiefOK'
  <2>1. Calls(p, o)
    BY <1>1 DEF Calls
  <2>2. QED
    BY <2>1, <1>1, <1>6, <1>10, Orders DEF ChiefOK
<1>19. QED
  BY <1>7, <1>11, <1>12, <1>13, <1>14, <1>15, <1>16, <1>17, <1>18

LEMMA PassSiblingInv ==
  ASSUME IInv, NEW p \in Pass, NEW s \in Order, PassSibling(p, s) PROVE IInv'
<1>1. at[p] = "siblings" /\ s \in todo[p] /\ s \in Leg /\ todo[p] \subseteq Leg
  BY DEF PassSibling, IInv, PassOK
<1>2. CASE task[s] = "waiting_ack" \/ task[s] \notin OcoTask
  <2>1. /\ UNCHANGED <<mode, orders, broker, user, bounds>> /\ todo'[p] = todo[p] \ {s}
        /\ \/ at'[p] = "siblings"
           \/ at'[p] = "calling" /\ cur'[p] = s /\ task[s] = "waiting_ack"
    <3>1. CASE task[s] = "waiting_ack"
      BY <3>1 DEF PassSibling, orders, Take, Goto, Work, IInv, TypeOK
    <3>2. CASE task[s] \notin OcoTask
      <4>1. task' = task /\ life' = life
        BY <3>2 DEF PassSibling, CallOff, IInv, TypeOK, OcoTask
      <4>2. QED
        BY <3>2, <4>1, <1>1 DEF PassSibling, orders, Skip, Work, IInv, TypeOK, OcoTask
    <3>3. QED
      BY <1>2, <3>1, <3>2
  <2>2. Moves(p)
    <3>1. TypeOK /\ UNCHANGED stage /\ (Skip(p, s) \/ (Take(p, s) /\ Goto(p, "calling")))
      BY DEF PassSibling, IInv
    <3>2. QED
      BY <3>1, Advances
  <2>3. task[s] = "waiting_ack" => mode = "live" /\ Past(s) /\ row[s] # <<>>
    BY DEF IInv, SendOK, Sending, Past, RowOK
  <2>4. \A l \in Leg : Calls(p, l)' => Calls(p, l)
    BY <1>1, <2>1 DEF Calls
  <2>5. QED
    BY <1>1, <2>1, <2>2, <2>3, <2>4, MoveInv
<1>3. CASE task[s] \in OcoTask \ {"waiting_ack"}
  <2> USE DEF IInv
  <2>1. /\ UNCHANGED <<mode, active, open, retries, cancel, stop, cooling, row, broker, at, cur, stage>>
        /\ \A q \in Pass \ {p} : todo'[q] = todo[q]
        /\ todo'[p] = todo[p] \ {s}
        /\ todo' \in [Pass -> SUBSET Order]
    <3>1. task[s] # "waiting_ack"
      BY <1>3
    <3>2. todo' = [todo EXCEPT ![p] = todo[p] \ {s}] /\ UNCHANGED <<at, cur>>
      BY <3>1 DEF PassSibling, Skip, Work
    <3>3. UNCHANGED <<mode, active, open, retries, cancel, stop, cooling, row, broker, stage>>
      BY DEF PassSibling, user
    <3>4. QED
      BY <3>2, <3>3 DEF TypeOK
  <2>2. /\ \A q \in Order \ {s} : task'[q] = task[q] /\ life'[q] = life[q]
        /\ task'[s] = "cancelled" /\ life'[s] = "cancelled"
        /\ task[s] \in Cancellable
    BY <1>3 DEF PassSibling, CallOff, OcoTask, Cancellable
  <2>3. TypeOK'
    <3>1. task' \in [Order -> {"none", "dispatching", "waiting_ack"} \cup Cancellable \cup Final]
      BY <1>3 DEF TypeOK, PassSibling, CallOff, Final
    <3>2. life' \in [Order -> {"none", "risk_checked", "pending_approval", "submitted", "filled",
                               "cancelled", "rejected", "broker_rejected"}]
      BY <1>3 DEF TypeOK, PassSibling, CallOff
    <3>3. QED
      BY <3>1, <3>2, <2>1 DEF TypeOK, PassSibling, user, bounds
  <2>4. \A q \in Order : Sending(q)' <=> Sending(q)
    BY <2>1 DEF Sending
  <2>5. \A q \in Order : Past(q) => Past(q)'
    BY <2>2, <2>4 DEF Past, Final
  <2>6. \A q \in Pass, l \in Leg : Calls(q, l)' => Calls(q, l)
    BY <1>1, <2>1 DEF Calls
  <2>7. PassOK' /\ PastOK'
    BY <1>1, <2>1, <2>5 DEF PassOK, PastOK
  <2>8. SendOK' /\ RetryOK'
    BY <2>1, <2>2 DEF SendOK, RetryOK, Cancellable
  <2>9. RowOK' /\ FillOK'
    BY <2>1, <2>2, <2>4, <2>5 DEF RowOK, FillOK, Cancellable
  <2>10. HeadOK'
    <3>1. Entry # s
      BY <1>1, Orders
    <3>2. \A q \in Pass : at[q] = "asked" => cur[q] \in Order
      BY DEF PassOK
    <3>3. QED
      BY <3>1, <3>2, <2>1, <2>2, Orders DEF HeadOK
  <2>11. LegOK'
    BY <1>1, <2>1, <2>2, <2>4, Orders DEF LegOK, Started, Cancellable
  <2>12. ChiefOK'
    BY <2>2, <2>6, Orders DEF ChiefOK, Cancellable
  <2>13. QED
    BY <2>3, <2>7, <2>8, <2>9, <2>10, <2>11, <2>12
<1>4. QED
  BY <1>2, <1>3

\* What the conditional orders of a pass come to.
LEMMA ConditionalEffect ==
  ASSUME IInv, NEW p \in Pass, PassConditional(p)
  PROVE  /\ at[p] \in {"poll", "due"} /\ at'[p] = "siblings" /\ todo'[p] = Siblings /\ Moves(p)
         /\ UNCHANGED <<mode, open, retries, row, broker, cancel, stop, cur>>
         /\ \E fired \in SUBSET Leg :
              /\ \A l \in fired : l \in Freed \/ task[l] = "conditional_wait"
              /\ \A o \in Order :
                   /\ task'[o] = (CASE o \in fired -> "pending"
                                    [] o \in Freed \ fired -> "conditional_wait"
                                    [] o \in Dropped -> "cancelled"
                                    [] OTHER -> task[o])
                   /\ active'[o] = (CASE o \in fired -> "triggered"
                                      [] o \in Freed \ fired -> "waiting_trigger"
                                      [] OTHER -> active[o])
                   /\ life'[o] = IF o \in Dropped THEN "cancelled" ELSE life[o]
         /\ TypeOK'
<1>1. TypeOK
  BY DEF IInv
<1>2. PICK price \in Mark \cup {NoPrice} :
        LET waiting == Freed \cup {l \in Leg : task[l] = "conditional_wait"}
            fired   == {l \in waiting : price # NoPrice /\ Reached(l, price)}
        IN /\ active' = [o \in Order |-> CASE o \in fired -> "triggered"
                                           [] o \in Freed \ fired -> "waiting_trigger"
                                           [] OTHER -> active[o]]
           /\ task' = [o \in Order |-> CASE o \in fired -> "pending"
                                         [] o \in Freed \ fired -> "conditional_wait"
                                         [] o \in Dropped -> "cancelled"
                                         [] OTHER -> task[o]]
           /\ cooling' = cooling \ fired
  BY Zenon DEF PassConditional
<1> DEFINE fired == {l \in Freed \cup {l \in Leg : task[l] = "conditional_wait"} :
                       price # NoPrice /\ Reached(l, price)}
<1>3. /\ active' = [o \in Order |-> CASE o \in fired -> "triggered"
                                      [] o \in Freed \ fired -> "waiting_trigger"
                                      [] OTHER -> active[o]]
      /\ task' = [o \in Order |-> CASE o \in fired -> "pending"
                                    [] o \in Freed \ fired -> "conditional_wait"
                                    [] o \in Dropped -> "cancelled"
                                    [] OTHER -> task[o]]
      /\ cooling' = cooling \ fired
  BY <1>2, Zenon
<1>4. fired \in SUBSET Leg /\ \A l \in fired : l \in Freed \/ task[l] = "conditional_wait"
  BY DEF Freed
<1>5. life' = [o \in Order |-> IF o \in Dropped THEN "cancelled" ELSE life[o]]
  BY DEF PassConditional
<1>6. /\ at[p] \in {"poll", "due"} /\ at' = [at EXCEPT ![p] = "siblings"]
      /\ todo' = [todo EXCEPT ![p] = Siblings] /\ Siblings \subseteq Order
      /\ stage' = [stage EXCEPT ![p] = IF at[p] = "poll" THEN 1 ELSE 2]
      /\ UNCHANGED <<mode, open, retries, row, broker, cancel, stop, cur, enabled, pauser,
                     amended, pauses>>
  BY Orders DEF PassConditional, Goto, Work, user, bounds, Siblings
<1> HIDE DEF fired
<1>7. Moves(p) /\ at'[p] = "siblings" /\ todo'[p] = Siblings
  BY <1>1, <1>6 DEF Moves, TypeOK
<1>8. TypeOK'
  <2>1. task' \in [Order -> {"none", "dispatching", "waiting_ack"} \cup Cancellable \cup Final]
    BY <1>1, <1>3 DEF TypeOK, Cancellable, Final
  <2>2. active' \in [Order -> {"none", "active", "held", "waiting_trigger", "triggered"}]
    BY <1>1, <1>3 DEF TypeOK
  <2>3. life' \in [Order -> {"none", "risk_checked", "pending_approval", "submitted", "filled",
                             "cancelled", "rejected", "broker_rejected"}]
    BY <1>1, <1>5 DEF TypeOK
  <2>4. QED
    BY <2>1, <2>2, <2>3, <1>1, <1>3, <1>6, <1>7 DEF TypeOK, Moves
<1>9. \A o \in Order :
        /\ task'[o] = (CASE o \in fired -> "pending"
                         [] o \in Freed \ fired -> "conditional_wait"
                         [] o \in Dropped -> "cancelled"
                         [] OTHER -> task[o])
        /\ active'[o] = (CASE o \in fired -> "triggered"
                           [] o \in Freed \ fired -> "waiting_trigger"
                           [] OTHER -> active[o])
        /\ life'[o] = IF o \in Dropped THEN "cancelled" ELSE life[o]
  BY <1>3, <1>5
<1>10. QED
  BY <1>4, <1>6, <1>7, <1>8, <1>9

LEMMA PassConditionalInv == ASSUME IInv, NEW p \in Pass, PassConditional(p) PROVE IInv'
<1>1. /\ at[p] \in {"poll", "due"} /\ at'[p] = "siblings" /\ todo'[p] = Siblings /\ Moves(p)
      /\ UNCHANGED <<mode, open, retries, row, broker, cancel, stop, cur>> /\ TypeOK'
  BY ConditionalEffect
<1>2. PICK fired \in SUBSET Leg :
        /\ \A l \in fired : l \in Freed \/ task[l] = "conditional_wait"
        /\ \A o \in Order :
             /\ task'[o] = (CASE o \in fired -> "pending"
                              [] o \in Freed \ fired -> "conditional_wait"
                              [] o \in Dropped -> "cancelled"
                              [] OTHER -> task[o])
             /\ active'[o] = (CASE o \in fired -> "triggered"
                                [] o \in Freed \ fired -> "waiting_trigger"
                                [] OTHER -> active[o])
             /\ life'[o] = IF o \in Dropped THEN "cancelled" ELSE life[o]
  BY ConditionalEffect
<1> USE DEF IInv
<1>3. /\ \A l \in Freed : l \in Leg /\ task[l] = "held" /\ life[Entry] = "filled"
      /\ \A l \in Dropped : l \in Leg /\ task[l] = "held" /\ l \notin Freed /\ l \notin fired
  <2>1. /\ \A l \in Freed : l \in Leg /\ task[l] = "held" /\ life[Entry] = "filled"
        /\ \A l \in Dropped : l \in Leg /\ task[l] = "held" /\ life[Entry] # "filled"
    BY DEF Freed, Dropped, Held
  <2>2. QED
    BY <2>1, <1>2
<1>4. \A o \in Order :
        /\ o = Entry \/ task[o] \notin {"held", "conditional_wait"} =>
             task'[o] = task[o] /\ life'[o] = life[o] /\ active'[o] = active[o]
        /\ task[o] \in {"held", "conditional_wait"} =>
             task'[o] \in {"held", "conditional_wait", "pending", "cancelled"}
        /\ life'[o] = life[o] \/ (task[o] = "held" /\ life'[o] = "cancelled")
  BY <1>2, <1>3, Orders
<1>5. \A o \in Order : Sending(o)' <=> Sending(o)
  BY <1>1 DEF Sending, Moves
<1>6. \A o \in Order : Past(o) => Past(o)'
  BY <1>4, <1>5 DEF Past, Final
<1>7. \A o \in Order : task'[o] = "filled" <=> task[o] = "filled"
  BY <1>4
<1>8. PassOK'
  BY <1>1, Orders DEF PassOK, Moves, Siblings
<1>9. PastOK'
  BY <1>1, <1>6 DEF PastOK, Moves
<1>10. SendOK' /\ RetryOK'
  BY <1>1, <1>4 DEF SendOK, RetryOK, Moves, Cancellable
<1>11. RowOK'
  BY <1>1, <1>4, <1>6 DEF RowOK
<1>12. FillOK'
  BY <1>1, <1>4, <1>5, <1>7 DEF FillOK
<1>13. HeadOK'
  <2>1. task'[Entry] = task[Entry]
    BY <1>4, Orders
  <2>2. ASSUME NEW q \in Pass, at'[q] = "asked" PROVE at[q] = "asked" /\ cur[q] \in Order /\ q # p
    BY <2>2, <1>1 DEF PassOK, Moves
  <2>3. QED
    BY <2>1, <2>2, <1>1, <1>7 DEF HeadOK
<1>14. LegOK'
  <2>1. life'[Entry] = life[Entry]
    BY <1>4, Orders
  <2>2. ASSUME NEW l \in Leg, l \in fired
        PROVE  task'[l] = "pending" /\ active'[l] = "triggered" /\ life[Entry] = "filled" /\ l \notin open
    <3>1. task'[l] = "pending" /\ active'[l] = "triggered"
      <4>1. l \notin Dropped /\ l \notin Freed \ fired /\ l \in Order
        BY <2>2, <1>3, Orders
      <4>2. QED
        BY <4>1, <2>2, <1>2
    <3>2. \/ task[l] = "held" /\ life[Entry] = "filled"
          \/ task[l] = "conditional_wait"
      BY <2>2, <1>2, <1>3
    <3>3. QED
      BY <3>1, <3>2, Orders DEF LegOK, FillOK
  <2>3. ASSUME NEW l \in Leg, l \in Freed \ fired
        PROVE  task'[l] = "conditional_wait" /\ life[Entry] = "filled" /\ l \notin open
               /\ row[l] = <<>> /\ ~Sending(l)
    <3>1. task'[l] = "conditional_wait"
      <4>1. l \notin Dropped /\ l \notin fired /\ l \in Order
        BY <2>3, <1>3, Orders
      <4>2. QED
        BY <4>1, <2>3, <1>2
    <3>2. task[l] = "held" /\ life[Entry] = "filled"
      BY <2>3, <1>3
    <3>3. active[l] = "held"
      BY <3>2 DEF LegOK
    <3>4. l \notin open /\ row[l] = <<>> /\ ~Sending(l)
      BY <3>2, <3>3, Orders DEF LegOK, FillOK
    <3>5. QED
      BY <3>1, <3>2, <3>4
  <2>4. ASSUME NEW l \in Leg, l \notin fired, l \notin Freed
        PROVE  /\ active'[l] = active[l]
               /\ task'[l] = task[l] \/ task'[l] = "cancelled"
    BY <2>4, <1>2, Orders
  <2>5. QED
    BY <2>1, <2>2, <2>3, <2>4, <1>1, <1>5, Orders DEF LegOK, Started
<1>15. ChiefOK'
  <2>1. \A w \in Leg : task[w] = "filled" => w \notin Siblings
    BY Orders DEF Siblings, FillOK, OcoLife
  <2>2. \A q \in Pass, l \in Leg : Calls(q, l)' => Calls(q, l) \/ (q = p /\ l \in Siblings)
    BY <1>1 DEF Calls, Moves
  <2>3. CASE \E q \in Pass, l \in Leg : Calls(q, l)
    BY <2>1, <2>2, <2>3, <1>7, Orders DEF ChiefOK
  <2>4. CASE ~(\E q \in Pass, l \in Leg : Calls(q, l))
    <3>1. SUFFICES ASSUME NEW l \in Siblings
                   PROVE  \E w \in Leg : task'[w] = "filled" /\ \A q \in Pass : ~Calls(q, w)'
      BY <2>2, <2>4 DEF ChiefOK
    <3>2. PICK w \in Leg : life[w] = "filled"
      BY DEF Siblings, Winner
    <3>3. task[w] = "filled"
      BY <3>2, Orders DEF FillOK
    <3>4. QED
      BY <3>3, <2>1, <2>2, <2>4, <1>7, Orders
  <2>5. QED
    BY <2>3, <2>4
<1>16. QED
  BY <1>1, <1>8, <1>9, <1>10, <1>11, <1>12, <1>13, <1>14, <1>15

LEMMA PassAcquireInv ==
  ASSUME IInv, NEW p \in Pass, NEW o \in Order, PassAcquire(p, o) PROVE IInv'
<1> USE DEF IInv
<1>1. CASE task[o] # "pending"
  <2>1. /\ at[p] = "due" /\ at' = at /\ cur' = cur /\ todo' = [todo EXCEPT ![p] = todo[p] \ {o}]
        /\ UNCHANGED <<mode, orders, broker, user, bounds, stage>>
    BY <1>1 DEF PassAcquire, orders, Skip, Work
  <2>2. Moves(p)
    BY <2>1 DEF Moves, TypeOK
  <2>3. at'[p] = "due"
    BY <2>1
  <2>4. QED
    BY <2>1, <2>2, <2>3, MoveInv DEF Calls
<1>2. CASE task[o] = "pending"
  <2>1. /\ UNCHANGED <<mode, active, open, retries, broker, cancel, stop, cooling>>
        /\ at[p] = "due" /\ Moves(p) /\ at'[p] \in {"due", "sent"}
    <3>1. /\ UNCHANGED <<mode, active, open, retries, broker, cancel, stop, cooling, stage>>
          /\ at[p] = "due" /\ todo' = [todo EXCEPT ![p] = todo[p] \ {o}]
      BY <1>2 DEF PassAcquire, user, Skip, Take, Work
    <3>2. \/ at' = at /\ cur' = cur
          \/ at' = [at EXCEPT ![p] = "sent"] /\ cur' = [cur EXCEPT ![p] = o]
      BY <1>2 DEF PassAcquire, Skip, Take, Goto
    <3>3. QED
      BY <3>1, <3>2 DEF Moves, TypeOK
  <2>2. \/ /\ CallOff({o}) /\ at'[p] = "due" /\ row' = row
        \/ /\ mode = "paper" /\ Settle(o, "filled", "filled") /\ at'[p] = "due"
           /\ row' = [row EXCEPT ![o] = Append(@, "filled")]
        \/ /\ mode = "live" /\ Settle(o, "dispatching", "submitted") /\ at'[p] = "sent"
           /\ cur'[p] = o /\ row' = row
    BY <1>2 DEF PassAcquire, Skip, Take, Work, Goto, TypeOK
  <2>3. \A q \in Order \ {o} : task'[q] = task[q] /\ life'[q] = life[q]
    BY <2>2 DEF CallOff, Settle, TypeOK
  <2>4. ~Past(o) /\ ~Sending(o) /\ o \notin open /\ (o \in Leg => active[o] = "triggered" /\ life[Entry] = "filled")
    BY <1>2 DEF Past, Final, SendOK, Sending, FillOK, LegOK, Started
  <2>5. \A l \in Leg, q \in Pass : Calls(q, l)' <=> Calls(q, l)
    BY <2>1 DEF Moves, Calls
  <2>6. \A q \in Order : task[q] = "filled" => task'[q] = "filled"
    BY <2>3, <1>2
  <2>7. life[Entry] = "filled" => life'[Entry] = "filled"
    BY <2>3, <2>6, <1>2, Orders DEF FillOK
  <2>8. TypeOK'
    <3>1. task' \in [Order -> {"none", "dispatching", "waiting_ack"} \cup Cancellable \cup Final]
      BY <2>2 DEF TypeOK, Settle, CallOff, Final
    <3>2. life' \in [Order -> {"none", "risk_checked", "pending_approval", "submitted", "filled",
                               "cancelled", "rejected", "broker_rejected"}]
      BY <2>2 DEF TypeOK, Settle, CallOff
    <3>3. row' \in [Order -> Seq(RowStatus)]
      <4>1. CASE row' = row
        BY <4>1, RowTypes
      <4>2. CASE row' = [row EXCEPT ![o] = Append(@, "filled")]
        BY <4>2, RowTypes, AddedRow DEF RowStatus
      <4>3. QED
        BY <2>2, <4>1, <4>2
    <3>4. QED
      BY <3>1, <3>2, <3>3, <2>1 DEF TypeOK, PassAcquire, user, bounds, Moves, RowStatus, Gone
  <2>9. ChiefOK'
    BY <2>5, <2>6, Orders DEF ChiefOK
  <2>10. CASE CallOff({o}) /\ at'[p] = "due" /\ row' = row
    <3>1. task'[o] = "cancelled" /\ life'[o] = "cancelled"
      BY <2>10 DEF CallOff
    <3>2. \A q \in Order : Sending(q)' <=> Sending(q)
      BY <2>1, <2>10 DEF Sending, Moves
    <3>3. \A q \in Order : Past(q) => Past(q)'
      BY <2>3, <2>4, <3>2 DEF Past
    <3>4. PassOK' /\ PastOK' /\ SendOK' /\ RetryOK'
      BY <2>1, <2>3, <2>4, <2>10, <3>1, <3>2, <3>3
         DEF PassOK, PastOK, SendOK, RetryOK, Moves, Cancellable, Sending
    <3>5. RowOK' /\ FillOK'
      <4>1. RowOK'
        <5>1. \A q \in Order : task'[q] # task[q] => q = o /\ task'[q] = "cancelled"
          BY <2>3, <3>1
        <5>2. mode # "none"
          BY <1>2 DEF RowOK
        <5>3. QED
          BY <5>1, <5>2, <2>1, <2>10, <3>3 DEF RowOK
      <4>2. FillOK'
        BY <2>1, <2>3, <2>4, <2>10, <3>1, <3>2 DEF FillOK
      <4>3. QED
        BY <4>1, <4>2
    <3>6. HeadOK'
      BY <1>2, <2>1, <2>3, <2>10, <3>1, Orders DEF HeadOK, PassOK, PastOK, Past, Final, Moves
    <3>7. LegOK'
      BY <2>1, <2>3, <2>4, <2>7, <2>10, <3>1, <3>2, Orders DEF LegOK, Started
    <3>8. QED
      BY <2>8, <2>9, <3>4, <3>5, <3>6, <3>7
  <2>11. CASE /\ mode = "paper" /\ Settle(o, "filled", "filled") /\ at'[p] = "due"
              /\ row' = [row EXCEPT ![o] = Append(@, "filled")]
    <3>1. task'[o] = "filled" /\ life'[o] = "filled"
      BY <2>11 DEF Settle, TypeOK
    <3>2. \A q \in Order : Sending(q)' <=> Sending(q)
      BY <2>1, <2>11 DEF Sending, Moves
    <3>3. \A q \in Order : Past(q) => Past(q)'
      BY <2>3, <2>4, <3>2 DEF Past
    <3>4. PassOK' /\ SendOK' /\ RetryOK'
      BY <2>1, <2>3, <2>4, <2>11, <3>1, <3>2
         DEF PassOK, SendOK, RetryOK, Moves, Cancellable, Sending
    <3>5. /\ \A q \in Order \ {o} : row'[q] = row[q]
          /\ row'[o] # <<>> /\ DOMAIN row'[o] = 1 .. Len(row[o]) + 1 /\ Len(row[o]) \in Nat
          /\ \A j \in 1 .. Len(row[o]) : row'[o][j] = row[o][j]
          /\ row'[o][Len(row[o]) + 1] = "filled"
      BY <2>11, RowTypes, AddedRow DEF RowStatus
    <3>6. \A j \in DOMAIN row'[o] : row'[o][j] = "filled"
      BY <3>5, <2>11, RowTypes DEF RowOK
    <3>7. PastOK'
      BY <2>1, <2>11, <3>3, <3>5 DEF PastOK, Moves
    <3>8. RowOK'
      <4>1. \A q \in Order : cancel[q].at # "asked"
        BY <2>11 DEF RowOK
      <4>2. Past(o)'
        BY <2>4, <3>1, <3>2 DEF Past, Final
      <4>3. QED
        BY <4>1, <4>2, <2>1, <2>3, <2>11, <3>1, <3>3, <3>5, <3>6 DEF RowOK
    <3>9. FillOK'
      <4>1. row'[o][1] = "filled"
        BY <3>5, <3>6
      <4>2. QED
        BY <4>1, <2>1, <2>3, <2>4, <3>1, <3>2, <3>5 DEF FillOK
    <3>10. HeadOK'
      <4>1. \A q \in Pass : at'[q] # "asked"
        BY <2>1, <2>11 DEF PassOK, Moves
      <4>2. row'[o][1] = "filled"
        BY <3>5, <3>6
      <4>3. QED
        BY <4>1, <4>2, <2>3, <3>5, Orders DEF HeadOK
    <3>11. LegOK'
      BY <2>1, <2>3, <2>4, <2>7, <3>1, <3>2, <3>5, Orders DEF LegOK, Started
    <3>12. QED
      BY <2>8, <2>9, <3>4, <3>7, <3>8, <3>9, <3>10, <3>11
  <2>12. CASE /\ mode = "live" /\ Settle(o, "dispatching", "submitted") /\ at'[p] = "sent"
              /\ cur'[p] = o /\ row' = row
    <3>1. task'[o] = "dispatching" /\ life'[o] = "submitted"
      BY <2>12 DEF Settle, TypeOK
    <3>2. \A q \in Order : Sending(q)' <=> Sending(q) \/ q = o
      BY <2>1, <2>12 DEF Sending, Moves
    <3>3. \A q \in Order : Past(q) => Past(q)'
      BY <2>3, <2>4, <3>2 DEF Past
    <3>4. PassOK' /\ PastOK'
      BY <2>1, <2>12, <3>3 DEF PassOK, PastOK, Moves
    <3>5. SendOK' /\ RetryOK'
      <4>1. retries[o] < MaxRetries
        BY <1>2 DEF RetryOK, Cancellable
      <4>2. QED
        BY <4>1, <2>1, <2>3, <2>4, <2>12, <3>1 DEF SendOK, RetryOK, Moves, Sending
    <3>6. RowOK'
      BY <2>1, <2>3, <2>4, <2>12, <3>1, <3>3 DEF RowOK
    <3>7. FillOK'
      BY <2>1, <2>3, <2>4, <2>12, <3>1, <3>2 DEF FillOK
    <3>8. HeadOK'
      BY <1>2, <2>1, <2>3, <2>12, <3>1, Orders DEF HeadOK, PassOK, PastOK, Past, Final, Moves
    <3>9. LegOK'
      BY <2>1, <2>3, <2>4, <2>7, <2>12, <3>1, <3>2, Orders DEF LegOK, Started
    <3>10. QED
      BY <2>8, <2>9, <3>4, <3>5, <3>6, <3>7, <3>8, <3>9
  <2>13. QED
    BY <2>2, <2>10, <2>11, <2>12
<1>3. QED
  BY <1>1, <1>2

\* What becomes of an order that was being sent.
SentTo(o, t, l) == task'[o] = t /\ life'[o] = l

AddedTo(o, held, status) ==
  /\ Len(row'[o]) = Len(row[o]) + 1 /\ row'[o] # <<>> /\ DOMAIN row'[o] = 1 .. Len(row[o]) + 1
  /\ \A j \in 1 .. Len(row[o]) : row'[o][j] = row[o][j]
  /\ row'[o][Len(row[o]) + 1] = status
  /\ Len(broker'[o]) = Len(broker[o]) + 1
  /\ \A j \in 1 .. Len(broker[o]) : broker'[o][j] = broker[o][j]
  /\ broker'[o][Len(broker[o]) + 1] = held

SentEffect(o) ==
  \/ SentTo(o, "waiting_ack", "submitted") /\ AddedTo(o, "open", "submitted")
  \/ SentTo(o, "filled", "filled") /\ AddedTo(o, "filled", "filled")
  \/ /\ \/ SentTo(o, "pending", "risk_checked") /\ retries'[o] < MaxRetries
        \/ SentTo(o, "failed", "rejected")
        \/ SentTo(o, "rejected", "rejected")
     /\ \/ AddedTo(o, "rejected", "rejected")
        \/ row'[o] = row[o] /\ broker'[o] = broker[o]

LEMMA PlacedEffect ==
  ASSUME TypeOK, NEW o \in Order, NEW held \in Answers, NEW status \in RowStatus,
         Placed(o, held, status)
  PROVE  /\ row' \in [Order -> Seq(RowStatus)] /\ broker' \in [Order -> Seq(Answers)]
         /\ \A q \in Order \ {o} : row'[q] = row[q] /\ broker'[q] = broker[q]
         /\ AddedTo(o, held, status)
<1>1. /\ row \in [Order -> Seq(RowStatus)] /\ broker \in [Order -> Seq(Answers)]
      /\ row' = [row EXCEPT ![o] = Append(@, status)]
      /\ broker' = [broker EXCEPT ![o] = Append(@, held)]
  BY RowTypes DEF Placed
<1>2. /\ broker' \in [Order -> Seq(Answers)] /\ \A q \in Order \ {o} : broker'[q] = broker[q]
      /\ Len(broker'[o]) = Len(broker[o]) + 1
      /\ \A j \in 1 .. Len(broker[o]) : broker'[o][j] = broker[o][j]
      /\ broker'[o][Len(broker[o]) + 1] = held
  BY <1>1, AddedRow
<1>3. /\ row' \in [Order -> Seq(RowStatus)] /\ \A q \in Order \ {o} : row'[q] = row[q]
      /\ Len(row'[o]) = Len(row[o]) + 1 /\ row'[o] # <<>> /\ DOMAIN row'[o] = 1 .. Len(row[o]) + 1
      /\ \A j \in 1 .. Len(row[o]) : row'[o][j] = row[o][j]
      /\ row'[o][Len(row[o]) + 1] = status
  BY <1>1, AddedRow
<1>4. QED
  BY <1>2, <1>3 DEF AddedTo

LEMMA FailedEffect ==
  ASSUME TypeOK, NEW o \in Order, retries[o] < MaxRetries, Failed(o)
  PROVE  /\ retries' \in [Order -> 0 .. MaxRetries] /\ cooling' \subseteq Order
         /\ \A q \in Order \ {o} : retries'[q] = retries[q]
         /\ \/ Settle(o, "pending", "risk_checked") /\ retries'[o] < MaxRetries
            \/ Settle(o, "failed", "rejected")
<1>1. retries' = [retries EXCEPT ![o] = retries[o] + 1] /\ retries \in [Order -> 0 .. MaxRetries]
      /\ MaxRetries \in Nat
  BY BoundAssumption DEF Failed, TypeOK
<1>2. /\ retries' \in [Order -> 0 .. MaxRetries] /\ retries'[o] = retries[o] + 1
      /\ \A q \in Order \ {o} : retries'[q] = retries[q]
  BY <1>1
<1>3. CASE retries[o] + 1 < MaxRetries
  BY <1>2, <1>3 DEF Failed, TypeOK
<1>4. CASE ~(retries[o] + 1 < MaxRetries)
  BY <1>2, <1>4 DEF Failed, TypeOK
<1>5. QED
  BY <1>3, <1>4

LEMMA SentEffects ==
  ASSUME IInv, NEW p \in Pass, PassSent(p)
  PROVE  /\ at[p] = "sent" /\ at'[p] = "due" /\ Moves(p) /\ cur[p] \in Order /\ mode = "live"
         /\ todo' = todo /\ UNCHANGED <<mode, active, open, cancel, stop>>
         /\ \A q \in Order \ {cur[p]} : /\ task'[q] = task[q] /\ life'[q] = life[q]
                                        /\ retries'[q] = retries[q]
                                        /\ row'[q] = row[q] /\ broker'[q] = broker[q]
         /\ SentEffect(cur[p]) /\ TypeOK'
<1> DEFINE o == cur[p]
<1>1. /\ at[p] = "sent" /\ at' = [at EXCEPT ![p] = "due"] /\ cur' = [cur EXCEPT ![p] = NoOrder]
      /\ UNCHANGED <<stage, todo, mode, active, stop, open, enabled, pauser, cancel, amended, pauses>>
  BY DEF PassSent, Back, Goto, user, bounds
<1>2. TypeOK /\ o \in Order /\ mode = "live" /\ retries[o] < MaxRetries
  BY <1>1 DEF IInv, PassOK, SendOK
<1>3. at'[p] = "due" /\ Moves(p)
  BY <1>1, <1>2 DEF Moves, TypeOK
<1>4. \/ /\ Placed(o, "open", "submitted") /\ Settle(o, "waiting_ack", "submitted")
         /\ UNCHANGED <<retries, cooling>>
      \/ /\ Placed(o, "filled", "filled") /\ Settle(o, "filled", "filled")
         /\ UNCHANGED <<retries, cooling>>
      \/ Failed(o) /\ (Placed(o, "rejected", "rejected") \/ UNCHANGED <<broker, row>>)
      \/ Settle(o, "rejected", "rejected") /\ UNCHANGED <<broker, row, retries, cooling>>
  BY DEF PassSent
<1> DEFINE Good == /\ row' \in [Order -> Seq(RowStatus)] /\ broker' \in [Order -> Seq(Answers)]
                   /\ retries' \in [Order -> 0 .. MaxRetries] /\ cooling' \subseteq Order
                   /\ \A q \in Order \ {o} : /\ retries'[q] = retries[q]
                                             /\ row'[q] = row[q] /\ broker'[q] = broker[q]
<1> HIDE DEF o
<1>5. retries \in [Order -> 0 .. MaxRetries] /\ cooling \subseteq Order
      /\ row \in [Order -> Seq(RowStatus)] /\ broker \in [Order -> Seq(Answers)]
  BY <1>2, RowTypes DEF TypeOK
<1>6. ASSUME NEW t, NEW l, Settle(o, t, l)
      PROVE  SentTo(o, t, l) /\ \A q \in Order \ {o} : task'[q] = task[q] /\ life'[q] = life[q]
  BY <1>6, <1>2 DEF Settle, TypeOK, SentTo
<1>7. \E t \in {"waiting_ack", "filled", "pending", "failed", "rejected"},
         l \in {"submitted", "filled", "risk_checked", "rejected"} : Settle(o, t, l)
  BY <1>2, <1>4, FailedEffect
<1>8. Good /\ SentEffect(o)
  <2>1. CASE Placed(o, "open", "submitted") /\ Settle(o, "waiting_ack", "submitted")
             /\ UNCHANGED <<retries, cooling>>
    <3>1. "open" \in Answers /\ "submitted" \in RowStatus
      BY DEF Answers, RowStatus
    <3>2. QED
      BY <2>1, <3>1, <1>2, <1>5, <1>6, PlacedEffect DEF SentEffect
  <2>2. CASE Placed(o, "filled", "filled") /\ Settle(o, "filled", "filled")
             /\ UNCHANGED <<retries, cooling>>
    <3>1. "filled" \in Answers /\ "filled" \in RowStatus
      BY DEF Answers, RowStatus
    <3>2. QED
      BY <2>2, <3>1, <1>2, <1>5, <1>6, PlacedEffect DEF SentEffect
  <2>3. CASE Failed(o) /\ Placed(o, "rejected", "rejected")
    <3>1. "rejected" \in Answers /\ "rejected" \in RowStatus
      BY DEF Answers, RowStatus, Gone
    <3>2. /\ row' \in [Order -> Seq(RowStatus)] /\ broker' \in [Order -> Seq(Answers)]
          /\ \A q \in Order \ {o} : row'[q] = row[q] /\ broker'[q] = broker[q]
          /\ AddedTo(o, "rejected", "rejected")
      BY <2>3, <3>1, <1>2, PlacedEffect
    <3>3. QED
      BY <2>3, <3>2, <1>2, <1>6, FailedEffect DEF SentEffect
  <2>4. CASE Failed(o) /\ UNCHANGED <<broker, row>>
    BY <2>4, <1>2, <1>5, <1>6, FailedEffect DEF SentEffect
  <2>5. CASE Settle(o, "rejected", "rejected") /\ UNCHANGED <<broker, row, retries, cooling>>
    BY <2>5, <1>5, <1>6 DEF SentEffect
  <2>6. QED
    BY <1>4, <2>1, <2>2, <2>3, <2>4, <2>5, Zenon
<1>9. TypeOK'
  <2>1. task' \in [Order -> {"none", "dispatching", "waiting_ack"} \cup Cancellable \cup Final]
    BY <1>2, <1>7 DEF TypeOK, Settle, Final, Cancellable
  <2>2. life' \in [Order -> {"none", "risk_checked", "pending_approval", "submitted", "filled",
                             "cancelled", "rejected", "broker_rejected"}]
    BY <1>2, <1>7 DEF TypeOK, Settle
  <2>3. QED
    BY <2>1, <2>2, <1>1, <1>2, <1>3, <1>8 DEF TypeOK, Moves, RowStatus, Gone
<1>10. QED
  BY <1>1, <1>2, <1>3, <1>6, <1>7, <1>8, <1>9 DEF o

LEMMA PassSentInv == ASSUME IInv, NEW p \in Pass, PassSent(p) PROVE IInv'
<1> DEFINE o == cur[p]
<1>1. /\ at[p] = "sent" /\ at'[p] = "due" /\ Moves(p) /\ o \in Order /\ mode = "live"
      /\ todo' = todo /\ UNCHANGED <<mode, active, open, cancel, stop>>
      /\ \A q \in Order \ {o} : /\ task'[q] = task[q] /\ life'[q] = life[q]
                                /\ retries'[q] = retries[q]
                                /\ row'[q] = row[q] /\ broker'[q] = broker[q]
      /\ SentEffect(o) /\ TypeOK'
  BY SentEffects
<1> USE DEF IInv
<1>2. /\ task[o] \in {"dispatching", "cancelled"} /\ life[o] # "filled" /\ Sending(o) /\ ~Past(o)
      /\ \A q \in Pass : at[q] = "sent" /\ cur[q] = o => q = p
      /\ o \notin open /\ (o \in Leg => active[o] = "triggered" /\ life[Entry] = "filled")
  BY <1>1, Orders DEF SendOK, Sending, Past, FillOK, LegOK
<1>3. Len(row[o]) \in Nat /\ DOMAIN row[o] = 1 .. Len(row[o]) /\ Len(broker[o]) = Len(row[o])
      /\ (row[o] # <<>> <=> Len(row[o]) > 0) /\ \A j \in 1 .. Len(row[o]) : row[o][j] \in Gone
  BY <1>1, <1>2, RowTypes DEF RowOK
<1> HIDE DEF o
<1>4. /\ \A q \in Order \ {o} : Sending(q)' <=> Sending(q)
      /\ ~(\E q \in Pass : at'[q] = "sent" /\ cur'[q] = o)
  BY <1>1, <1>2 DEF Sending, Moves, o
<1>5. \A q \in Order : Past(q) => q # o
  BY <1>2
<1>6. \A q \in Order \ {o} : Past(q) <=> Past(q)'
  BY <1>1, <1>4 DEF Past
<1>7. \A q \in Pass : at[q] \in {"asked", "calling"} => cur[q] # o
  BY <1>1, <1>5 DEF PastOK
<1>8. /\ task'[o] \in {"waiting_ack", "filled", "pending", "failed", "rejected"}
      /\ (life'[o] = "filled" <=> task'[o] = "filled")
  BY <1>1 DEF SentEffect, SentTo
<1>9. PassOK'
  BY <1>1 DEF PassOK, Moves
<1>10. PastOK'
  <2>1. ASSUME NEW q \in Pass, NEW r \in Order, at'[q] \in {"poll", "asked"}, r \in todo'[q]
        PROVE  Past(r)'
    BY <2>1, <1>1, <1>5, <1>6 DEF PastOK, Moves
  <2>2. ASSUME NEW q \in Pass, NEW r \in Order, at'[q] \in {"asked", "calling"}, cur'[q] = r
        PROVE  Past(r)' /\ row'[r] # <<>>
    BY <2>2, <1>1, <1>5, <1>6 DEF PastOK, Moves
  <2>3. QED
    BY <2>1, <2>2 DEF PastOK
<1>11. SendOK'
  <2>1. ASSUME NEW q \in Pass, at'[q] = "sent" PROVE at[q] = "sent" /\ cur'[q] = cur[q] /\ cur'[q] # o
    BY <2>1, <1>1, <1>4 DEF Moves
  <2>2. QED
    BY <2>1, <1>1 DEF SendOK
<1>12. RetryOK'
  BY <1>1 DEF RetryOK, SentEffect, SentTo, Cancellable
<1>13. RowOK'
  <2>1. AddedTo(o, "open", "submitted") \/ AddedTo(o, "filled", "filled") \/ AddedTo(o, "rejected", "rejected")
        \/ (row'[o] = row[o] /\ broker'[o] = broker[o])
    BY <1>1 DEF SentEffect
  <2>2. Len(broker'[o]) = Len(row'[o]) /\ Len(row[o]) <= Len(row'[o]) /\ Len(row'[o]) \in Nat
    BY <2>1, <1>3 DEF AddedTo
  <2>3. task'[o] = "waiting_ack" => row'[o] # <<>>
    BY <1>1 DEF SentEffect, SentTo, AddedTo
  <2>5. task'[o] = "pending" => \A j \in DOMAIN row'[o] : row'[o][j] \in Gone
    <3>1. ASSUME task'[o] = "pending" PROVE AddedTo(o, "rejected", "rejected") \/ row'[o] = row[o]
      BY <3>1, <1>1 DEF SentEffect, SentTo
    <3>2. CASE row'[o] = row[o]
      BY <3>2, <1>3
    <3>3. CASE AddedTo(o, "rejected", "rejected")
      <4>1. ASSUME NEW j \in 1 .. Len(row[o]) + 1 PROVE row'[o][j] \in Gone
        BY <4>1, <3>3, <1>3 DEF AddedTo, Gone
      <4>2. QED
        BY <4>1, <3>3 DEF AddedTo
    <3>4. QED
      BY <3>1, <3>2, <3>3
  <2>6. \A q \in Order : q = o /\ ~Past(q)' => task'[o] = "pending"
    BY <1>4, <1>8 DEF Past, Sending, Final
  <2>7. \A q \in Order : cancel'[q].at = "asked" => cancel'[q].row \in 1 .. Len(row'[q])
    <3>1. \A q \in Order : cancel[q].at = "asked" => cancel[q].row \in 1 .. Len(row[q])
      BY DEF RowOK
    <3>2. \A q \in Order : Len(row[q]) \in Nat /\ Len(row'[q]) \in Nat /\ Len(row[q]) <= Len(row'[q])
      <4>1. ASSUME NEW q \in Order PROVE Len(row[q]) \in Nat
        BY RowTypes
      <4>2. ASSUME NEW q \in Order, q # o PROVE row'[q] = row[q]
        BY <4>2, <1>1
      <4>3. QED
        BY <4>1, <4>2, <2>2, <1>3
    <3>3. QED
      BY <3>1, <3>2, <1>1
  <2>8. ASSUME NEW q \in Order, ~Past(q)'
        PROVE  \A j \in DOMAIN row'[q] : row'[q][j] \in Gone
    <3>1. CASE q = o
      BY <3>1, <2>5, <2>6, <2>8
    <3>2. CASE q # o
      BY <3>2, <2>8, <1>1, <1>6 DEF RowOK
    <3>3. QED
      BY <3>1, <3>2
  <2>9. \A q \in Order : Len(broker'[q]) = Len(row'[q]) /\ (task'[q] = "waiting_ack" => row'[q] # <<>>)
    BY <2>2, <2>3, <1>1 DEF RowOK
  <2>10. QED
    BY <2>7, <2>8, <2>9, <1>1 DEF RowOK
<1>14. task'[o] = "filled" => row'[o] # <<>> /\ row'[o][1] # "submitted"
  <2>1. SUFFICES ASSUME AddedTo(o, "filled", "filled") PROVE row'[o] # <<>> /\ row'[o][1] # "submitted"
    BY <1>1 DEF SentEffect, SentTo
  <2>2. QED
    BY <2>1, <1>3 DEF AddedTo, Gone
<1>15. FillOK'
  <2>1. ASSUME NEW q \in Order, q \in open'
        PROVE  task'[q] \in {"awaiting_review", "cancelled"} /\ row'[q] = <<>> /\ ~Sending(q)'
    <3>1. q # o /\ q \in open
      BY <2>1, <1>1, <1>2
    <3>2. QED
      BY <3>1, <1>1, <1>4 DEF FillOK
  <2>2. ASSUME NEW q \in Order
        PROVE  /\ life'[q] = "filled" <=> task'[q] = "filled"
               /\ task'[q] = "filled" => row'[q] # <<>> /\ row'[q][1] # "submitted"
    BY <1>1, <1>8, <1>14 DEF FillOK
  <2>3. QED
    BY <2>1, <2>2 DEF FillOK
<1>16. HeadOK'
  <2>1. row'[o] # <<>> /\ row'[o][1] = "submitted" => task'[o] = "waiting_ack"
    <3>1. CASE AddedTo(o, "open", "submitted") /\ SentTo(o, "waiting_ack", "submitted")
      BY <3>1 DEF SentTo
    <3>2. CASE AddedTo(o, "filled", "filled") \/ AddedTo(o, "rejected", "rejected")
      BY <3>2, <1>3 DEF AddedTo, Gone
    <3>3. CASE row'[o] = row[o]
      BY <3>3, <1>3 DEF Gone
    <3>4. QED
      BY <3>1, <3>2, <3>3, <1>1 DEF SentEffect
  <2>2. ASSUME NEW q \in Pass, at'[q] = "asked"
        PROVE  at[q] = "asked" /\ cur'[q] = cur[q] /\ cur[q] \in Order \ {o}
    BY <2>2, <1>1, <1>7 DEF Moves, PassOK
  <2>3. QED
    BY <2>1, <2>2, <1>1, Orders DEF HeadOK
<1>17. LegOK'
  <2>1. life[Entry] = "filled" => life'[Entry] = "filled"
    BY <1>1, <1>2, Orders
  <2>2. ASSUME NEW l \in Leg, l = o
        PROVE  active'[l] = "triggered" /\ life'[Entry] = "filled" /\ task'[l] # "held" /\ l \notin open'
    BY <2>1, <2>2, <1>1, <1>2, <1>8
  <2>3. ASSUME NEW l \in Leg, l # o
        PROVE  task'[l] = task[l] /\ row'[l] = row[l] /\ (Sending(l)' <=> Sending(l))
    BY <2>3, <1>1, <1>4, Orders
  <2>4. QED
    BY <2>1, <2>2, <2>3, <1>1 DEF LegOK
<1>18. ChiefOK'
  <2>1. \A q \in Pass, l \in Leg : Calls(q, l)' <=> Calls(q, l)
    BY <1>1 DEF Calls, Moves
  <2>2. \A w \in Leg : task[w] = "filled" => task'[w] = "filled"
    BY <1>1, <1>2, Orders
  <2>3. QED
    BY <2>1, <2>2 DEF ChiefOK
<1>19. QED
  BY <1>1, <1>9, <1>10, <1>11, <1>12, <1>13, <1>15, <1>16, <1>17, <1>18

LEMMA NextInv == IInv /\ [Next]_vars => IInv'
<1> SUFFICES ASSUME IInv, [Next]_vars PROVE IInv'
  OBVIOUS
<1>1. CASE UNCHANGED vars
  <2>1. TypeOK'
    BY <1>1 DEF IInv, TypeOK, vars, orders, pass, user, bounds
  <2>2. QED
    BY <1>1, <2>1, AsideInv DEF vars, orders, pass, user, bounds
<1>2. CASE CreateBracket \/ PauseSweep
  BY <1>2, CreateInv, PauseSweepInv
<1>3. CASE Pause \/ Resume \/ (\E l \in Leg : Amend(l)) \/ (\E o \in Order : RetryDue(o))
  BY <1>3, AsideSteps
<1>4. ASSUME NEW o \in Order, Review(o) \/ CancelOrder(o) \/ CancelAnswered(o) PROVE IInv'
  BY <1>4, ReviewInv, CancelOrderInv, CancelAnsweredInv
<1>5. ASSUME NEW o \in Order, NEW i \in DOMAIN broker[o], BrokerMove(o, i) PROVE IInv'
  BY <1>5, BrokerMoveInv
<1>6. ASSUME NEW p \in Pass, PassStart(p) \/ PassStep(p) PROVE IInv'
  BY <1>6, PassStartInv, PassPollInv, PassAnswerInv, PassFailsInv, PassConditionalInv,
     PassSiblingInv, PassCalledInv, PassNextInv, PassAcquireInv, PassSentInv DEF PassStep
<1>7. QED
  BY <1>1, <1>2, <1>3, <1>4, <1>5, <1>6 DEF Next

-----------------------------------------------------------------------------
\* Every variable keeps its type, for any legs, passes and bounds.
THEOREM TypeCorrect == Spec => []TypeOK
<1>1. IInv => TypeOK
  BY DEF IInv
<1>2. QED
  BY <1>1, InitInv, NextInv, PTL DEF Spec

\* No leg is worked on before the entry has filled and the leg's own trigger
\* has fired, for any number of legs and of overlapping passes.
THEOREM LegsAfterEntry == Spec => []LegsInOrder
<1>1. IInv => LegsInOrder
  BY DEF IInv, LegOK, LegsInOrder
<1>2. QED
  BY <1>1, InitInv, NextInv, PTL DEF Spec

-----------------------------------------------------------------------------
(* The bracket implements OcoGroup.                                         *)

\* The steps of OcoGroup in terms of what is seen of each leg.
LegNow == [l \in Leg |-> LegState(l)]

LEMMA OcoCallOff ==
  ASSUME NEW S \in SUBSET Leg,
         \A l \in S : LegState(l) \in {"dormant", "armed", "working"} /\ LegState(l)' = "off",
         \A l \in Leg \ S : LegState(l)' = LegState(l),
         EntryState' = EntryState \/ (EntryState = "open" /\ EntryState' = "off")
  PROVE  Oco!CallOff
<1>1. LegNow' = [l \in Leg |-> IF l \in S THEN "off" ELSE LegNow[l]]
  BY DEF LegNow
<1>2. \A l \in S : LegNow[l] \in {"dormant", "armed", "working"}
  BY DEF LegNow
<1>3. QED
  BY <1>1, <1>2 DEF Oco!CallOff, Oco!Move, LegNow

LEMMA OcoEntry ==
  ASSUME \A l \in Leg : LegState(l)' = LegState(l),
         EntryState = "open", EntryState' \in {"filled", "off"}
  PROVE  Oco!EntryDecided
  BY DEF Oco!EntryDecided

LEMMA OcoLegEnds ==
  ASSUME NEW l \in Leg, EntryState' = EntryState,
         \A s \in Leg \ {l} : LegState(s)' = LegState(s)
  PROVE  /\ LegState(l) = "working" /\ LegState(l)' = "filled" => Oco!Fill(l)
         /\ LegState(l) = "off" /\ LegState(l)' = "filled" /\ EntryState = "filled"
              => Oco!FilledAfterAll(l)
         /\ LegState(l) = "filled" /\ LegState(l)' = "off"
              /\ (\E w \in Leg \ {l} : LegState(w) = "filled") => Oco!FillForgotten(l)
<1>1. ASSUME NEW to, LegState(l)' = to
      PROVE  LegNow' = [s \in Leg |-> IF s \in {l} THEN to ELSE LegNow[s]]
  BY <1>1 DEF LegNow
<1>2. \A s \in Leg : LegNow[s] = LegState(s)
  BY DEF LegNow
<1>3. QED
  BY <1>1, <1>2 DEF Oco!Fill, Oco!FilledAfterAll, Oco!FillForgotten, Oco!Move, LegNow

LEMMA OcoStays ==
  ASSUME \A l \in Leg : LegState(l)' = LegState(l), EntryState' = EntryState
  PROVE  UNCHANGED Oco!vars
  BY DEF Oco!vars

LEMMA OcoSweep ==
  ASSUME EntryState = "filled", EntryState' = EntryState,
         NEW armed \in SUBSET Leg, NEW fired \in SUBSET Leg, armed \cap fired = {},
         \A l \in armed : LegState(l) = "dormant" /\ LegState(l)' = "armed",
         \A l \in fired : LegState(l) \in {"dormant", "armed"} /\ LegState(l)' = "working",
         \A l \in Leg \ (armed \cup fired) : LegState(l)' = LegState(l)
  PROVE  Oco!Sweep
<1>1. LegNow' = [l \in Leg |-> CASE l \in fired -> "working"
                                  [] l \in armed -> "armed"
                                  [] OTHER -> LegNow[l]]
  BY DEF LegNow
<1>2. \A l \in Leg : LegNow[l] = LegState(l)
  BY DEF LegNow
<1>3. QED
  BY <1>1, <1>2 DEF Oco!Sweep, LegNow

LEMMA SameView ==
  ASSUME NEW o \in Order, task'[o] = task[o], life'[o] = life[o], Sending(o)' <=> Sending(o)
  PROVE  /\ o \in Leg => LegState(o)' = LegState(o)
         /\ o = Entry => EntryState' = EntryState
  BY DEF LegState, EntryState

LEMMA SameViews ==
  ASSUME \A o \in Order : task'[o] = task[o] /\ life'[o] = life[o] /\ (Sending(o)' <=> Sending(o))
  PROVE  UNCHANGED Oco!vars
  BY SameView, OcoStays, Orders

\* Steps that OcoGroup does not see.
LEMMA UnseenSteps ==
  ASSUME IInv,
         \/ UNCHANGED vars
         \/ Pause \/ Resume \/ (\E l \in Leg : Amend(l))
         \/ \E o \in Order : \/ RetryDue(o) \/ CancelAnswered(o)
                             \/ \E i \in DOMAIN broker[o] : BrokerMove(o, i)
         \/ \E p \in Pass : \/ PassStart(p) \/ PassAnswerFails(p) \/ PassCallFails(p) \/ PassNext(p)
                            \/ \E o \in Order : PassPoll(p, o)
  PROVE  UNCHANGED Oco!vars
<1>1. task' = task /\ life' = life
  BY Zenon DEF vars, orders, Pause, Resume, Amend, RetryDue, CancelAnswered, BrokerMove, PassStart,
         PassAnswerFails, PassCallFails, PassNext, PassPoll
<1>2. \A o \in Order : Sending(o)' <=> Sending(o)
  <2>1. CASE at' = at /\ cur' = cur
    BY <2>1 DEF Sending
  <2>2. ASSUME NEW p \in Pass, at[p] # "sent",
               \E to \in {"poll", "asked", "siblings", "due", "idle"} :
                 at' = at \/ at' = [at EXCEPT ![p] = to],
               \A q \in Pass \ {p} : cur'[q] = cur[q]
        PROVE  \A o \in Order : Sending(o)' <=> Sending(o)
    BY <2>2 DEF IInv, TypeOK, Sending
  <2>3. ASSUME NEW p \in Pass,
               \/ PassStart(p) \/ PassAnswerFails(p) \/ PassCallFails(p) \/ PassNext(p)
               \/ \E o \in Order : PassPoll(p, o)
        PROVE  \A o \in Order : Sending(o)' <=> Sending(o)
    <3>1. /\ at[p] # "sent" /\ \A q \in Pass \ {p} : cur'[q] = cur[q]
          /\ \E to \in {"poll", "asked", "siblings", "due", "idle"} :
               at' = at \/ at' = [at EXCEPT ![p] = to]
      <4>1. TypeOK
        BY DEF IInv
      <4>2. CASE PassStart(p) \/ PassNext(p)
        BY <4>2 DEF PassStart, PassNext, Goto, Work
      <4>3. CASE PassAnswerFails(p) \/ PassCallFails(p)
        BY <4>1, <4>3 DEF PassAnswerFails, PassCallFails, Goto, Back, TypeOK
      <4>4. ASSUME NEW o \in Order, PassPoll(p, o)
            PROVE  /\ at[p] # "sent" /\ \A q \in Pass \ {p} : cur'[q] = cur[q]
                   /\ at' = at \/ at' = [at EXCEPT ![p] = "asked"]
        BY <4>1, <4>4 DEF PassPoll, Goto, Take, Skip, Work, TypeOK
      <4>5. QED
        BY <2>3, <4>2, <4>3, <4>4
    <3>2. QED
      BY <2>2, <3>1
  <2>4. CASE \/ UNCHANGED vars \/ Pause \/ Resume \/ (\E l \in Leg : Amend(l))
             \/ \E o \in Order : \/ RetryDue(o) \/ CancelAnswered(o)
                                 \/ \E i \in DOMAIN broker[o] : BrokerMove(o, i)
    <3>1. at' = at /\ cur' = cur
      BY <2>4, Zenon DEF vars, pass, Pause, Resume, Amend, RetryDue, CancelAnswered, BrokerMove
    <3>2. QED
      BY <3>1, <2>1
  <2>5. QED
    BY <2>3, <2>4
<1>3. QED
  BY <1>1, <1>2, SameViews

LEMMA CreateSeen == ASSUME IInv, CreateBracket PROVE UNCHANGED Oco!vars
<1>1. mode = "none" /\ UNCHANGED <<at, cur>>
  BY DEF CreateBracket, pass
<1>2. ASSUME NEW o \in Order
      PROVE  /\ ~Sending(o) /\ ~Sending(o)' /\ task[o] = "none" /\ life[o] # "filled"
             /\ task'[o] \in {"awaiting_review", "held", "pending"} /\ life'[o] # "filled"
             /\ (o \in Leg => task'[o] # "pending")
  <2>1. ~Sending(o) /\ ~Sending(o)'
    BY <1>1 DEF Sending, IInv, PassOK
  <2>2. task[o] = "none" /\ life[o] # "filled"
    BY <1>1 DEF IInv, RowOK, FillOK
  <2>3. QED
    BY <2>1, <2>2, Orders DEF CreateBracket, Activation, ReadyStatus
<1>3. EntryState = "open" /\ EntryState' = "open"
  BY <1>2, Orders DEF EntryState, Final
<1>4. ASSUME NEW l \in Leg PROVE LegState(l) = "dormant" /\ LegState(l)' = "dormant"
  <2>1. l \in Order
    BY Orders
  <2>2. QED
    BY <1>2, <2>1 DEF LegState
<1>5. QED
  BY <1>3, <1>4, OcoStays

\* One order, or several, are called off before anybody sends them.
LEMMA CallOffSeen ==
  ASSUME IInv, NEW S \in SUBSET Order,
         \A o \in S : /\ task'[o] \in {"cancelled", "rejected"} /\ life'[o] # "filled"
                      /\ ~Sending(o) /\ ~Sending(o)'
                      /\ task[o] \in {"waiting_ack", "none"} \cup Cancellable,
         \A o \in Order \ S : /\ task'[o] = task[o] /\ life'[o] = life[o]
                              /\ (Sending(o)' <=> Sending(o))
  PROVE  Oco!CallOff
<1>1. \A l \in S \cap Leg : LegState(l) \in {"dormant", "armed", "working"} /\ LegState(l)' = "off"
  BY DEF LegState, Cancellable
<1>2. \A l \in Leg \ (S \cap Leg) : LegState(l)' = LegState(l)
  BY SameView, Orders
<1>3. EntryState' = EntryState \/ (EntryState = "open" /\ EntryState' = "off")
  <2>1. CASE Entry \in S
    <3>1. life[Entry] # "filled"
      BY <2>1, Orders DEF IInv, FillOK, Cancellable
    <3>2. QED
      BY <2>1, <3>1 DEF EntryState, Final, Cancellable
  <2>2. CASE Entry \notin S
    BY <2>2, SameView, Orders
  <2>3. QED
    BY <2>1, <2>2
<1>4. QED
  BY <1>1, <1>2, <1>3, OcoCallOff

LEMMA ReviewSeen ==
  ASSUME IInv, NEW o \in Order, Review(o)
  PROVE  Oco!CallOff \/ UNCHANGED Oco!vars
<1>1. \A q \in Order : Sending(q)' <=> Sending(q)
  BY DEF Review, pass, Sending
<1>2. /\ task[o] \in {"awaiting_review", "cancelled"} /\ ~Sending(o) /\ life[o] # "filled"
      /\ (o \in Leg => active[o] = "held")
  BY DEF Review, IInv, FillOK, LegOK
<1>3. /\ task'[o] \in {"pending", "held", "conditional_wait", "rejected", "cancelled"}
      /\ life'[o] # "filled"
      /\ (o \in Leg => task'[o] \in {"held", "rejected", "cancelled"})
      /\ (task[o] = "cancelled" <=> task'[o] = "cancelled")
      /\ \A q \in Order \ {o} : task'[q] = task[q] /\ life'[q] = life[q]
  BY <1>2 DEF Review, IInv, TypeOK, ReadyStatus
<1>4. CASE task'[o] = "rejected"
  <2>1. task[o] = "awaiting_review" /\ "awaiting_review" \in Cancellable
    BY <1>2, <1>3, <1>4 DEF Cancellable
  <2>2. QED
    <3>1. /\ \A q \in {o} : /\ task'[q] \in {"cancelled", "rejected"} /\ life'[q] # "filled"
                            /\ ~Sending(q) /\ ~Sending(q)'
                            /\ task[q] \in {"waiting_ack", "none"} \cup Cancellable
          /\ {o} \in SUBSET Order
      BY <2>1, <1>1, <1>2, <1>3, <1>4
    <3>2. QED
      BY <3>1, <1>1, <1>3, CallOffSeen
<1>5. CASE task'[o] # "rejected"
  <2>1. o \in Leg => LegState(o)' = LegState(o)
    BY <1>1, <1>2, <1>3, <1>5 DEF LegState
  <2>2. o = Entry => EntryState' = EntryState
    BY <1>1, <1>2, <1>3, <1>5 DEF EntryState, Final
  <2>3. QED
    BY <2>1, <2>2, <1>1, <1>3, SameView, OcoStays, Orders
<1>6. QED
  BY <1>4, <1>5

LEMMA CancelOrderSeen ==
  ASSUME IInv, NEW o \in Order, CancelOrder(o)
  PROVE  Oco!CallOff \/ UNCHANGED Oco!vars
<1>1. /\ \A q \in Order : (Sending(q)' <=> Sending(q)) /\ life'[q] = life[q]
      /\ \A q \in Order \ {o} : task'[q] = task[q]
      /\ task'[o] = IF row[o] = <<>> THEN "cancelled" ELSE task[o]
  BY DEF CancelOrder, pass, Sending, IInv, TypeOK
<1>2. CASE task'[o] = task[o]
  BY <1>1, <1>2, SameViews
<1>3. CASE task'[o] # task[o]
  <2>1. row[o] = <<>> /\ task'[o] = "cancelled" /\ task[o] \notin {"filled", "waiting_ack", "cancelled"}
        /\ life[o] # "filled"
    BY <1>1, <1>3 DEF IInv, FillOK, RowOK
  <2>2. CASE Sending(o) \/ task[o] \in {"rejected", "failed"}
    <3>1. Sending(o) => task[o] = "dispatching"
      BY <2>1 DEF Sending, IInv, SendOK
    <3>2. o \in Leg => LegState(o)' = LegState(o)
      BY <1>1, <2>1, <2>2, <3>1 DEF LegState
    <3>3. o = Entry => EntryState' = EntryState
      BY <1>1, <2>1, <2>2, <3>1 DEF EntryState, Final
    <3>4. QED
      BY <3>2, <3>3, <1>1, SameView, OcoStays, Orders
  <2>3. CASE ~Sending(o) /\ task[o] \notin {"rejected", "failed"}
    <3>1. task[o] \in {"none", "dispatching"} \cup Cancellable
      BY <2>1, <2>3 DEF IInv, TypeOK, Final
    <3>2. o \in Leg => LegState(o) \in {"dormant", "armed", "working"} /\ LegState(o)' = "off"
      BY <1>1, <2>1, <2>3, <3>1 DEF LegState, Cancellable
    <3>3. o = Entry => EntryState = "open" /\ EntryState' = "off"
      BY <1>1, <2>1, <2>3, <3>1 DEF EntryState, Final, Cancellable
    <3>4. /\ \A l \in Leg \ {o} : LegState(l)' = LegState(l)
          /\ o # Entry => EntryState' = EntryState
      BY <1>1, SameView, Orders
    <3>5. CASE o \in Leg
      <4>1. \A l \in {o} : LegState(l) \in {"dormant", "armed", "working"} /\ LegState(l)' = "off"
        BY <3>2, <3>5
      <4>2. {o} \in SUBSET Leg /\ EntryState' = EntryState
        BY <3>4, <3>5, Orders
      <4>3. QED
        BY <3>4, <4>1, <4>2, OcoCallOff
    <3>6. CASE o = Entry
      <4>1. \A l \in Leg \ {} : LegState(l)' = LegState(l)
        BY <3>4, <3>6, Orders
      <4>2. {} \in SUBSET Leg
        OBVIOUS
      <4>3. QED
        BY <3>3, <3>6, <4>1, <4>2, OcoCallOff
    <3>7. QED
      BY <3>5, <3>6, Orders
  <2>4. QED
    BY <2>2, <2>3
<1>4. QED
  BY <1>2, <1>3

LEMMA PauseSweepSeen == ASSUME IInv, PauseSweep PROVE Oco!CallOff
<1> DEFINE S == {o \in Order : task[o] \in Cancellable}
<1>1. \A q \in Order : Sending(q)' <=> Sending(q)
  BY DEF PauseSweep, pass, Sending
<1>2. \A q \in Order : task[q] \in Cancellable => ~Sending(q)
  BY DEF Sending, IInv, SendOK, Cancellable
<1>3. /\ \A q \in S : task'[q] = "cancelled" /\ life'[q] = "cancelled"
      /\ \A q \in Order \ S : task'[q] = task[q] /\ life'[q] = life[q]
  BY DEF PauseSweep, CallOff
<1>4. S \in SUBSET Order
  OBVIOUS
<1>5. QED
  BY <1>1, <1>2, <1>3, <1>4, CallOffSeen

LEMMA EntryFilled == IInv /\ life[Entry] = "filled" => EntryState = "filled"
<1> SUFFICES ASSUME IInv, life[Entry] = "filled" PROVE EntryState = "filled"
  OBVIOUS
<1>1. task[Entry] = "filled"
  BY Orders DEF IInv, FillOK
<1>2. QED
  BY <1>1 DEF EntryState

LEMMA PassAnswerSeen ==
  ASSUME IInv, NEW p \in Pass, PassAnswer(p)
  PROVE  \/ UNCHANGED Oco!vars \/ Oco!CallOff \/ Oco!EntryDecided
         \/ \E l \in Leg : Oco!Fill(l) \/ Oco!FilledAfterAll(l)
<1>1. PICK o \in Order, held \in Answers :
        /\ at[p] = "asked" /\ o = cur[p] /\ Past(o) /\ 1 \in 1 .. Len(row[o])
        /\ held = broker[o][1] /\ Head(broker[o]) = held
  BY AskedRow DEF PassAnswer
<1>2. \A q \in Order : Sending(q)' <=> Sending(q)
  BY <1>1 DEF PassAnswer, Back, Goto, Sending, IInv, TypeOK
<1>3. /\ \A q \in Order \ {o} : task'[q] = task[q] /\ life'[q] = life[q]
      /\ \/ held = "open" /\ task'[o] = task[o] /\ life'[o] = life[o]
         \/ held = "filled" /\ task'[o] = "filled" /\ life'[o] = "filled"
         \/ /\ held \in Gone /\ task'[o] \in {"failed", "cancelled"}
            /\ life'[o] \in {"broker_rejected", "cancelled"}
  BY <1>1 DEF PassAnswer, Settle, IInv, TypeOK, Gone
<1>4. /\ task[o] = "filled" => held = "filled"
      /\ o = Entry /\ task[o] \in Final \ {"filled"} => held \in Gone
      /\ (life[o] = "filled" <=> task[o] = "filled")
      /\ ~Sending(o) /\ ~Sending(o)' /\ task[o] \in {"waiting_ack"} \cup Final
  BY <1>1, <1>2 DEF IInv, HeadOK, FillOK, Past
<1>5. o \in Leg => EntryState = "filled"
  <2>1. row[o] # <<>>
    BY <1>1, RowTypes DEF IInv
  <2>2. QED
    BY <2>1, EntryFilled DEF IInv, LegOK
<1>6. /\ \A l \in Leg \ {o} : LegState(l)' = LegState(l)
      /\ o # Entry => EntryState' = EntryState
  BY <1>2, <1>3, SameView, Orders
<1>7. CASE held = "open"
  BY <1>2, <1>3, <1>7, SameViews DEF Gone
<1>8. CASE o \in Leg /\ held = "filled"
  <2>1. LegState(o)' = "filled" /\ LegState(o) \in {"working", "off", "filled"}
    BY <1>3, <1>4, <1>8 DEF LegState, Final, Gone
  <2>2. EntryState' = EntryState
    BY <1>6, <1>8, Orders
  <2>3. CASE LegState(o) = "filled"
    BY <2>1, <2>2, <2>3, <1>6, OcoStays
  <2>4. CASE LegState(o) # "filled"
    BY <2>1, <2>2, <2>4, <1>5, <1>6, <1>8, OcoLegEnds
  <2>5. QED
    BY <2>3, <2>4
<1>9. CASE o \in Leg /\ held \in Gone
  <2>1. task'[o] \in {"failed", "cancelled"} /\ task[o] # "filled"
    BY <1>3, <1>4, <1>9 DEF Gone
  <2>2. LegState(o)' = "off" /\ LegState(o) \in {"working", "off"}
    BY <2>1, <1>4 DEF LegState, Final
  <2>3. EntryState' = EntryState
    BY <1>6, <1>9, Orders
  <2>4. CASE LegState(o) = "off"
    BY <2>2, <2>3, <2>4, <1>6, OcoStays
  <2>5. CASE LegState(o) = "working"
    <3>1. \A l \in {o} : LegState(l) \in {"dormant", "armed", "working"} /\ LegState(l)' = "off"
      BY <2>2, <2>5
    <3>2. {o} \in SUBSET Leg
      BY <1>9
    <3>3. QED
      BY <3>1, <3>2, <2>3, <1>6, OcoCallOff
  <2>6. QED
    BY <2>2, <2>4, <2>5
<1>10. CASE o = Entry /\ held # "open"
  <2>1. \A l \in Leg : LegState(l)' = LegState(l)
    BY <1>6, <1>10, Orders
  <2>2. CASE task[o] = "waiting_ack"
    <3>1. EntryState = "open" /\ EntryState' \in {"filled", "off"}
      BY <2>2, <1>3, <1>4, <1>10 DEF EntryState, Final
    <3>2. QED
      BY <3>1, <2>1, OcoEntry
  <2>3. CASE task[o] \in Final
    <3>1. EntryState' = EntryState
      BY <2>3, <1>3, <1>4, <1>10 DEF EntryState, Final, Gone
    <3>2. QED
      BY <3>1, <2>1, OcoStays
  <2>4. QED
    BY <1>4, <2>2, <2>3
<1>11. QED
  BY <1>1, <1>7, <1>8, <1>9, <1>10, Orders DEF Answers, Gone

LEMMA PassConditionalSeen ==
  ASSUME IInv, NEW p \in Pass, PassConditional(p)
  PROVE  Oco!Sweep \/ Oco!CallOff
<1>1. /\ at[p] \in {"poll", "due"} /\ at'[p] = "siblings" /\ Moves(p) /\ UNCHANGED cur
  BY ConditionalEffect
<1>2. PICK fired \in SUBSET Leg :
        /\ \A l \in fired : l \in Freed \/ task[l] = "conditional_wait"
        /\ \A o \in Order :
             /\ task'[o] = (CASE o \in fired -> "pending"
                              [] o \in Freed \ fired -> "conditional_wait"
                              [] o \in Dropped -> "cancelled"
                              [] OTHER -> task[o])
             /\ active'[o] = (CASE o \in fired -> "triggered"
                                [] o \in Freed \ fired -> "waiting_trigger"
                                [] OTHER -> active[o])
             /\ life'[o] = IF o \in Dropped THEN "cancelled" ELSE life[o]
  BY ConditionalEffect
<1>3. /\ \A o \in Order : Sending(o)' <=> Sending(o)
      /\ \A o \in Order : Sending(o) => task[o] \notin {"held", "conditional_wait"}
  BY <1>1 DEF Sending, Moves, IInv, SendOK
<1>4. /\ Freed \subseteq Leg /\ \A l \in Freed : task[l] = "held" /\ life[Entry] = "filled"
      /\ Dropped \subseteq Leg
      /\ \A l \in Dropped : task[l] = "held" /\ life[Entry] \in {"cancelled", "rejected"}
      /\ \A l \in fired : task[l] \in {"held", "conditional_wait"} /\ life[Entry] = "filled"
  BY <1>2 DEF Freed, Dropped, Held, IInv, LegOK
<1>5. ASSUME NEW o \in Order
      PROVE  /\ o \in fired => task'[o] = "pending"
             /\ o \in Freed \ fired => task'[o] = "conditional_wait"
             /\ o \in Dropped => task'[o] = "cancelled" /\ life'[o] = "cancelled"
             /\ o \notin fired \cup Freed \cup Dropped => task'[o] = task[o] /\ life'[o] = life[o]
  <2>1. o \in Dropped => o \notin fired /\ o \notin Freed
    BY <1>4
  <2>2. QED
    BY <2>1, <1>2
<1>6. EntryState' = EntryState
  <2>1. Entry \notin fired \cup Freed \cup Dropped
    BY <1>4, Orders
  <2>2. QED
    BY <2>1, <1>3, <1>5, SameView, Orders
<1>7. \A l \in Leg \ (fired \cup Freed \cup Dropped) : LegState(l)' = LegState(l)
  BY <1>3, <1>5, SameView, Orders
<1>8. CASE life[Entry] = "filled"
  <2>1. EntryState = "filled" /\ Dropped = {}
    BY <1>4, <1>8, EntryFilled
  <2>2. \A l \in Freed \ fired : LegState(l) = "dormant" /\ LegState(l)' = "armed"
    BY <1>3, <1>4, <1>5, Orders DEF LegState
  <2>3. \A l \in fired : LegState(l) \in {"dormant", "armed"} /\ LegState(l)' = "working"
    BY <1>3, <1>4, <1>5, Orders DEF LegState
  <2>4. Freed \ fired \in SUBSET Leg /\ (Freed \ fired) \cap fired = {}
    BY <1>4
  <2>5. \A l \in Leg \ ((Freed \ fired) \cup fired) : LegState(l)' = LegState(l)
    BY <2>1, <1>7
  <2>6. QED
    BY <2>1, <2>2, <2>3, <2>4, <2>5, <1>6, OcoSweep
<1>9. CASE life[Entry] # "filled"
  <2>1. fired = {} /\ Freed = {}
    BY <1>4, <1>9
  <2>2. \A l \in Dropped : LegState(l) \in {"dormant", "armed", "working"} /\ LegState(l)' = "off"
    BY <1>3, <1>4, <1>5, Orders DEF LegState
  <2>3. \A l \in Leg \ Dropped : LegState(l)' = LegState(l)
    BY <2>1, <1>7
  <2>4. Dropped \in SUBSET Leg
    BY <1>4
  <2>5. QED
    BY <2>2, <2>3, <2>4, <1>6, OcoCallOff
<1>10. QED
  BY <1>8, <1>9

LEMMA PassSiblingSeen ==
  ASSUME IInv, NEW p \in Pass, NEW s \in Order, PassSibling(p, s)
  PROVE  Oco!CallOff
<1>1. at[p] = "siblings"
  BY DEF PassSibling
<1>2. \A q \in Order : Sending(q)' <=> Sending(q)
  BY <1>1 DEF PassSibling, Skip, Take, Goto, Work, Sending, IInv, TypeOK
<1>3. \A q \in Order \ {s} : task'[q] = task[q] /\ life'[q] = life[q]
  BY DEF PassSibling, CallOff, IInv, TypeOK
<1>4. CASE task[s] \in OcoTask \ {"waiting_ack"}
  <2>1. task'[s] = "cancelled" /\ life'[s] = "cancelled" /\ task[s] \in Cancellable
    BY <1>4 DEF PassSibling, CallOff, OcoTask, Cancellable
  <2>2. ~Sending(s)
    BY <2>1 DEF Sending, IInv, SendOK, Cancellable
  <2>3. /\ \A q \in {s} : /\ task'[q] \in {"cancelled", "rejected"} /\ life'[q] # "filled"
                          /\ ~Sending(q) /\ ~Sending(q)'
                          /\ task[q] \in {"waiting_ack", "none"} \cup Cancellable
        /\ {s} \in SUBSET Order
    BY <2>1, <2>2, <1>2
  <2>4. QED
    BY <2>3, <1>2, <1>3, CallOffSeen
<1>5. CASE task[s] \notin OcoTask \ {"waiting_ack"}
  <2>1. task'[s] = task[s] /\ life'[s] = life[s]
    BY <1>5 DEF PassSibling, CallOff, OcoTask, IInv, TypeOK
  <2>2. \A q \in Order \ {} : task'[q] = task[q] /\ life'[q] = life[q] /\ (Sending(q)' <=> Sending(q))
    BY <2>1, <1>2, <1>3
  <2>3. {} \in SUBSET Order
    OBVIOUS
  <2>4. QED
    BY <2>2, <2>3, CallOffSeen
<1>6. QED
  BY <1>4, <1>5

LEMMA PassCalledSeen ==
  ASSUME IInv, NEW p \in Pass, PassCalled(p)
  PROVE  UNCHANGED Oco!vars \/ Oco!CallOff \/ \E l \in Leg : Oco!FillForgotten(l)
<1>1. PICK o \in Leg : at[p] = "calling" /\ o = cur[p] /\ o \in Order /\ Past(o)
  BY AskedRow DEF PassCalled, IInv, PassOK
<1>2. \A q \in Order : Sending(q)' <=> Sending(q)
  BY <1>1 DEF PassCalled, Back, Goto, Sending, IInv, TypeOK
<1>3. /\ \A q \in Order \ {o} : task'[q] = task[q] /\ life'[q] = life[q]
      /\ task'[o] = "cancelled" /\ life'[o] = "cancelled"
  BY <1>1 DEF PassCalled, CallOff
<1>4. \E w \in Leg \ {o} : LegState(w) = "filled"
  <2>1. Calls(p, o)
    BY <1>1 DEF Calls
  <2>2. PICK w \in Leg : task[w] = "filled" /\ ~Calls(p, w)
    BY <2>1, <1>1 DEF IInv, ChiefOK
  <2>3. QED
    <3>1. w # o /\ w \in Order /\ ~Sending(w)
      BY <2>1, <2>2, Orders DEF IInv, SendOK, Sending
    <3>2. LegState(w) = "filled"
      BY <2>2, <3>1 DEF LegState
    <3>3. QED
      BY <3>1, <3>2
<1>5. (\A l \in Leg \ {o} : LegState(l)' = LegState(l)) /\ EntryState' = EntryState
  BY <1>1, <1>2, <1>3, SameView, Orders
<1>6. LegState(o)' = "off" /\ LegState(o) \in {"working", "filled", "off"}
  BY <1>1, <1>2, <1>3 DEF LegState, Past, Final
<1>7. CASE LegState(o) = "working"
  <2>1. \A l \in {o} : LegState(l) \in {"dormant", "armed", "working"} /\ LegState(l)' = "off"
    BY <1>6, <1>7
  <2>2. {o} \in SUBSET Leg
    BY <1>1
  <2>3. QED
    BY <2>1, <2>2, <1>5, OcoCallOff
<1>8. CASE LegState(o) = "filled"
  BY <1>1, <1>4, <1>5, <1>6, <1>8, OcoLegEnds
<1>9. CASE LegState(o) = "off"
  BY <1>5, <1>6, <1>9, OcoStays
<1>10. QED
  BY <1>6, <1>7, <1>8, <1>9

LEMMA PassAcquireSeen ==
  ASSUME IInv, NEW p \in Pass, NEW o \in Order, PassAcquire(p, o)
  PROVE  UNCHANGED Oco!vars \/ Oco!CallOff \/ Oco!EntryDecided \/ \E l \in Leg : Oco!Fill(l)
<1>1. at[p] = "due" /\ TypeOK
  BY DEF PassAcquire, IInv
<1>2. CASE task[o] # "pending"
  <2>1. task' = task /\ life' = life /\ at' = at /\ cur' = cur
    BY <1>2 DEF PassAcquire, Skip
  <2>2. \A q \in Order : Sending(q)' <=> Sending(q)
    BY <2>1 DEF Sending
  <2>3. QED
    BY <2>1, <2>2, SameViews
<1>3. CASE task[o] = "pending" /\ CallOff({o}) /\ at' = at /\ cur' = cur
  <2>1. \A q \in Order : Sending(q)' <=> Sending(q)
    BY <1>3 DEF Sending
  <2>2. ~Sending(o)
    BY <1>3 DEF Sending, IInv, SendOK
  <2>3. /\ \A q \in {o} : /\ task'[q] \in {"cancelled", "rejected"} /\ life'[q] # "filled"
                          /\ ~Sending(q) /\ ~Sending(q)'
                          /\ task[q] \in {"waiting_ack", "none"} \cup Cancellable
        /\ {o} \in SUBSET Order
        /\ \A q \in Order \ {o} : task'[q] = task[q] /\ life'[q] = life[q]
    BY <1>3, <2>1, <2>2 DEF CallOff, Cancellable
  <2>4. QED
    BY <2>1, <2>3, CallOffSeen
<1>4. CASE task[o] = "pending" /\ Settle(o, "filled", "filled") /\ at' = at /\ cur' = cur
  <2>1. \A q \in Order : Sending(q)' <=> Sending(q)
    BY <1>4 DEF Sending
  <2>2. ~Sending(o) /\ life[o] # "filled"
    BY <1>4 DEF Sending, IInv, SendOK, FillOK
  <2>3. /\ task'[o] = "filled" /\ life'[o] = "filled"
        /\ \A q \in Order \ {o} : task'[q] = task[q] /\ life'[q] = life[q]
    BY <1>1, <1>4 DEF Settle, TypeOK
  <2>4. /\ \A l \in Leg \ {o} : LegState(l)' = LegState(l)
        /\ o # Entry => EntryState' = EntryState
    BY <2>1, <2>3, SameView, Orders
  <2>5. CASE o = Entry
    <3>1. EntryState = "open" /\ EntryState' = "filled"
      BY <2>1, <2>2, <2>3, <1>4, <2>5 DEF EntryState, Final
    <3>2. QED
      BY <3>1, <2>4, <2>5, OcoEntry, Orders
  <2>6. CASE o \in Leg
    <3>1. LegState(o) = "working" /\ LegState(o)' = "filled"
      BY <2>1, <2>2, <2>3, <1>4 DEF LegState
    <3>2. QED
      BY <3>1, <2>4, <2>6, OcoLegEnds, Orders
  <2>7. QED
    BY <2>5, <2>6, Orders
<1>5. CASE /\ task[o] = "pending" /\ Settle(o, "dispatching", "submitted")
           /\ at' = [at EXCEPT ![p] = "sent"] /\ cur' = [cur EXCEPT ![p] = o]
  <2>1. \A q \in Order \ {o} : /\ (Sending(q)' <=> Sending(q))
                               /\ task'[q] = task[q] /\ life'[q] = life[q]
    BY <1>1, <1>5 DEF Sending, Settle, TypeOK
  <2>2. task'[o] = "dispatching" /\ life'[o] = "submitted" /\ life[o] # "filled" /\ ~Sending(o)
    BY <1>1, <1>5 DEF Settle, TypeOK, IInv, FillOK, SendOK, Sending
  <2>3. o \in Leg => LegState(o)' = LegState(o)
    BY <1>5, <2>2 DEF LegState
  <2>4. o = Entry => EntryState' = EntryState
    BY <1>5, <2>2 DEF EntryState, Final
  <2>5. QED
    BY <2>1, <2>3, <2>4, SameView, OcoStays, Orders
<1>6. QED
  BY <1>2, <1>3, <1>4, <1>5 DEF PassAcquire, Skip, Take, Goto

LEMMA PassSentSeen ==
  ASSUME IInv, NEW p \in Pass, PassSent(p)
  PROVE  UNCHANGED Oco!vars \/ Oco!CallOff \/ Oco!EntryDecided \/ \E l \in Leg : Oco!Fill(l)
<1>1. PICK o \in Order :
        /\ o = cur[p] /\ at[p] = "sent" /\ at'[p] = "due" /\ Moves(p)
        /\ \A q \in Order \ {o} : task'[q] = task[q] /\ life'[q] = life[q]
        /\ SentEffect(o)
  BY SentEffects
<1>2. /\ task[o] \in {"dispatching", "cancelled"} /\ Sending(o) /\ life[o] # "filled"
      /\ \A q \in Pass : at[q] = "sent" /\ cur[q] = o => q = p
  BY <1>1 DEF IInv, SendOK, Sending, FillOK
<1>3. ~Sending(o)' /\ \A q \in Order \ {o} : Sending(q)' <=> Sending(q)
  BY <1>1, <1>2 DEF Sending, Moves
<1>4. /\ task'[o] \in {"waiting_ack", "filled", "pending", "failed", "rejected"}
      /\ (life'[o] = "filled" <=> task'[o] = "filled")
  BY <1>1 DEF SentEffect, SentTo
<1>5. /\ \A l \in Leg \ {o} : LegState(l)' = LegState(l)
      /\ o # Entry => EntryState' = EntryState
  BY <1>1, <1>3, SameView, Orders
<1>6. CASE o = Entry
  <2>1. EntryState = "open" /\ EntryState' \in {"open", "filled", "off"}
    BY <1>2, <1>3, <1>4, <1>6 DEF EntryState, Final
  <2>2. \A l \in Leg : LegState(l)' = LegState(l)
    BY <1>5, <1>6, Orders
  <2>3. QED
    BY <2>1, <2>2, OcoEntry, OcoStays
<1>7. CASE o \in Leg
  <2>1. EntryState' = EntryState
    BY <1>5, <1>7, Orders
  <2>2. LegState(o) = "working" /\ LegState(o)' \in {"working", "filled", "off"}
    BY <1>2, <1>3, <1>4 DEF LegState
  <2>3. CASE LegState(o)' = "working"
    BY <2>1, <2>2, <2>3, <1>5, OcoStays
  <2>4. CASE LegState(o)' = "filled"
    BY <2>1, <2>2, <2>4, <1>5, <1>7, OcoLegEnds
  <2>5. CASE LegState(o)' = "off"
    <3>1. \A l \in {o} : LegState(l) \in {"dormant", "armed", "working"} /\ LegState(l)' = "off"
      BY <2>2, <2>5
    <3>2. {o} \in SUBSET Leg
      BY <1>7
    <3>3. QED
      BY <3>1, <3>2, <2>1, <1>5, OcoCallOff
  <2>6. QED
    BY <2>2, <2>3, <2>4, <2>5
<1>8. QED
  BY <1>6, <1>7, Orders

LEMMA StepSeen == IInv /\ [Next]_vars => [Oco!Next]_(Oco!vars)
<1> SUFFICES ASSUME IInv, [Next]_vars PROVE Oco!Next \/ UNCHANGED Oco!vars
  OBVIOUS
<1>1. CASE \/ UNCHANGED vars
           \/ Pause \/ Resume \/ (\E l \in Leg : Amend(l))
           \/ \E o \in Order : \/ RetryDue(o) \/ CancelAnswered(o)
                               \/ \E i \in DOMAIN broker[o] : BrokerMove(o, i)
           \/ \E p \in Pass : \/ PassStart(p) \/ PassAnswerFails(p) \/ PassCallFails(p)
                              \/ PassNext(p) \/ \E o \in Order : PassPoll(p, o)
  BY <1>1, UnseenSteps
<1>2. CASE CreateBracket
  BY <1>2, CreateSeen
<1>3. CASE PauseSweep
  BY <1>3, PauseSweepSeen DEF Oco!Next
<1>4. ASSUME NEW o \in Order, Review(o) \/ CancelOrder(o) PROVE Oco!Next \/ UNCHANGED Oco!vars
  BY <1>4, ReviewSeen, CancelOrderSeen DEF Oco!Next
<1>5. ASSUME NEW p \in Pass, PassAnswer(p) PROVE Oco!Next \/ UNCHANGED Oco!vars
  BY <1>5, PassAnswerSeen DEF Oco!Next
<1>6. ASSUME NEW p \in Pass, PassConditional(p) PROVE Oco!Next \/ UNCHANGED Oco!vars
  BY <1>6, PassConditionalSeen DEF Oco!Next
<1>7. ASSUME NEW p \in Pass, PassCalled(p) PROVE Oco!Next \/ UNCHANGED Oco!vars
  BY <1>7, PassCalledSeen DEF Oco!Next
<1>8. ASSUME NEW p \in Pass, PassSent(p) PROVE Oco!Next \/ UNCHANGED Oco!vars
  BY <1>8, PassSentSeen DEF Oco!Next
<1>9. ASSUME NEW p \in Pass, NEW o \in Order, PassSibling(p, o) \/ PassAcquire(p, o)
      PROVE  Oco!Next \/ UNCHANGED Oco!vars
  BY <1>9, PassSiblingSeen, PassAcquireSeen DEF Oco!Next
<1>10. QED
  BY <1>1, <1>2, <1>3, <1>4, <1>5, <1>6, <1>7, <1>8, <1>9 DEF Next, PassStep

LEMMA InitSeen == Init => Oco!Init
<1> SUFFICES ASSUME Init PROVE Oco!Init
  OBVIOUS
<1>1. EntryState = "open"
  BY Orders DEF Init, EntryState, Final
<1>2. \A l \in Leg : LegState(l) = "dormant"
  BY Orders DEF Init, LegState, Sending
<1>3. QED
  BY <1>1, <1>2 DEF Oco!Init

\* The bracket implements OcoGroup, for any number of legs and of overlapping
\* passes: the entry is decided once, a leg works only after the entry's fill,
\* and what is off comes back only as a fill the broker reports late.
THEOREM BracketImplements == Spec => ImplementsOcoGroup
<1>1. Init => Oco!Init
  BY InitSeen
<1>2. IInv /\ [Next]_vars => [Oco!Next]_(Oco!vars)
  BY StepSeen
<1>3. QED
  BY <1>1, <1>2, InitInv, NextInv, PTL DEF Spec, ImplementsOcoGroup, Oco!Spec

-----------------------------------------------------------------------------
(* What is called off is not open at the broker.                            *)

\* An order that is yet to be sent (again) has nothing open at the broker; of
\* one that is cancelled the first row is closed.
BrokerOK ==
  \A o \in Order :
    /\ ~Past(o) => \A i \in 1 .. Len(broker[o]) : broker[o][i] # "open"
    /\ task[o] = "cancelled" /\ broker[o] # <<>> => broker[o][1] # "open"

\* What keeps this for one order.
Kept(o) ==
  /\ Past(o) => Past(o)'
  /\ Len(broker'[o]) = Len(broker[o])
  /\ \A i \in 1 .. Len(broker[o]) : broker[o][i] # "open" => broker'[o][i] # "open"
  /\ Past(o) /\ task'[o] = "cancelled" /\ broker[o] # <<>>
       => task[o] = "cancelled" \/ broker'[o][1] # "open"

BrokerAt(o) ==
  /\ ~Past(o) => \A i \in 1 .. Len(broker[o]) : broker[o][i] # "open"
  /\ task[o] = "cancelled" /\ broker[o] # <<>> => broker[o][1] # "open"

LEMMA KeptOK ==
  ASSUME IInv, IInv', BrokerOK, NEW o \in Order, Kept(o) PROVE BrokerAt(o)'
<1>1. /\ Len(broker[o]) \in Nat /\ (broker[o] # <<>> <=> Len(broker[o]) > 0)
      /\ (broker'[o] # <<>> <=> Len(broker'[o]) > 0)
  <2>1. broker \in [Order -> Seq(Answers)] /\ broker' \in [Order -> Seq(Answers)]
    BY DEF IInv, TypeOK
  <2>2. QED
    BY <2>1, SeqFacts
<1>2. QED
  BY <1>1 DEF Kept, BrokerOK, BrokerAt

LEMMA SameKept ==
  ASSUME NEW o \in Order, broker'[o] = broker[o], Sending(o)' <=> Sending(o),
         \/ task'[o] = task[o]
         \/ task[o] \notin {"waiting_ack"} \cup Final
         \/ task[o] \in Final /\ task'[o] \in Final \ {"cancelled"}
  PROVE  Kept(o)
  BY DEF Kept, Past

LEMMA UserBroker ==
  ASSUME IInv, NEW o \in Order,
         \/ UNCHANGED vars \/ CreateBracket \/ Pause \/ PauseSweep \/ Resume
         \/ (\E l \in Leg : Amend(l))
         \/ \E q \in Order : Review(q) \/ CancelOrder(q) \/ RetryDue(q)
  PROVE  Kept(o)
<1>1. broker' = broker /\ at' = at /\ cur' = cur
  BY Zenon DEF vars, pass, CreateBracket, Pause, PauseSweep, Resume, Amend, Review, CancelOrder,
         RetryDue
<1>2. Sending(o)' <=> Sending(o)
  BY <1>1 DEF Sending
<1>3. CASE task'[o] = task[o] \/ task[o] \notin {"waiting_ack"} \cup Final
  BY <1>1, <1>2, <1>3, SameKept
<1>4. CASE task'[o] # task[o] /\ task[o] \in {"waiting_ack"} \cup Final
  <2>1. CASE CreateBracket
    BY <2>1, <1>4 DEF CreateBracket, IInv, RowOK, Final
  <2>2. CASE PauseSweep
    BY <2>2, <1>4 DEF PauseSweep, CallOff, Cancellable, Final
  <2>3. ASSUME NEW q \in Order, Review(q) PROVE FALSE
    BY <2>3, <1>4 DEF Review, IInv, TypeOK, Final
  <2>4. ASSUME NEW q \in Order, CancelOrder(q) PROVE Kept(o)
    <3>1. task'[o] = "cancelled" /\ row[o] = <<>>
      BY <2>4, <1>4 DEF CancelOrder, IInv, TypeOK
    <3>2. broker[o] = <<>>
      <4>1. Len(row[o]) = 0
        BY <3>1
      <4>2. CASE mode = "live"
        BY <4>1, <4>2, RowTypes DEF IInv, RowOK
      <4>3. CASE mode # "live"
        BY <4>3 DEF IInv, RowOK
      <4>4. QED
        BY <4>2, <4>3
    <3>3. QED
      BY <1>1, <1>2, <3>1, <3>2 DEF Kept, Past, Final
  <2>5. CASE UNCHANGED vars \/ Pause \/ Resume \/ (\E l \in Leg : Amend(l))
             \/ (\E q \in Order : RetryDue(q))
    <3>1. task' = task
      BY <2>5, Zenon DEF vars, orders, Pause, Resume, Amend, RetryDue
    <3>2. QED
      BY <3>1, <1>4
  <2>6. QED
    BY <2>1, <2>2, <2>3, <2>4, <2>5
<1>5. QED
  BY <1>3, <1>4

\* The broker moves, or is asked to cancel: nothing is opened again.
LEMMA CancelledAtBroker ==
  ASSUME TypeOK, NEW q \in Order, NEW i \in 1 .. Len(broker[q]), NEW s \in Answers \ {"open"},
         broker' = broker \/ broker' = [broker EXCEPT ![q][i] = s], NEW o \in Order
  PROVE  /\ Len(broker'[o]) = Len(broker[o])
         /\ \A j \in 1 .. Len(broker[o]) : broker[o][j] # "open" => broker'[o][j] # "open"
         /\ broker' = [broker EXCEPT ![q][i] = s] /\ o = q => broker'[o][i] # "open"
<1>1. CASE broker' # [broker EXCEPT ![q][i] = s]
  <2>1. broker' = broker
    BY <1>1
  <2>2. QED
    BY <1>1, <2>1
<1>2. CASE broker' = [broker EXCEPT ![q][i] = s]
  BY <1>2, RowTypes, Marked
<1>3. QED
  BY <1>1, <1>2

LEMMA BrokerSteps ==
  ASSUME IInv, NEW o \in Order,
         \E q \in Order : CancelAnswered(q) \/ \E i \in DOMAIN broker[q] : BrokerMove(q, i)
  PROVE  Kept(o)
<1>1. task' = task /\ at' = at /\ cur' = cur
  BY Zenon DEF orders, pass, CancelAnswered, BrokerMove
<1>2. Past(o)' <=> Past(o)
  BY <1>1 DEF Past, Sending
<1>3. ASSUME NEW q \in Order, CancelAnswered(q) PROVE Kept(o)
  <2>1. cancel[q].row \in 1 .. Len(broker[q])
    BY <1>3 DEF CancelAnswered, IInv, RowOK
  <2>2. \/ broker' = broker
        \/ broker' = [broker EXCEPT ![q][cancel[q].row] = "cancelled"]
    BY <1>3 DEF CancelAnswered, CancelAtBroker
  <2>3. TypeOK /\ "cancelled" \in Answers \ {"open"}
    BY DEF IInv, Answers
  <2>4. /\ Len(broker'[o]) = Len(broker[o])
        /\ \A j \in 1 .. Len(broker[o]) : broker[o][j] # "open" => broker'[o][j] # "open"
    BY <2>1, <2>2, <2>3, CancelledAtBroker
  <2>5. QED
    BY <2>4, <1>1, <1>2 DEF Kept
<1>4. ASSUME NEW q \in Order, NEW i \in DOMAIN broker[q], BrokerMove(q, i) PROVE Kept(o)
  <2>1. TypeOK /\ i \in 1 .. Len(broker[q])
    BY RowTypes DEF IInv
  <2>2. PICK s \in Answers \ {"open"} : broker' = [broker EXCEPT ![q][i] = s]
    BY <1>4 DEF BrokerMove
  <2>3. /\ Len(broker'[o]) = Len(broker[o])
        /\ \A j \in 1 .. Len(broker[o]) : broker[o][j] # "open" => broker'[o][j] # "open"
    BY <2>1, <2>2, CancelledAtBroker
  <2>4. QED
    BY <2>3, <1>1, <1>2 DEF Kept
<1>5. QED
  BY <1>3, <1>4

\* Steps of a pass that only move it.
LEMMA PassMovesBroker ==
  ASSUME IInv, NEW o \in Order, NEW p \in Pass,
         \/ PassStart(p) \/ PassAnswerFails(p) \/ PassCallFails(p) \/ PassNext(p)
         \/ \E q \in Order : PassPoll(p, q)
  PROVE  Kept(o)
<1>1. task' = task /\ broker' = broker
  BY Zenon DEF orders, PassStart, PassAnswerFails, PassCallFails, PassNext, PassPoll
<1>2. Sending(o)' <=> Sending(o)
  <2>1. TypeOK
    BY DEF IInv
  <2>2. CASE PassStart(p) \/ PassNext(p)
    BY <2>1, <2>2 DEF PassStart, PassNext, Goto, Work, Sending, TypeOK
  <2>3. CASE PassAnswerFails(p) \/ PassCallFails(p)
    BY <2>1, <2>3 DEF PassAnswerFails, PassCallFails, Goto, Back, Sending, TypeOK
  <2>4. ASSUME NEW q \in Order, PassPoll(p, q) PROVE Sending(o)' <=> Sending(o)
    BY <2>1, <2>4 DEF PassPoll, Goto, Take, Skip, Work, Sending, TypeOK
  <2>5. QED
    BY <2>2, <2>3, <2>4
<1>3. QED
  BY <1>1, <1>2, SameKept

LEMMA PassAnswerBroker == ASSUME IInv, NEW o \in Order, NEW p \in Pass, PassAnswer(p) PROVE Kept(o)
<1>1. PICK c \in Order, held \in Answers :
        /\ at[p] = "asked" /\ c = cur[p] /\ Past(c) /\ held = broker[c][1] /\ Head(broker[c]) = held
  BY AskedRow DEF PassAnswer
<1>2. (Sending(o)' <=> Sending(o)) /\ broker' = broker
  BY <1>1 DEF PassAnswer, Back, Goto, Sending, IInv, TypeOK
<1>3. CASE o # c
  BY <1>1, <1>2, <1>3, SameKept DEF PassAnswer, Settle, IInv, TypeOK
<1>4. CASE o = c
  <2>1. /\ task'[o] = task[o] \/ task'[o] \in Final
        /\ task'[o] = "cancelled" => task[o] = "cancelled" \/ held = "cancelled"
    BY <1>1, <1>4 DEF PassAnswer, Settle, IInv, TypeOK, Final
  <2>2. QED
    BY <2>1, <1>1, <1>2, <1>4 DEF Kept, Past
<1>5. QED
  BY <1>3, <1>4

LEMMA PassCalledBroker == ASSUME IInv, NEW o \in Order, NEW p \in Pass, PassCalled(p) PROVE Kept(o)
<1>1. PICK c \in Order :
        at[p] = "calling" /\ c = cur[p] /\ Past(c) /\ 1 \in 1 .. Len(broker[c])
  BY AskedRow DEF PassCalled
<1>2. Sending(o)' <=> Sending(o)
  BY <1>1 DEF PassCalled, Back, Goto, Sending, IInv, TypeOK
<1>3. \/ broker' = broker /\ broker[c][1] # "open"
      \/ broker' = [broker EXCEPT ![c][1] = "cancelled"]
  BY <1>1 DEF PassCalled, CancelAtBroker
<1>4. TypeOK /\ "cancelled" \in Answers \ {"open"}
  BY DEF IInv, Answers
<1>5. /\ Len(broker'[o]) = Len(broker[o])
      /\ \A j \in 1 .. Len(broker[o]) : broker[o][j] # "open" => broker'[o][j] # "open"
      /\ broker' = [broker EXCEPT ![c][1] = "cancelled"] /\ o = c => broker'[o][1] # "open"
  BY <1>1, <1>3, <1>4, CancelledAtBroker
<1>6. task'[o] = IF o = c THEN "cancelled" ELSE task[o]
  BY <1>1 DEF PassCalled, CallOff
<1>7. QED
  <2>1. Past(o) => Past(o)'
    BY <1>2, <1>6 DEF Past, Final
  <2>2. o = c => broker'[o][1] # "open"
    BY <1>3, <1>5
  <2>3. QED
    BY <2>1, <2>2, <1>5, <1>6 DEF Kept

LEMMA PassConditionalBroker ==
  ASSUME IInv, NEW o \in Order, NEW p \in Pass, PassConditional(p) PROVE Kept(o)
<1>1. /\ at[p] \in {"poll", "due"} /\ at'[p] = "siblings" /\ Moves(p) /\ UNCHANGED <<cur, broker>>
  BY ConditionalEffect
<1>2. Sending(o)' <=> Sending(o)
  BY <1>1 DEF Sending, Moves
<1>3. task'[o] # task[o] => task[o] \in {"held", "conditional_wait"}
  BY ConditionalEffect DEF Freed, Dropped, Held
<1>4. QED
  BY <1>1, <1>2, <1>3, SameKept DEF Final

LEMMA PassSiblingBroker ==
  ASSUME IInv, NEW o \in Order, NEW p \in Pass, NEW s \in Order, PassSibling(p, s) PROVE Kept(o)
<1>1. (Sending(o)' <=> Sending(o)) /\ broker' = broker
  BY DEF PassSibling, Skip, Take, Goto, Work, Sending, IInv, TypeOK
<1>2. task'[o] # task[o] => task[o] \in OcoTask \ {"waiting_ack"}
  BY DEF PassSibling, CallOff, IInv, TypeOK
<1>3. QED
  BY <1>1, <1>2, SameKept DEF OcoTask, Final

LEMMA PassAcquireBroker ==
  ASSUME IInv, NEW o \in Order, NEW p \in Pass, NEW s \in Order, PassAcquire(p, s) PROVE Kept(o)
<1>1. TypeOK /\ broker' = broker /\ at[p] = "due"
  BY DEF IInv, PassAcquire
<1>2. task'[o] # task[o] => task[o] = "pending"
  BY <1>1 DEF PassAcquire, CallOff, Settle, TypeOK
<1>3. (Sending(o)' <=> Sending(o)) \/ task[o] = "pending"
  BY <1>1 DEF PassAcquire, Take, Skip, Goto, Sending, TypeOK
<1>4. CASE task[o] = "pending"
  BY <1>1, <1>4 DEF Kept, Past, Final
<1>5. CASE task[o] # "pending"
  BY <1>1, <1>2, <1>3, <1>5, SameKept
<1>6. QED
  BY <1>4, <1>5

LEMMA PassSentBroker ==
  ASSUME IInv, BrokerOK, NEW o \in Order, NEW p \in Pass, PassSent(p)
  PROVE  Kept(o) \/ BrokerAt(o)'
<1>1. PICK c \in Order :
        /\ c = cur[p] /\ at[p] = "sent" /\ at'[p] = "due" /\ Moves(p)
        /\ \A q \in Order \ {c} : task'[q] = task[q] /\ broker'[q] = broker[q]
        /\ SentEffect(c)
  BY SentEffects
<1>2. ~Past(c) /\ \A q \in Pass : at[q] = "sent" /\ cur[q] = c => q = p
  BY <1>1 DEF IInv, SendOK, Sending, Past
<1>3. ~Sending(c)' /\ \A q \in Order \ {c} : Sending(q)' <=> Sending(q)
  BY <1>1, <1>2 DEF Sending, Moves
<1>4. CASE o # c
  BY <1>1, <1>3, <1>4, SameKept
<1>5. CASE o = c
  <2>1. /\ Len(broker[c]) \in Nat
        /\ \A j \in 1 .. Len(broker[c]) : broker[c][j] # "open"
    BY <1>2, RowTypes DEF BrokerOK, IInv
  <2>2. task'[c] # "cancelled"
    BY <1>1 DEF SentEffect, SentTo
  <2>3. ~Past(c)' => task'[c] = "pending"
    BY <1>1, <1>3 DEF SentEffect, SentTo, Past, Final
  <2>4. task'[c] = "pending" => AddedTo(c, "rejected", "rejected") \/ broker'[c] = broker[c]
    BY <1>1 DEF SentEffect, SentTo
  <2>5. task'[c] = "pending" => \A j \in 1 .. Len(broker'[c]) : broker'[c][j] # "open"
    <3>1. CASE broker'[c] = broker[c]
      BY <2>1, <3>1
    <3>2. CASE AddedTo(c, "rejected", "rejected")
      BY <2>1, <3>2 DEF AddedTo
    <3>3. QED
      BY <2>4, <3>1, <3>2
  <2>6. QED
    BY <1>5, <2>2, <2>3, <2>5 DEF BrokerAt
<1>6. QED
  BY <1>4, <1>5

LEMMA BrokerInv == IInv /\ IInv' /\ BrokerOK /\ [Next]_vars => BrokerOK'
<1> SUFFICES ASSUME IInv, IInv', BrokerOK, [Next]_vars, NEW o \in Order PROVE BrokerAt(o)'
  BY DEF BrokerOK, BrokerAt
<1>1. Kept(o) => BrokerAt(o)'
  BY KeptOK
<1>2. CASE \/ UNCHANGED vars \/ CreateBracket \/ Pause \/ PauseSweep \/ Resume
           \/ (\E l \in Leg : Amend(l))
           \/ \E q \in Order : Review(q) \/ CancelOrder(q) \/ RetryDue(q)
  BY <1>1, <1>2, UserBroker
<1>3. CASE \E q \in Order : CancelAnswered(q) \/ \E i \in DOMAIN broker[q] : BrokerMove(q, i)
  BY <1>1, <1>3, BrokerSteps
<1>4. ASSUME NEW p \in Pass, PassStart(p) \/ PassStep(p) PROVE BrokerAt(o)'
  BY <1>1, <1>4, PassMovesBroker, PassAnswerBroker, PassCalledBroker, PassConditionalBroker,
     PassSiblingBroker, PassAcquireBroker, PassSentBroker DEF PassStep
<1>5. QED
  BY <1>2, <1>3, <1>4 DEF Next

\* An order recorded as cancelled is not open at the broker, whoever called it
\* off, as long as the broker holds one row of it.
THEOREM CalledOffClosed == Spec => []CalledOffIsOff
<1>1. Init => BrokerOK
  BY DEF Init, BrokerOK
<1>2. IInv /\ BrokerOK => CalledOffIsOff
  <2>1. ASSUME IInv, NEW o \in Order, Len(broker[o]) = 1 PROVE broker[o] # <<>>
    <3>1. TypeOK
      BY <2>1 DEF IInv
    <3>2. broker[o] # <<>> <=> Len(broker[o]) > 0
      BY <3>1, RowTypes
    <3>3. QED
      BY <2>1, <3>2
  <2>2. QED
    BY <2>1 DEF BrokerOK, CalledOffIsOff
<1>3. QED
  BY <1>1, <1>2, InitInv, NextInv, BrokerInv, PTL DEF Spec

-----------------------------------------------------------------------------
(* No sibling of a leg that has filled is left behind.                      *)

Startable == {"held", "conditional_wait", "pending"}

\* A leg that could still be started can be called off, too, unless it is
\* reviewed: an approval that comes late sets its lifecycle anew.
LifeOK ==
  /\ open \subseteq CanReview
  /\ \A l \in Leg \ CanReview : task[l] \in Startable => life[l] = "risk_checked"

\* This pass has yet to make its last sweep, or will come to l in it.
Watched(p, l) == /\ at[p] # "idle"
                 /\ at[p] \in {"siblings", "calling"} /\ stage[p] = 2 => l \in todo[p]

SurvivorOK ==
  \A w \in Leg, l \in Leg \ CanReview :
    w # l /\ task[w] = "filled" /\ task[l] \in Startable => \E p \in Pass : Watched(p, l)

LEMMA LifeInv == IInv /\ LifeOK /\ [Next]_vars => LifeOK'
<1> SUFFICES ASSUME IInv, LifeOK, [Next]_vars PROVE LifeOK'
  OBVIOUS
<1>1. TypeOK
  BY DEF IInv
<1>2. CASE open' = open /\ task' = task /\ life' = life
  BY <1>2 DEF LifeOK
<1>3. CASE \/ UNCHANGED vars \/ Pause \/ Resume \/ (\E l \in Leg : Amend(l))
           \/ \E o \in Order : \/ RetryDue(o) \/ CancelAnswered(o)
                               \/ \E i \in DOMAIN broker[o] : BrokerMove(o, i)
           \/ \E p \in Pass : \/ PassStart(p) \/ PassAnswerFails(p) \/ PassCallFails(p)
                              \/ PassNext(p) \/ \E o \in Order : PassPoll(p, o)
  <2>1. open' = open /\ task' = task /\ life' = life
    BY <1>3, Zenon DEF vars, orders, Pause, Resume, Amend, RetryDue, CancelAnswered, BrokerMove,
           PassStart, PassAnswerFails, PassCallFails, PassNext, PassPoll
  <2>2. QED
    BY <2>1, <1>2
<1>4. CASE CreateBracket
  BY <1>4, Orders DEF CreateBracket, LifeOK
<1>5. CASE PauseSweep
  BY <1>5, Orders DEF PauseSweep, CallOff, LifeOK, Startable
<1>6. ASSUME NEW o \in Order, Review(o) PROVE LifeOK'
  <2>1. o \in CanReview /\ open' \subseteq CanReview
    BY <1>6 DEF Review, LifeOK
  <2>2. \A l \in Leg \ CanReview : task'[l] = task[l] /\ life'[l] = life[l]
    BY <1>1, <1>6, <2>1, Orders DEF Review, TypeOK
  <2>3. QED
    BY <2>1, <2>2 DEF LifeOK
<1>7. ASSUME NEW o \in Order, CancelOrder(o) PROVE LifeOK'
  BY <1>1, <1>7, Orders DEF CancelOrder, TypeOK, LifeOK, Startable
<1>8. ASSUME NEW p \in Pass, PassAnswer(p) PROVE LifeOK'
  <2>1. PICK c \in Order : c = cur[p] /\ Past(c)
    BY <1>8, AskedRow DEF PassAnswer
  <2>2. task'[c] = task[c] \/ task'[c] \in Final
    BY <1>1, <1>8, <2>1 DEF PassAnswer, Settle, TypeOK, Final
  <2>3. /\ \A o \in Order \ {c} : task'[o] = task[o] /\ life'[o] = life[o]
        /\ open' = open
    BY <1>1, <1>8, <2>1 DEF PassAnswer, Settle, TypeOK
  <2>4. task'[c] \notin Startable
    BY <2>1, <2>2 DEF Past, Startable, Final
  <2>5. QED
    BY <2>3, <2>4, Orders DEF LifeOK
<1>9. ASSUME NEW p \in Pass, PassConditional(p) PROVE LifeOK'
  <2>1. open' = open
    BY <1>9 DEF PassConditional
  <2>2. ASSUME NEW l \in Leg, task'[l] \in Startable
        PROVE  task[l] \in Startable /\ life'[l] = life[l]
    <3>1. task'[l] # task[l] => task[l] \in {"held", "conditional_wait"}
      BY <1>9, ConditionalEffect, Orders DEF Freed, Dropped, Held
    <3>2. l \in Dropped => task'[l] = "cancelled"
      <4>1. l \in Dropped => l \notin Freed /\ task[l] = "held" /\ life[Entry] # "filled"
        BY DEF Dropped, Freed, Held
      <4>2. \A k \in Leg : k \in Freed \/ task[k] = "conditional_wait" => life[Entry] = "filled"
        BY DEF Freed, IInv, LegOK
      <4>3. QED
        BY <1>9, <4>1, <4>2, ConditionalEffect, Orders
    <3>3. life'[l] = IF l \in Dropped THEN "cancelled" ELSE life[l]
      BY <1>9, ConditionalEffect, Orders
    <3>4. QED
      BY <2>2, <3>1, <3>2, <3>3 DEF Startable
  <2>3. QED
    BY <2>1, <2>2 DEF LifeOK
<1>10. ASSUME NEW p \in Pass, NEW s \in Order, PassSibling(p, s) PROVE LifeOK'
  BY <1>1, <1>10, Orders DEF PassSibling, CallOff, TypeOK, LifeOK, Startable
<1>11. ASSUME NEW p \in Pass, PassCalled(p) PROVE LifeOK'
  BY <1>1, <1>11, Orders DEF PassCalled, CallOff, TypeOK, LifeOK, Startable
<1>12. ASSUME NEW p \in Pass, NEW o \in Order, PassAcquire(p, o) PROVE LifeOK'
  <2>1. open' = open /\ \A q \in Order \ {o} : task'[q] = task[q] /\ life'[q] = life[q]
    BY <1>1, <1>12 DEF PassAcquire, CallOff, Settle, TypeOK
  <2>2. task'[o] \in Startable => task'[o] = task[o] /\ life'[o] = life[o]
    BY <1>1, <1>12 DEF PassAcquire, CallOff, Settle, TypeOK, Startable
  <2>3. QED
    BY <2>1, <2>2, Orders DEF LifeOK
<1>13. ASSUME NEW p \in Pass, PassSent(p) PROVE LifeOK'
  BY <1>13, SentEffects, Orders DEF SentEffect, SentTo, LifeOK, Startable
<1>14. QED
  BY <1>3, <1>4, <1>5, <1>6, <1>7, <1>8, <1>9, <1>10, <1>11, <1>12, <1>13 DEF Next, PassStep

\* A step that fills nothing, makes nothing startable and leaves the passes.
LEMMA SurvivorFrame ==
  ASSUME SurvivorOK,
         \A l \in Leg : task'[l] = "filled" => task[l] = "filled",
         \A l \in Leg \ CanReview : task'[l] \in Startable => task[l] \in Startable,
         \A p \in Pass, l \in Leg : Watched(p, l) => Watched(p, l)' \/ task'[l] \notin Startable
  PROVE  SurvivorOK'
  BY DEF SurvivorOK

LEMMA SurvivorInv == IInv /\ LifeOK /\ SurvivorOK /\ [Next]_vars => SurvivorOK'
<1> SUFFICES ASSUME IInv, LifeOK, SurvivorOK, [Next]_vars PROVE SurvivorOK'
  OBVIOUS
<1>1. TypeOK
  BY DEF IInv
<1>2. CASE \/ UNCHANGED vars \/ CreateBracket \/ Pause \/ PauseSweep \/ Resume
           \/ (\E l \in Leg : Amend(l))
           \/ \E o \in Order : \/ Review(o) \/ CancelOrder(o) \/ RetryDue(o) \/ CancelAnswered(o)
                               \/ \E i \in DOMAIN broker[o] : BrokerMove(o, i)
  <2>1. at' = at /\ stage' = stage /\ todo' = todo
    BY <1>2, Zenon DEF vars, pass, CreateBracket, Pause, PauseSweep, Resume, Amend, Review,
           CancelOrder, RetryDue, CancelAnswered, BrokerMove
  <2>2. \A p \in Pass, l \in Leg : Watched(p, l)' <=> Watched(p, l)
    BY <2>1 DEF Watched
  <2>3. CASE CreateBracket
    BY <2>3, Orders DEF CreateBracket, Activation, ReadyStatus, SurvivorOK
  <2>4. CASE PauseSweep
    <3>1. \A l \in Leg : task'[l] = task[l] \/ task'[l] = "cancelled"
      BY <2>4, Orders DEF PauseSweep, CallOff
    <3>2. QED
      BY <3>1, <2>2, SurvivorFrame DEF Startable
  <2>5. ASSUME NEW o \in Order, Review(o) PROVE SurvivorOK'
    <3>1. o \in CanReview
      BY <2>5 DEF Review, LifeOK
    <3>2. /\ task'[o] # "filled" \/ task'[o] = task[o]
          /\ \A q \in Order \ {o} : task'[q] = task[q]
      BY <1>1, <2>5 DEF Review, TypeOK, ReadyStatus
    <3>3. QED
      BY <3>1, <3>2, <2>2, SurvivorFrame, Orders
  <2>6. ASSUME NEW o \in Order, CancelOrder(o) PROVE SurvivorOK'
    <3>1. \A l \in Leg : task'[l] = task[l] \/ task'[l] = "cancelled"
      BY <1>1, <2>6, Orders DEF CancelOrder, TypeOK
    <3>2. QED
      BY <3>1, <2>2, SurvivorFrame DEF Startable
  <2>7. CASE \/ UNCHANGED vars \/ Pause \/ Resume \/ (\E l \in Leg : Amend(l))
             \/ \E o \in Order : \/ RetryDue(o) \/ CancelAnswered(o)
                                 \/ \E i \in DOMAIN broker[o] : BrokerMove(o, i)
    <3>1. task' = task
      BY <2>7, Zenon DEF vars, orders, Pause, Resume, Amend, RetryDue, CancelAnswered, BrokerMove
    <3>2. QED
      BY <3>1, <2>2, SurvivorFrame
  <2>8. QED
    BY <1>2, <2>3, <2>4, <2>5, <2>6, <2>7
<1>3. ASSUME NEW p \in Pass, at'[p] \in {"poll", "asked", "due", "sent"} PROVE SurvivorOK'
  BY <1>3 DEF SurvivorOK, Watched
<1>4. ASSUME NEW p \in Pass,
             \/ PassStart(p) \/ PassAnswer(p) \/ PassAnswerFails(p) \/ PassSent(p)
             \/ \E o \in Order : PassPoll(p, o) \/ PassAcquire(p, o)
      PROVE  at'[p] \in {"poll", "asked", "due", "sent"}
  BY <1>1, <1>4 DEF PassStart, PassAnswer, PassAnswerFails, PassSent, PassPoll, PassAcquire, Goto,
                    Back, Take, Skip, TypeOK
<1>5. ASSUME NEW p \in Pass, PassConditional(p) PROVE SurvivorOK'
  <2>1. /\ at[p] \in {"poll", "due"} /\ at'[p] = "siblings" /\ todo'[p] = Siblings /\ Moves(p)
        /\ \A q \in Pass \ {p} : stage'[q] = stage[q]
    BY <1>1, <1>5, ConditionalEffect DEF PassConditional, TypeOK
  <2>2. ASSUME NEW l \in Leg
        PROVE  /\ task'[l] = "filled" <=> task[l] = "filled"
               /\ task'[l] \in Startable => task[l] \in Startable
    <3>1. task'[l] # task[l] =>
            /\ task[l] \in {"held", "conditional_wait"}
            /\ task'[l] \in {"pending", "conditional_wait", "cancelled"}
      BY <1>5, ConditionalEffect, Orders DEF Freed, Dropped, Held
    <3>2. QED
      BY <3>1 DEF Startable
  <2>3. ASSUME NEW w \in Leg, NEW l \in Leg \ CanReview,
               w # l, task'[w] = "filled", task'[l] \in Startable
        PROVE  \E q \in Pass : Watched(q, l)'
    <3>1. task[w] = "filled" /\ task[l] \in Startable
      BY <2>2, <2>3
    <3>2. life[w] = "filled" /\ active[w] = "triggered" /\ life[l] = "risk_checked"
      BY <3>1, Orders DEF IInv, FillOK, LegOK, Started, LifeOK
    <3>3. l \in Siblings
      BY <2>3, <3>2 DEF Siblings, Winner, OcoLife
    <3>4. QED
      BY <3>3, <2>1 DEF Watched
  <2>4. QED
    BY <2>3 DEF SurvivorOK
<1>6. ASSUME NEW p \in Pass, NEW s \in Order, PassSibling(p, s) PROVE SurvivorOK'
  <2>1. /\ at[p] = "siblings" /\ at'[p] \in {"siblings", "calling"} /\ stage' = stage
        /\ todo'[p] = todo[p] \ {s}
        /\ \A q \in Pass \ {p} : at'[q] = at[q] /\ todo'[q] = todo[q]
    BY <1>1, <1>6 DEF PassSibling, Take, Skip, Work, Goto, TypeOK
  <2>2. /\ \A o \in Order : task'[o] = task[o] \/ task'[o] = "cancelled"
        /\ task'[s] \notin Startable
    BY <1>1, <1>6 DEF PassSibling, CallOff, OcoTask, Startable, TypeOK
  <2>3. \A q \in Pass, l \in Leg : Watched(q, l) => Watched(q, l)' \/ task'[l] \notin Startable
    BY <2>1, <2>2 DEF Watched
  <2>4. QED
    BY <2>2, <2>3, SurvivorFrame, Orders DEF Startable
<1>7. ASSUME NEW p \in Pass, PassCalled(p) \/ PassCallFails(p) PROVE SurvivorOK'
  <2>1. /\ at[p] = "calling" /\ at' = [at EXCEPT ![p] = "siblings"] /\ stage' = stage
        /\ todo' = todo
    BY <1>7 DEF PassCalled, PassCallFails, Back, Goto
  <2>2. \A q \in Pass, l \in Leg : Watched(q, l) => Watched(q, l)'
    BY <1>1, <2>1 DEF Watched, TypeOK
  <2>3. \A l \in Leg : task'[l] = task[l] \/ task'[l] = "cancelled"
    BY <1>7, Orders DEF PassCalled, PassCallFails, CallOff, orders
  <2>4. QED
    BY <2>2, <2>3, SurvivorFrame DEF Startable
<1>8. ASSUME NEW p \in Pass, PassNext(p) PROVE SurvivorOK'
  <2>1. CASE at'[p] = "due"
    BY <2>1, <1>3
  <2>2. CASE at'[p] # "due"
    <3>1. /\ at[p] = "siblings" /\ stage[p] = 2 /\ todo[p] = {} /\ todo' = todo /\ task' = task
          /\ \A q \in Pass \ {p} : at'[q] = at[q] /\ stage'[q] = stage[q]
      BY <1>1, <1>8, <2>2 DEF PassNext, Goto, TypeOK, orders
    <3>2. \A q \in Pass, l \in Leg : Watched(q, l) => Watched(q, l)'
      BY <3>1 DEF Watched
    <3>3. QED
      BY <3>1, <3>2, SurvivorFrame
  <2>3. QED
    BY <2>1, <2>2
<1>9. QED
  BY <1>2, <1>3, <1>4, <1>5, <1>6, <1>7, <1>8 DEF Next, PassStep

\* A sibling that could still be started after a leg has filled is seen to by
\* a pass that is under way, for any number of legs and of overlapping passes.
THEOREM NoSurvivor == Spec => []NoSurvivorAtRest
<1>1. Init => LifeOK /\ SurvivorOK
  BY Orders DEF Init, LifeOK, SurvivorOK, Startable
<1>2. IInv /\ SurvivorOK => NoSurvivorAtRest
  <2> SUFFICES ASSUME IInv, SurvivorOK, NEW w \in Leg, Winner(w), NEW l \in Leg \ (CanReview \cup {w}),
                      task[l] \in Startable
               PROVE  \E p \in Pass : /\ at[p] # "idle"
                                      /\ stage[p] = 1 \/ at[p] # "siblings" \/ l \in todo[p]
    BY DEF NoSurvivorAtRest, Startable
  <2>1. task[w] = "filled"
    BY Orders DEF IInv, FillOK, Winner
  <2>2. PICK p \in Pass : Watched(p, l)
    BY <2>1 DEF SurvivorOK
  <2>3. stage[p] = 1 \/ stage[p] = 2
    BY DEF IInv, TypeOK
  <2>4. QED
    BY <2>2, <2>3 DEF Watched
<1>3. QED
  BY <1>1, <1>2, InitInv, NextInv, LifeInv, SurvivorInv, PTL DEF Spec

=============================================================================
