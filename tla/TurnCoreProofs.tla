---------------------------- MODULE TurnCoreProofs ----------------------------
(***************************************************************************)
(* Theorems about TurnCore, for any turns, sessions, limit and bounds.     *)
(***************************************************************************)
EXTENDS TurnCore, FiniteSetTheorems, TLAPS

(* What a run is about to announce is an outcome; with it TypeOK is         *)
(* inductive (the log would otherwise record any state).                    *)
ReadyToEmit ==
  \A t \in Turn : pc[t] \in {"endCp", "endEmit"} => view[t].state \in Settled

(* A run belongs to a turn the host has started, and so to a session.       *)
Placed ==
  \A t \in Turn : /\ host[t] # "idle" => sess[t] \in Session
                  /\ pc[t] # "none" \/ task[t] # "none" => host[t] # "idle"

TypeInv == TypeOK /\ ReadyToEmit /\ Placed

LEMMA InitType == Init => TypeInv
BY LimitAssumption, IterationsAssumption, BoundsAssumption
   DEF Init, TypeInv, TypeOK, ReadyToEmit, Placed, NullView, State, View, MidFlight,
       Settled, Terminal, Event, Caller, RunPc, TaskPc, ProcPc, HostPc

(* Every write of a run's local turn to the store keeps the types.          *)
LEMMA WriteType ==
  ASSUME TypeInv, NEW t \in Turn, NEW st \in State, NEW to \in RunPc,
         Write(t, st, to), to \in {"endCp", "endEmit"} => st \in Settled
  PROVE  /\ active' \in [Session -> View]
         /\ view' \in [Turn -> View]
         /\ pc' \in [Turn -> RunPc]
         /\ why' \in [Turn -> {"none", "error", "cancelled"}]
         /\ ReadyToEmit'
         /\ UNCHANGED <<cp, inbox, log>>
<1> DEFINE v == [turn |-> view[t].turn, state |-> st]
<1>1. v \in View
  BY DEF TypeInv, TypeOK, View
<1>2. view' \in [Turn -> View] /\ active' \in [Session -> View]
  BY <1>1 DEF TypeInv, TypeOK, Write
<1>3. pc' \in [Turn -> RunPc] /\ why' \in [Turn -> {"none", "error", "cancelled"}]
  BY DEF TypeInv, TypeOK, Write
<1>4. ReadyToEmit'
  BY DEF TypeInv, TypeOK, Write, ReadyToEmit
<1>5. UNCHANGED <<cp, inbox, log>>
  BY DEF Write
<1> QED BY <1>2, <1>3, <1>4, <1>5

LEMMA SetProcType ==
  ASSUME TypeInv, NEW c \in Caller, NEW t \in Turn, NEW to \in ProcPc,
         SetProc(c, t, to)
  PROVE  proc' \in [Caller -> [Turn -> ProcPc]]
BY DEF TypeInv, TypeOK, SetProc

(* What RunStep leaves alone, in terms of the variables.                    *)
LEMMA RunFrame ==
  ASSUME NEW t \in Turn, RunStep(t)
  PROVE  /\ UNCHANGED <<host, sess, task, proc, avail, activeTurns, registered,
                        token, mode, crashes, todo, met>>
         /\ contested' = contested \cup Confused(t)
BY DEF RunStep, admit, control

RunTyped ==
  /\ active \in [Session -> View]
  /\ view \in [Turn -> View]
  /\ pc \in [Turn -> RunPc]
  /\ why \in [Turn -> {"none", "error", "cancelled"}]
  /\ iter \in [Turn -> 0..MaxIterations]
  /\ cp \in [Turn -> State \cup {"none"}]
  /\ inbox \subseteq Turn
  /\ log \in [Turn -> Seq(Event)]
  /\ ReadyToEmit

LEMMA WriteTyped ==
  ASSUME TypeInv, NEW t \in Turn, NEW st \in State, NEW to \in RunPc,
         Write(t, st, to), to \in {"endCp", "endEmit"} => st \in Settled,
         iter' \in [Turn -> 0..MaxIterations]
  PROVE  RunTyped'
<1>1. UNCHANGED <<cp, inbox, log>>
  BY WriteType
<1> QED BY <1>1, WriteType DEF RunTyped, TypeInv, TypeOK

LEMMA FailTyped ==
  ASSUME TypeInv, NEW t \in Turn, NEW error \in {"error", "cancelled"},
         Fail(t, error)
  PROVE  RunTyped'
<1>1. pc' \in [Turn -> RunPc] /\ why' \in [Turn -> {"none", "error", "cancelled"}]
  BY DEF TypeInv, TypeOK, Fail, RunPc
<1>2. ReadyToEmit'
  BY DEF TypeInv, TypeOK, Fail, ReadyToEmit
<1> QED BY <1>1, <1>2 DEF Fail, shared, RunTyped, TypeInv, TypeOK

LEMMA GotoTyped ==
  ASSUME TypeInv, NEW t \in Turn, NEW to \in RunPc \ {"endCp", "endEmit"},
         Goto(t, to), UNCHANGED <<active, cp>>, inbox' \subseteq Turn,
         log' \in [Turn -> Seq(Event)]
  PROVE  RunTyped'
<1>1. pc' \in [Turn -> RunPc]
  BY DEF TypeInv, TypeOK, Goto
<1>2. ReadyToEmit'
  BY DEF TypeInv, TypeOK, Goto, ReadyToEmit
<1> QED BY <1>1, <1>2 DEF Goto, RunTyped, TypeInv, TypeOK

(* A step of a run moves only that run, and only once it has begun.         *)
LEMMA RunMoves ==
  ASSUME NEW t \in Turn, RunStep(t)
  PROVE  /\ pc[t] # "none"
         /\ \E to : pc' = [pc EXCEPT ![t] = to]
<1>1. pc[t] # "none"
  BY DEF RunStep, RunAccept, RunAnnounce, RunPrepare, RunCheckpoint, AfterCp,
         RunBuild, RunLoop, RunSample, RunAct, RunReread, RunRaise, RunPause,
         RunEmit
<1>2. ASSUME NEW st, NEW to, Write(t, st, to)
      PROVE  \E p : pc' = [pc EXCEPT ![t] = p]
  BY <1>2 DEF Write
<1>3. ASSUME NEW to, Goto(t, to)
      PROVE  \E p : pc' = [pc EXCEPT ![t] = p]
  BY <1>3 DEF Goto
<1>4. ASSUME NEW e, Fail(t, e)
      PROVE  \E p : pc' = [pc EXCEPT ![t] = p]
  BY <1>4 DEF Fail
<1>5. RunReread(t) => \E p : pc' = [pc EXCEPT ![t] = p]
  BY DEF RunReread
<1>6. \/ RunReread(t) \/ \E st, to : Write(t, st, to)
      \/ \E to : Goto(t, to) \/ \E e : Fail(t, e)
  BY DEF RunStep, RunAccept, RunAnnounce, RunPrepare, RunCheckpoint, RunBuild,
         RunLoop, RunSample, RunAct, RunRaise, RunPause, RunEmit
<1> QED BY <1>1, <1>2, <1>3, <1>4, <1>5, <1>6

LEMMA RunType ==
  ASSUME TypeInv, NEW t \in Turn, RunStep(t)
  PROVE  RunTyped'
<1> iter \in [Turn -> 0..MaxIterations] /\ inbox \subseteq Turn
    /\ log \in [Turn -> Seq(Event)]
  BY DEF TypeInv, TypeOK
<1>a. CASE RunAccept(t)
  BY <1>a, WriteTyped DEF RunAccept, State, MidFlight, RunPc
<1>b. CASE RunAnnounce(t)
  <2>1. CASE Goto(t, "prepare") /\ UNCHANGED <<active, cp, inbox>>
                /\ log' = [log EXCEPT ![t] = Append(@, "started")]
    <3>1. log' \in [Turn -> Seq(Event)]
      BY <2>1 DEF Event
    <3> QED BY <2>1, <3>1, GotoTyped DEF RunPc
  <2>2. CASE Fail(t, "error")
    BY <2>2, FailTyped
  <2> QED BY <1>b, <2>1, <2>2 DEF RunAnnounce
<1>c. CASE RunPrepare(t)
  BY <1>c, WriteTyped DEF RunPrepare, State, MidFlight, RunPc
<1>d. CASE RunCheckpoint(t)
  <2>1. pc[t] \in {"prepareCp", "reasonCp", "actCp", "observeCp", "endCp"}
    BY <1>d DEF RunCheckpoint, AfterCp
  <2>2. AfterCp[pc[t]] \in RunPc \ {"endCp"}
    BY <2>1 DEF AfterCp, RunPc
  <2>3. AfterCp[pc[t]] = "endEmit" => pc[t] = "endCp"
    BY <2>1 DEF AfterCp
  <2>4. pc' = [pc EXCEPT ![t] = AfterCp[pc[t]]] /\ UNCHANGED view
    BY <1>d DEF RunCheckpoint, Goto
  <2>5. pc' \in [Turn -> RunPc]
    BY <2>2, <2>4 DEF TypeInv, TypeOK
  <2>6. cp' \in [Turn -> State \cup {"none"}]
    BY <1>d DEF RunCheckpoint, View, TypeInv, TypeOK
  <2>7. ReadyToEmit'
    BY <2>2, <2>3, <2>4 DEF TypeInv, TypeOK, ReadyToEmit
  <2> QED BY <1>d, <2>5, <2>6, <2>7
          DEF RunCheckpoint, Goto, RunTyped, TypeInv, TypeOK
<1>e. CASE RunBuild(t)
  <2>1. CASE Goto(t, "loop") /\ UNCHANGED shared
    BY <2>1, GotoTyped DEF shared, RunPc
  <2>2. CASE Fail(t, "error")
    BY <2>2, FailTyped
  <2> QED BY <1>e, <2>1, <2>2 DEF RunBuild
<1>f. CASE RunLoop(t)
  <2>1. iter' \in [Turn -> 0..MaxIterations]
    BY <1>f, IterationsAssumption DEF RunLoop, Exhausted
  <2>2. \/ Write(t, "cancelled", "endCp") \/ Write(t, "completed", "endCp")
        \/ Write(t, "reasoning", "reasonCp")
    BY <1>f DEF RunLoop
  <2> QED BY <2>1, <2>2, WriteTyped
          DEF State, MidFlight, Settled, Terminal, RunPc
<1>g. CASE RunSample(t)
  <2>1. CASE Goto(t, "enqueue") /\ UNCHANGED shared
    BY <2>1, GotoTyped DEF shared, RunPc
  <2>2. CASE Fail(t, "error")
    BY <2>2, FailTyped
  <2>3. CASE \/ Write(t, "cancelled", "endCp") \/ Write(t, "completed", "endCp")
             \/ Write(t, "acting", "actCp")
    BY <1>g, <2>3, WriteTyped
       DEF RunSample, State, MidFlight, Settled, Terminal, RunPc
  <2> QED BY <1>g, <2>1, <2>2, <2>3 DEF RunSample
<1>h. CASE RunAct(t)
  <2>1. CASE Fail(t, "error") \/ Fail(t, "cancelled")
    BY <2>1, FailTyped
  <2>2. CASE Write(t, "observing", "reread")
    BY <1>h, <2>2, WriteTyped DEF RunAct, State, MidFlight, RunPc
  <2> QED BY <1>h, <2>1, <2>2 DEF RunAct
<1>i. CASE RunReread(t)
  <2>1. active[sess[t]] \in View
    BY <1>i DEF RunReread, TypeInv, TypeOK, Placed
  <2>2. view' \in [Turn -> View]
    BY <1>i, <2>1 DEF RunReread, TypeInv, TypeOK
  <2>3. pc' \in [Turn -> RunPc] /\ ReadyToEmit'
    BY <1>i DEF RunReread, RunPc, TypeInv, TypeOK, ReadyToEmit
  <2> QED BY <1>i, <2>2, <2>3 DEF RunReread, shared, RunTyped, TypeInv, TypeOK
<1>j. CASE RunRaise(t)
  BY <1>j, GotoTyped DEF RunRaise, RunPc
<1>k. CASE RunPause(t)
  BY <1>k, WriteTyped DEF RunPause, State, Settled, RunPc
<1>l. CASE RunEmit(t)
  <2>1. view[t].state \in Event
    BY <1>l DEF RunEmit, Event, TypeInv, ReadyToEmit
  <2>2. log' \in [Turn -> Seq(Event)]
    BY <1>l, <2>1 DEF RunEmit
  <2> QED BY <1>l, <2>2, GotoTyped DEF RunEmit, RunPc
<1> QED BY <1>a, <1>b, <1>c, <1>d, <1>e, <1>f, <1>g, <1>h, <1>i, <1>j, <1>k, <1>l
        DEF RunStep

LEMMA RunInv ==
  ASSUME TypeInv, NEW t \in Turn, RunStep(t)
  PROVE  TypeInv'
<1>1. UNCHANGED <<host, sess, task, proc, avail, activeTurns, registered, token,
                  mode, crashes, todo, met>>
  BY RunFrame
<1>h. contested' \subseteq Turn
  BY RunFrame DEF Confused, TypeInv, TypeOK
<1>2. RunTyped'
  BY RunType
<1>3. Placed'
  <2>1. PICK to : pc' = [pc EXCEPT ![t] = to]
    BY RunMoves
  <2>2. pc[t] # "none"
    BY RunMoves
  <2> QED BY <1>1, <2>1, <2>2 DEF TypeInv, TypeOK, Placed
<1>4. TypeOK'
  BY <1>1, <1>2, <1>h DEF TypeInv, TypeOK, RunTyped
<1> QED BY <1>2, <1>3, <1>4 DEF TypeInv, RunTyped

-----------------------------------------------------------------------------
(* The procedures, the outer task, the handlers, the host and recovery.     *)

LEMMA ProcInv ==
  ASSUME TypeInv, NEW c \in Caller, NEW t \in Turn, ProcStep(c, t)
  PROVE  TypeInv'
<1>1. UNCHANGED <<host, sess, pc, view, iter, why, task, avail, activeTurns,
                  registered, token, mode, crashes, todo, inbox, met, contested>>
  BY DEF ProcStep, HealRead, FailRead, FailSet, FailCheckpoint, FailEmit, run,
         shared, admit, control, past
<1>2. PICK to \in ProcPc : SetProc(c, t, to)
  BY DEF ProcStep, HealRead, FailRead, FailSet, FailCheckpoint, FailEmit, ProcPc
<1>3. proc' \in [Caller -> [Turn -> ProcPc]]
  BY <1>2, SetProcType
<1>4. active' \in [Session -> View]
  <2>1. [turn |-> t, state |-> "failed"] \in View
    BY DEF View, State, Settled, Terminal
  <2> QED BY <2>1 DEF ProcStep, HealRead, FailRead, FailSet, FailCheckpoint,
                      FailEmit, shared, TypeInv, TypeOK
<1>5. cp' \in [Turn -> State \cup {"none"}]
  BY DEF ProcStep, HealRead, FailRead, FailSet, FailCheckpoint, FailEmit, shared,
         TypeInv, TypeOK, State, Settled, Terminal
<1>6. log' \in [Turn -> Seq(Event)]
  <2>1. "failed" \in Event /\ log \in [Turn -> Seq(Event)]
    BY DEF Event, Settled, Terminal, TypeInv, TypeOK
  <2>2. CASE UNCHANGED log
    BY <2>1, <2>2
  <2>3. CASE log' = [log EXCEPT ![t] = Append(@, "failed")]
    BY <2>1, <2>3
  <2> QED BY <2>2, <2>3 DEF ProcStep, HealRead, FailRead, FailSet,
                            FailCheckpoint, FailEmit, shared
<1> QED BY <1>1, <1>3, <1>4, <1>5, <1>6 DEF TypeInv, TypeOK, ReadyToEmit, Placed

LEMMA TaskInv ==
  ASSUME TypeInv, NEW t \in Turn, TaskStep(t)
  PROVE  TypeInv'
<1>1. UNCHANGED <<host, sess, pc, view, iter, why, active, cp, inbox, log, token,
                  mode, crashes, todo, met, contested>>
  BY DEF TaskStep, TaskJoin, TaskHeal, TaskUnregister, TaskDropCount,
         TaskDropPermit, run, shared, admit, control, past
<1>2. proc' \in [Caller -> [Turn -> ProcPc]]
  <2>1. UNCHANGED proc \/ \E to \in ProcPc : SetProc("task", t, to)
    BY DEF TaskStep, TaskJoin, TaskHeal, TaskUnregister, TaskDropCount,
           TaskDropPermit, ProcPc
  <2> QED BY <2>1, SetProcType DEF Caller, TypeInv, TypeOK
<1>3. /\ task[t] # "none"
      /\ \E to \in TaskPc : task' = [task EXCEPT ![t] = to]
  BY DEF TaskStep, TaskJoin, TaskHeal, TaskUnregister, TaskDropCount,
         TaskDropPermit, TaskPc
<1>4. task' \in [Turn -> TaskPc] /\ Placed'
  BY <1>1, <1>3 DEF TypeInv, TypeOK, Placed
<1>5. registered' \subseteq Turn /\ avail' \in Int /\ activeTurns' \in Int
  BY DEF TaskStep, TaskJoin, TaskHeal, TaskUnregister, TaskDropCount,
         TaskDropPermit, admit, TypeInv, TypeOK
<1> QED BY <1>1, <1>2, <1>4, <1>5 DEF TypeInv, TypeOK, ReadyToEmit

LEMMA AdmitInv ==
  ASSUME TypeInv, NEW t \in Turn, NEW s \in Session, Admit(t, s)
  PROVE  TypeInv'
<1>1. UNCHANGED <<pc, view, iter, why, task, proc, active, cp, inbox, log,
                  registered, token, mode, crashes, todo, contested>>
  BY DEF Admit, run, shared, control
<1>h. met' \subseteq Turn
  BY DEF Admit, Company, TypeInv, TypeOK
<1>2. /\ host' \in [Turn -> HostPc] /\ sess' \in [Turn -> Session \cup {NoSession}]
      /\ avail' \in Int /\ activeTurns' \in Int
  BY DEF Admit, HostPc, TypeInv, TypeOK
<1>3. Placed'
  BY <1>1 DEF Admit, Placed, TypeInv, TypeOK
<1> QED BY <1>1, <1>2, <1>3, <1>h DEF TypeInv, TypeOK, ReadyToEmit

LEMMA RegisterInv ==
  ASSUME TypeInv, NEW t \in Turn, Register(t)
  PROVE  TypeInv'
<1>1. UNCHANGED <<iter, why, sess, proc, active, cp, inbox, log, avail,
                  activeTurns, token, mode, crashes, todo, met, contested>>
  BY DEF Register, shared, control, past
<1>2. /\ host' \in [Turn -> HostPc] /\ task' \in [Turn -> TaskPc]
      /\ pc' \in [Turn -> RunPc]
  BY DEF Register, HostPc, TaskPc, RunPc, TypeInv, TypeOK
<1>3. view' \in [Turn -> View]
  BY DEF Register, View, State, MidFlight, TypeInv, TypeOK
<1>4. registered' \subseteq Turn
  BY DEF Register, TypeInv, TypeOK
<1>5. Placed' /\ ReadyToEmit'
  BY <1>1 DEF Register, Placed, ReadyToEmit, TypeInv, TypeOK
<1> QED BY <1>1, <1>2, <1>3, <1>4, <1>5 DEF TypeInv, TypeOK

LEMMA HandlerInv ==
  ASSUME TypeInv, NEW t \in Turn,
         CancelRpc(t) \/ CancelReturn(t) \/ BootReturn(t) \/ BootFail(t)
  PROVE  TypeInv'
<1>1. UNCHANGED <<host, sess, pc, view, iter, why, task, active, cp, inbox, log,
                  avail, activeTurns, registered, mode, crashes, met, contested>>
  BY DEF CancelRpc, CancelReturn, BootReturn, BootFail, run, shared, admit, control,
         past
<1>2. token' \subseteq Turn /\ todo' \subseteq Turn
  BY DEF CancelRpc, CancelReturn, BootReturn, BootFail, TokenAfterCancel, admit,
         control, TypeInv, TypeOK
<1>3. \E c \in Caller, to \in ProcPc : SetProc(c, t, to)
  BY DEF CancelRpc, CancelReturn, BootReturn, BootFail, Caller, ProcPc
<1>4. proc' \in [Caller -> [Turn -> ProcPc]]
  BY <1>3, SetProcType
<1> QED BY <1>1, <1>2, <1>4 DEF TypeInv, TypeOK, ReadyToEmit, Placed

LEMMA HostInv ==
  ASSUME TypeInv, NEW t \in Turn,
         HostObserve(t) \/ HostTimeout(t) \/ HostGiveUp(t)
  PROVE  TypeInv'
<1>1. UNCHANGED <<sess, pc, view, iter, why, task, active, cp, inbox, log, avail,
                  activeTurns, registered, mode, crashes, todo, met>>
  BY DEF HostObserve, HostTimeout, HostGiveUp, run, shared, admit, control, past
<1>h. contested' \subseteq Turn
  BY DEF HostObserve, HostTimeout, HostGiveUp, past, TypeInv, TypeOK
<1>2. token' \subseteq Turn
  BY DEF HostObserve, HostTimeout, HostGiveUp, TokenAfterCancel, admit, TypeInv,
         TypeOK
<1>3. UNCHANGED proc \/ \E to \in ProcPc : SetProc("fail", t, to)
  BY DEF HostObserve, HostTimeout, HostGiveUp, ProcPc
<1>4. proc' \in [Caller -> [Turn -> ProcPc]]
  BY <1>3, SetProcType DEF Caller, TypeInv, TypeOK
<1>5. /\ host[t] # "idle"
      /\ \E to \in HostPc \ {"idle"} : host' = [host EXCEPT ![t] = to]
  BY DEF HostObserve, HostTimeout, HostGiveUp, HostPc
<1>6. host' \in [Turn -> HostPc] /\ Placed'
  BY <1>1, <1>5 DEF TypeInv, TypeOK, Placed
<1> QED BY <1>1, <1>2, <1>4, <1>6, <1>h DEF TypeInv, TypeOK, ReadyToEmit

LEMMA CrashInv == TypeInv /\ Crash => TypeInv'
<1> SUFFICES ASSUME TypeInv, Crash PROVE TypeInv'
  OBVIOUS
<1>1. UNCHANGED <<sess, active, cp, inbox, log, met, contested>>
  BY DEF Crash, shared, past
<1>2. mode' \in {"up", "boot"} /\ crashes' \in 0..MaxCrashes
  BY BoundsAssumption DEF Crash, TypeInv, TypeOK
<1>3. /\ todo' \subseteq Turn /\ token' \subseteq Turn /\ registered' \subseteq Turn
      /\ avail' \in Int /\ activeTurns' \in Int
  BY LimitAssumption DEF Crash
<1>4. /\ pc' \in [Turn -> RunPc] /\ task' \in [Turn -> TaskPc]
      /\ why' \in [Turn -> {"none", "error", "cancelled"}]
  BY DEF Crash, RunPc, TaskPc
<1>5. view' \in [Turn -> View] /\ iter' \in [Turn -> 0..MaxIterations]
  BY IterationsAssumption DEF Crash, View, NullView
<1>6. proc' \in [Caller -> [Turn -> ProcPc]]
  BY DEF Crash, ProcPc
<1>7. host' \in [Turn -> HostPc]
  BY DEF Crash, HostPc, TypeInv, TypeOK
<1>8. ReadyToEmit' /\ Placed'
  BY <1>1 DEF Crash, ReadyToEmit, Placed, TypeInv, TypeOK
<1> QED BY <1>1, <1>2, <1>3, <1>4, <1>5, <1>6, <1>7, <1>8 DEF TypeInv, TypeOK

LEMMA BootDoneInv == TypeInv /\ BootDone => TypeInv'
BY DEF BootDone, run, shared, admit, past, TypeInv, TypeOK, ReadyToEmit, Placed

LEMMA StutterInv == TypeInv /\ UNCHANGED vars => TypeInv'
BY DEF vars, run, shared, admit, control, past, TypeInv, TypeOK, ReadyToEmit, Placed

LEMMA NextInv == TypeInv /\ [Next]_vars => TypeInv'
BY RunInv, ProcInv, TaskInv, AdmitInv, RegisterInv, HandlerInv, HostInv, CrashInv,
   BootDoneInv, StutterInv
   DEF Next, Progress, Request

(* Every reachable state is well typed: what a run writes to the store, to  *)
(* its checkpoint row and to the bus is a state of turn.rs, and what it     *)
(* announces as an outcome is one.                                          *)
THEOREM TypeCorrect == Spec => []TypeOK
<1>1. TypeInv => TypeOK
  BY DEF TypeInv
<1> QED BY InitType, NextInv, <1>1, PTL DEF Spec

-----------------------------------------------------------------------------
(* Permits, the count health reports, and the registry.  The stages a turn  *)
(* goes through (starting, then a task) are what makes the accounts         *)
(* inductive: a turn enters Admitted once and Counted once.                 *)
Staged == \A t \in Turn : task[t] # "none" => host[t] \notin {"idle", "starting"}

RegistryExact == registered = {t \in Turn : Live(t)}

Accounts == /\ IsFiniteSet(Admitted) /\ PermitAccounting
            /\ Staged /\ RegistryExact

LEMMA InitAccounts == Init => Accounts
<1> SUFFICES ASSUME Init PROVE Accounts
  OBVIOUS
<1>1. Admitted = {} /\ Counted = {}
  BY DEF Init, Admitted, Counted
<1>2. IsFiniteSet({}) /\ Cardinality({}) = 0
  BY FS_EmptySet
<1> QED BY <1>1, <1>2, LimitAssumption
        DEF Init, Accounts, PermitAccounting, Staged, RegistryExact, Live

LEMMA CountedFinite ==
  ASSUME IsFiniteSet(Admitted)
  PROVE  /\ IsFiniteSet(Counted) /\ Counted \subseteq Admitted
         /\ Cardinality(Counted) \in Nat /\ Cardinality(Admitted) \in Nat
         /\ Cardinality(Counted) <= Cardinality(Admitted)
<1>1. Counted \subseteq Admitted
  BY DEF Counted
<1> QED BY <1>1, FS_Subset, FS_CardinalityType

(* A step that moves neither a turn's stage nor its task keeps the accounts.*)
LEMMA AccountsFrame ==
  ASSUME TypeInv, Accounts, UNCHANGED <<task, registered, avail, activeTurns>>,
         \A t \in Turn : (host'[t] \in {"idle", "starting"}) \/ (host[t] \in {"idle", "starting"})
                           => host'[t] = host[t]
  PROVE  Accounts'
<1>1. Admitted' = Admitted /\ Counted' = Counted
  BY DEF Admitted, Counted
<1> QED BY <1>1 DEF Accounts, PermitAccounting, Staged, RegistryExact, Live

LEMMA AdmitAccounts ==
  ASSUME TypeInv, Accounts, NEW t \in Turn, NEW s \in Session, Admit(t, s)
  PROVE  Accounts'
<1>1. /\ UNCHANGED <<task, registered>> /\ avail > 0
      /\ avail' = avail - 1 /\ activeTurns' = activeTurns + 1
  BY DEF Admit
<1>2. host' = [host EXCEPT ![t] = "starting"] /\ host[t] = "idle"
  BY DEF Admit
<1>3. t \notin Admitted /\ task[t] = "none"
  BY <1>2 DEF Accounts, Staged, Admitted
<1>4. Admitted' = Admitted \cup {t} /\ Counted' = Counted \cup {t}
  BY <1>1, <1>2, <1>3 DEF Admitted, Counted, TypeInv, TypeOK
<1>5. IsFiniteSet(Admitted') /\ Cardinality(Admitted') = Cardinality(Admitted) + 1
  BY <1>3, <1>4, FS_AddElement DEF Accounts
<1>6. Cardinality(Counted') = Cardinality(Counted) + 1
  BY <1>3, <1>4, CountedFinite, FS_AddElement DEF Accounts
<1>7. PermitAccounting'
  BY <1>1, <1>5, <1>6, CountedFinite
     DEF Accounts, PermitAccounting, TypeInv, TypeOK
<1>8. Staged' /\ RegistryExact'
  BY <1>1, <1>2 DEF Accounts, Staged, RegistryExact, Live, TypeInv, TypeOK
<1> QED BY <1>5, <1>7, <1>8 DEF Accounts

LEMMA RegisterAccounts ==
  ASSUME TypeInv, Accounts, NEW t \in Turn, Register(t)
  PROVE  Accounts'
<1>1. /\ UNCHANGED <<avail, activeTurns>>
      /\ registered' = registered \cup {t}
      /\ host[t] = "starting" /\ host' = [host EXCEPT ![t] = "waiting"]
      /\ task' = [task EXCEPT ![t] = "run"]
  BY DEF Register
<1>2. task[t] = "none"
  BY <1>1 DEF Accounts, Staged
<1>3. Admitted' = Admitted /\ Counted' = Counted
  BY <1>1, <1>2 DEF Admitted, Counted, TypeInv, TypeOK
<1>4. PermitAccounting' /\ IsFiniteSet(Admitted')
  BY <1>1, <1>3 DEF Accounts, PermitAccounting
<1>5. Staged' /\ RegistryExact'
  BY <1>1 DEF Accounts, Staged, RegistryExact, Live, TypeInv, TypeOK
<1> QED BY <1>4, <1>5 DEF Accounts

(* Until its drop, the outer task holds its permit, its count and its entry.*)
LEMMA JoinAccounts ==
  ASSUME TypeInv, Accounts, NEW t \in Turn, TaskJoin(t) \/ TaskHeal(t)
  PROVE  Accounts'
<1>1. UNCHANGED <<host, registered, avail, activeTurns>>
  BY DEF TaskJoin, TaskHeal, admit
<1>2. PICK to \in {"failing", "healing"} : task' = [task EXCEPT ![t] = to]
  BY DEF TaskJoin, TaskHeal
<1>3. task[t] \in {"run", "failing"}
  BY DEF TaskJoin, TaskHeal
<1>4. Admitted' = Admitted /\ Counted' = Counted /\ Staged' /\ RegistryExact'
  BY <1>1, <1>2, <1>3
     DEF Admitted, Counted, Accounts, Staged, RegistryExact, Live, TypeInv, TypeOK
<1> QED BY <1>1, <1>4 DEF Accounts, PermitAccounting

LEMMA UnregisterAccounts ==
  ASSUME TypeInv, Accounts, NEW t \in Turn, TaskUnregister(t)
  PROVE  Accounts'
<1>1. /\ UNCHANGED <<host, avail, activeTurns>> /\ registered' = registered \ {t}
      /\ task[t] = "healing" /\ task' = [task EXCEPT ![t] = "dropCount"]
  BY DEF TaskUnregister
<1>2. Admitted' = Admitted /\ Counted' = Counted /\ Staged' /\ RegistryExact'
  BY <1>1
     DEF Admitted, Counted, Accounts, Staged, RegistryExact, Live, TypeInv, TypeOK
<1> QED BY <1>1, <1>2 DEF Accounts, PermitAccounting

LEMMA DropCountAccounts ==
  ASSUME TypeInv, Accounts, NEW t \in Turn, TaskDropCount(t)
  PROVE  Accounts'
<1>1. /\ UNCHANGED <<host, avail, registered>> /\ activeTurns' = activeTurns - 1
      /\ task[t] = "dropCount" /\ task' = [task EXCEPT ![t] = "dropPermit"]
  BY DEF TaskDropCount
<1>2. Admitted' = Admitted /\ Staged' /\ RegistryExact'
  BY <1>1
     DEF Admitted, Accounts, Staged, RegistryExact, Live, TypeInv, TypeOK
<1>3. t \in Counted /\ Counted' = Counted \ {t}
  BY <1>1, <1>2 DEF Counted, Admitted, TypeInv, TypeOK
<1>4. Cardinality(Counted') = Cardinality(Counted) - 1
  BY <1>3, CountedFinite, FS_RemoveElement DEF Accounts
<1> QED BY <1>1, <1>2, <1>4 DEF Accounts, PermitAccounting

LEMMA DropPermitAccounts ==
  ASSUME TypeInv, Accounts, NEW t \in Turn, TaskDropPermit(t)
  PROVE  Accounts'
<1>1. /\ UNCHANGED <<host, activeTurns, registered>> /\ avail' = avail + 1
      /\ task[t] = "dropPermit" /\ task' = [task EXCEPT ![t] = "end"]
  BY DEF TaskDropPermit
<1>2. Counted' = Counted /\ Staged' /\ RegistryExact'
  BY <1>1
     DEF Counted, Admitted, Accounts, Staged, RegistryExact, Live, TypeInv, TypeOK
<1>3. t \in Admitted /\ Admitted' = Admitted \ {t}
  BY <1>1 DEF Admitted, Accounts, Staged, TypeInv, TypeOK
<1>4. /\ IsFiniteSet(Admitted')
      /\ Cardinality(Admitted') = Cardinality(Admitted) - 1
  BY <1>3, FS_RemoveElement DEF Accounts
<1>5. PermitAccounting'
  BY <1>1, <1>2, <1>4, CountedFinite
     DEF Accounts, PermitAccounting, TypeInv, TypeOK
<1> QED BY <1>2, <1>4, <1>5 DEF Accounts

LEMMA TaskAccounts ==
  ASSUME TypeInv, Accounts, NEW t \in Turn, TaskStep(t)
  PROVE  Accounts'
BY JoinAccounts, UnregisterAccounts, DropCountAccounts, DropPermitAccounts
   DEF TaskStep

LEMMA HostAccounts ==
  ASSUME TypeInv, Accounts, NEW t \in Turn,
         HostObserve(t) \/ HostTimeout(t) \/ HostGiveUp(t)
  PROVE  Accounts'
<1>1. UNCHANGED <<task, registered, avail, activeTurns>>
  BY DEF HostObserve, HostTimeout, HostGiveUp, admit
<1>2. /\ host[t] \notin {"idle", "starting"}
      /\ \E to \in {"done", "failing"} : host' = [host EXCEPT ![t] = to]
  BY DEF HostObserve, HostTimeout, HostGiveUp
<1> QED BY <1>1, <1>2, AccountsFrame DEF TypeInv, TypeOK

(* The steps of a run, of a procedure, of a handler and of recovery.        *)
LEMMA OtherAccounts ==
  ASSUME TypeInv, Accounts, NEW t \in Turn,
         \/ RunStep(t) \/ CancelRpc(t) \/ CancelReturn(t) \/ BootFail(t)
         \/ BootReturn(t)
         \/ \E c \in Caller : ProcStep(c, t)
  PROVE  Accounts'
<1>1. UNCHANGED <<host, task, registered, avail, activeTurns>>
  BY DEF RunStep, ProcStep, CancelRpc, CancelReturn, BootFail, BootReturn, admit
<1> QED BY <1>1, AccountsFrame

LEMMA CrashAccounts == Crash => Accounts'
<1> SUFFICES ASSUME Crash PROVE Accounts'
  OBVIOUS
<1>1. Admitted' = {} /\ Counted' = {}
  BY DEF Crash, Admitted, Counted
<1>2. IsFiniteSet({}) /\ Cardinality({}) = 0
  BY FS_EmptySet
<1> QED BY <1>1, <1>2, LimitAssumption
        DEF Crash, Accounts, PermitAccounting, Staged, RegistryExact, Live

LEMMA StutterAccounts == TypeInv /\ Accounts /\ (BootDone \/ UNCHANGED vars)
                           => Accounts'
<1> SUFFICES ASSUME TypeInv, Accounts, BootDone \/ UNCHANGED vars PROVE Accounts'
  OBVIOUS
<1>1. UNCHANGED <<host, task, registered, avail, activeTurns>>
  BY DEF BootDone, vars, admit
<1> QED BY <1>1, AccountsFrame

LEMMA NextAccounts == TypeInv /\ Accounts /\ [Next]_vars => Accounts'
BY AdmitAccounts, RegisterAccounts, TaskAccounts, HostAccounts, OtherAccounts,
   CrashAccounts, StutterAccounts
   DEF Next, Progress, Request

(* The inductive invariant: the types and the accounts of permits, counter  *)
(* and registry hold in every reachable state of the daemon and its hosts.  *)
THEOREM AccountsHold == Spec => [](TypeInv /\ Accounts)
BY InitType, NextInv, InitAccounts, NextAccounts, PTL DEF Spec

(* Whatever interleaving of requests, failures, timeouts and crashes, the   *)
(* free permits and the admitted turns add up to the limit, and the count   *)
(* that health reports is the number of turns not yet counted down.         *)
THEOREM PermitsAccounted == Spec => []PermitAccounting
BY AccountsHold, PTL DEF Accounts

(* The registry lists exactly the turns whose task can still write, so the  *)
(* signal on which the host's orphan watch kills a turn is never given for  *)
(* a turn that is running.                                                  *)
THEOREM OrphanSignal == Spec => []OrphanSignalSound
<1>1. Accounts => OrphanSignalSound
  BY DEF Accounts, RegistryExact, OrphanSignalSound
<1> QED BY <1>1, AccountsHold, PTL

(* supervisor.rs: "Max in-flight turns".  The turns in flight, and the count*)
(* that health reports, stay within the limit.                              *)
THEOREM WithinLimit ==
  Spec => [](Cardinality(Admitted) <= Limit /\ activeTurns <= Limit)
<1>1. TypeInv /\ Accounts
        => Cardinality(Admitted) <= Limit /\ activeTurns <= Limit
  BY LimitAssumption, CountedFinite DEF Accounts, PermitAccounting, TypeInv, TypeOK
<1> QED BY <1>1, AccountsHold, PTL

-----------------------------------------------------------------------------
(* A row that is mid-flight has somebody who is bound to put it to rest: a  *)
(* run that has not come to its last write, or a fail_turn of its task that *)
(* has not yet made up its mind.  It need not be the turn the row names:    *)
(* turns of a session overlap, and a run that rereads the session takes the *)
(* row of another turn for its own.                                         *)
Bound(t) ==
  \/ task[t] = "run" /\ pc[t] \notin {"endCp", "endEmit", "ok"}
  \/ task[t] = "failing" /\ proc["task"][t] \in {"read", "set"}

RowsBound == \A s \in Session :
  active[s].state \in MidFlight => \E t \in Turn : sess[t] = s /\ Bound(t)

RunsHaveTask == \A t \in Turn : pc[t] \notin {"none", "ok", "err"} => task[t] = "run"

BoundInv == RunsHaveTask /\ RowsBound

(* A step takes nobody from a row that stays mid-flight, and leaves no row   *)
(* mid-flight without somebody bound to it.                                 *)
BoundStep ==
  /\ \A u \in Turn : Bound(u) => /\ sess'[u] = sess[u]
                                 /\ Bound(u)' \/ active'[sess[u]].state \notin MidFlight
  /\ \A s \in Session : \/ active'[s] = active[s]
                         \/ active'[s].state \notin MidFlight
                         \/ \E u \in Turn : sess'[u] = s /\ Bound(u)'

(* What a step of a run does to the row: nothing, or it writes it and is    *)
(* not at its last write, or it puts it to rest.                            *)
LEMMA RunWrites ==
  ASSUME TypeInv, NEW t \in Turn, RunStep(t)
  PROVE  /\ \A s \in Session : s # sess[t] => active'[s] = active[s]
         /\ \A u \in Turn : u # t => pc'[u] = pc[u]
         /\ pc[t] \notin {"none", "ok", "err"}
         /\ \/ pc'[t] \notin {"endCp", "endEmit", "ok"}
            \/ active'[sess[t]].state \in Settled
            \/ pc[t] \in {"endCp", "endEmit"} /\ active' = active
<1>t. pc \in [Turn -> RunPc] /\ active \in [Session -> View] /\ sess[t] \in Session
  <2>1. pc[t] # "none"
    BY RunMoves
  <2> QED BY <2>1 DEF TypeInv, TypeOK, Placed
<1>1. ASSUME NEW st, NEW to, Write(t, st, to)
      PROVE  /\ pc' = [pc EXCEPT ![t] = to]
             /\ \A s \in Session : s # sess[t] => active'[s] = active[s]
             /\ active'[sess[t]].state = st
  BY <1>t, <1>1 DEF Write
<1>2. ASSUME NEW to, Goto(t, to) PROVE pc' = [pc EXCEPT ![t] = to]
  BY <1>2 DEF Goto
<1>3. ASSUME NEW e, Fail(t, e) PROVE pc' = [pc EXCEPT ![t] = "err"] /\ UNCHANGED active
  BY <1>3 DEF Fail, shared
<1>4. CASE RunAccept(t) \/ RunPrepare(t)
  BY <1>t, <1>1, <1>4 DEF RunAccept, RunPrepare
<1>5. CASE RunAnnounce(t) \/ RunBuild(t)
  BY <1>t, <1>2, <1>3, <1>5 DEF RunAnnounce, RunBuild, shared
<1>6. CASE RunCheckpoint(t)
  <2>1. pc' = [pc EXCEPT ![t] = AfterCp[pc[t]]] /\ UNCHANGED active /\ pc[t] \in DOMAIN AfterCp
    BY <1>2, <1>6 DEF RunCheckpoint
  <2> QED BY <1>t, <2>1 DEF AfterCp
<1>7. CASE RunLoop(t)
  BY <1>t, <1>1, <1>7 DEF RunLoop, Settled, Terminal
<1>8. CASE RunSample(t)
  BY <1>t, <1>1, <1>2, <1>3, <1>8 DEF RunSample, Settled, Terminal, shared
<1>9. CASE RunAct(t)
  BY <1>t, <1>1, <1>3, <1>9 DEF RunAct
<1>10. CASE RunReread(t)
  BY <1>t, <1>10 DEF RunReread, shared
<1>11. CASE RunRaise(t)
  BY <1>t, <1>2, <1>11 DEF RunRaise
<1>12. CASE RunPause(t)
  BY <1>t, <1>1, <1>12 DEF RunPause, Settled
<1>13. CASE RunEmit(t)
  BY <1>t, <1>2, <1>13 DEF RunEmit
<1> QED BY <1>4, <1>5, <1>6, <1>7, <1>8, <1>9, <1>10, <1>11, <1>12, <1>13 DEF RunStep

LEMMA RowsStayBound == RowsBound /\ BoundStep => RowsBound'
BY DEF RowsBound, BoundStep

LEMMA RunBound ==
  ASSUME TypeInv, RunsHaveTask, NEW t \in Turn, RunStep(t)
  PROVE  RunsHaveTask' /\ BoundStep
<1>1. UNCHANGED <<sess, task, proc>>
  BY RunFrame
<1>2. task[t] = "run"
  BY RunWrites DEF RunsHaveTask
<1>3. RunsHaveTask'
  BY <1>1, <1>2, RunWrites DEF RunsHaveTask
<1>4. \A u \in Turn : u # t /\ Bound(u) => Bound(u)'
  BY <1>1, RunWrites DEF Bound
<1>5. CASE pc'[t] \notin {"endCp", "endEmit", "ok"}
  <2>1. Bound(t)'
    BY <1>1, <1>2, <1>5 DEF Bound
  <2> QED BY <1>1, <1>3, <1>4, <2>1, RunWrites DEF BoundStep
<1>6. CASE active'[sess[t]].state \in Settled
  <2>1. active'[sess[t]].state \notin MidFlight
    BY <1>6 DEF Settled, Terminal, MidFlight
  <2>2. \A s \in Session : active'[s] = active[s] \/ active'[s].state \notin MidFlight
    BY <2>1, RunWrites
  <2> QED BY <1>1, <1>3, <1>4, <2>1, <2>2 DEF BoundStep
<1>7. CASE pc[t] \in {"endCp", "endEmit"} /\ active' = active
  <2>1. ~Bound(t)
    BY <1>2, <1>7 DEF Bound
  <2> QED BY <1>1, <1>3, <1>4, <1>7, <2>1 DEF BoundStep
<1> QED BY <1>5, <1>6, <1>7, RunWrites

(* fail_turn and heal_orphan_turn only put rows to rest, and a task leaves  *)
(* its fail_turn when it has done so or has found the row at rest.          *)
LEMMA ProcBound ==
  ASSUME TypeInv, RunsHaveTask, NEW c \in Caller, NEW t \in Turn, ProcStep(c, t)
  PROVE  RunsHaveTask' /\ BoundStep
<1>1. UNCHANGED <<sess, pc, task>>
  BY DEF ProcStep, run
<1>2. RunsHaveTask'
  BY <1>1 DEF RunsHaveTask
<1>t. /\ proc \in [Caller -> [Turn -> ProcPc]] /\ "task" \in Caller
      /\ active \in [Session -> View]
  BY DEF TypeInv, TypeOK, Caller
<1>3. \A u \in Turn : u # t => proc'["task"][u] = proc["task"][u]
  <2>1. \E to : SetProc(c, t, to)
    BY DEF ProcStep, HealRead, FailRead, FailSet, FailCheckpoint, FailEmit
  <2> QED BY <1>t, <2>1 DEF SetProc
<1>4. \A u \in Turn : u # t /\ Bound(u) => Bound(u)'
  BY <1>1, <1>3 DEF Bound
<1>5. \A s \in Session : active'[s] = active[s] \/ active'[s].state \notin MidFlight
  BY <1>t DEF ProcStep, HealRead, FailRead, FailSet, FailCheckpoint, FailEmit, shared, MidFlight
<1>6. Bound(t) => Bound(t)' \/ active'[sess[t]].state \notin MidFlight
  <2> SUFFICES ASSUME Bound(t) PROVE Bound(t)' \/ active'[sess[t]].state \notin MidFlight
    OBVIOUS
  <2>1. CASE task[t] = "run" \/ c # "task"
    <3>1. proc'["task"][t] = proc["task"][t] \/ task[t] = "run"
      BY <1>t, <2>1 DEF ProcStep, HealRead, FailRead, FailSet, FailCheckpoint, FailEmit, SetProc
    <3> QED BY <1>1, <3>1 DEF Bound
  <2>2. CASE c = "task" /\ task[t] = "failing" /\ proc["task"][t] \in {"read", "set"}
    <3>s. sess[t] \in Session
      BY <2>2 DEF TypeInv, Placed
    <3>1. CASE FailRead(c, t)
      <4>1. CASE proc'["task"][t] = "set"
        BY <1>1, <2>2, <4>1 DEF Bound
      <4>2. CASE proc'["task"][t] # "set"
        BY <1>t, <2>2, <3>1, <4>2 DEF FailRead, SetProc, shared, Settled, Terminal, MidFlight
      <4> QED BY <4>1, <4>2
    <3>2. CASE FailSet(c, t)
      BY <1>t, <3>s, <3>2 DEF FailSet, MidFlight
    <3> QED BY <2>2, <3>1, <3>2 DEF ProcStep, HealRead, FailCheckpoint, FailEmit
  <2> QED BY <2>1, <2>2 DEF Bound
<1> QED BY <1>1, <1>2, <1>4, <1>5, <1>6 DEF BoundStep

(* The task hands the row on: to its fail_turn when the run ended with an   *)
(* error; a run that ended well has put the row to rest itself.             *)
LEMMA TaskBound ==
  ASSUME TypeInv, RunsHaveTask, NEW t \in Turn, TaskStep(t)
  PROVE  RunsHaveTask' /\ BoundStep
<1>1. UNCHANGED <<sess, pc, active>>
  BY DEF TaskStep, TaskJoin, TaskHeal, TaskUnregister, TaskDropCount, TaskDropPermit,
         run, shared
<1>t. /\ proc \in [Caller -> [Turn -> ProcPc]] /\ "task" \in Caller
      /\ task \in [Turn -> TaskPc]
  BY DEF TypeInv, TypeOK, Caller
<1>2. \A u \in Turn : u # t => task'[u] = task[u] /\ proc'["task"][u] = proc["task"][u]
  BY <1>t DEF TaskStep, TaskJoin, TaskHeal, TaskUnregister, TaskDropCount, TaskDropPermit,
              SetProc
<1>3. task[t] = "run" => pc[t] \in {"ok", "err"}
  BY DEF TaskStep, TaskJoin, TaskHeal, TaskUnregister, TaskDropCount, TaskDropPermit
<1>4. RunsHaveTask'
  BY <1>1, <1>2, <1>3 DEF RunsHaveTask
<1>5. Bound(t) => Bound(t)'
  <2> SUFFICES ASSUME Bound(t) PROVE Bound(t)'
    OBVIOUS
  <2>1. TaskJoin(t) /\ pc[t] = "err"
    BY <1>3 DEF Bound, TaskStep, TaskJoin, TaskHeal, TaskUnregister, TaskDropCount, TaskDropPermit
  <2> QED BY <1>t, <2>1 DEF TaskJoin, SetProc, Bound
<1>6. \A u \in Turn : Bound(u) => Bound(u)'
  BY <1>1, <1>2, <1>5 DEF Bound
<1> QED BY <1>1, <1>4, <1>6 DEF BoundStep

(* Requests, the host and recovery do not touch a row or a task.            *)
LEMMA OtherBound ==
  ASSUME TypeInv, RunsHaveTask, NEW t \in Turn,
         \/ Register(t) \/ CancelReturn(t) \/ HostObserve(t) \/ HostGiveUp(t)
         \/ BootFail(t) \/ BootReturn(t) \/ Request(t)
  PROVE  RunsHaveTask' /\ BoundStep
<1>t. /\ proc \in [Caller -> [Turn -> ProcPc]] /\ Caller = {"task", "fail", "cancel", "boot"}
      /\ task \in [Turn -> TaskPc] /\ pc \in [Turn -> RunPc] /\ Placed
      /\ sess \in [Turn -> Session \cup {NoSession}]
  BY DEF TypeInv, TypeOK, Caller
<1>0. UNCHANGED active
  BY DEF Register, CancelReturn, HostObserve, HostGiveUp, BootFail, BootReturn, Request,
         Admit, CancelRpc, HostTimeout, shared
<1>1. \A u \in Turn : task[u] # "none" => sess'[u] = sess[u]
  BY <1>t DEF Register, CancelReturn, HostObserve, HostGiveUp, BootFail, BootReturn,
              Request, Admit, CancelRpc, HostTimeout, Placed
<1>2. \A u \in Turn : proc'["task"][u] = proc["task"][u]
  BY <1>t DEF Register, CancelReturn, HostObserve, HostGiveUp, BootFail, BootReturn,
              Request, Admit, CancelRpc, HostTimeout, SetProc
<1>3. CASE Register(t)
  <2>1. \A u \in Turn \ {t} : task'[u] = task[u] /\ pc'[u] = pc[u]
    BY <1>t, <1>3 DEF Register
  <2>2. task'[t] = "run" /\ pc'[t] = "accept"
    BY <1>t, <1>3 DEF Register
  <2>3. RunsHaveTask'
    BY <2>1, <2>2 DEF RunsHaveTask
  <2>4. \A u \in Turn : Bound(u) => Bound(u)'
    BY <1>2, <2>1, <2>2 DEF Bound
  <2> QED BY <1>0, <1>1, <2>3, <2>4 DEF BoundStep, Bound
<1>4. CASE ~Register(t)
  <2>1. UNCHANGED <<task, pc>>
    BY <1>4 DEF CancelReturn, HostObserve, HostGiveUp, BootFail, BootReturn,
                Request, Admit, CancelRpc, HostTimeout, run
  <2>2. \A u \in Turn : Bound(u) => Bound(u)'
    BY <1>2, <2>1 DEF Bound
  <2> QED BY <1>0, <1>1, <2>1, <2>2 DEF BoundStep, RunsHaveTask, Bound
<1> QED BY <1>3, <1>4

LEMMA NextBound ==
  TypeInv /\ (crashes = 0 => BoundInv) /\ [Next]_vars => (crashes = 0 => BoundInv)'
<1> SUFFICES ASSUME TypeInv, crashes = 0 => BoundInv, [Next]_vars, crashes' = 0
             PROVE  BoundInv'
  OBVIOUS
<1>1. CASE Crash
  BY <1>1 DEF Crash, TypeInv, TypeOK
<1>2. CASE BootDone \/ UNCHANGED vars
  <2>1. UNCHANGED <<active, sess, task, pc, proc, crashes>>
    BY <1>2 DEF BootDone, vars, run, shared, control
  <2> QED BY <2>1 DEF BoundInv, RunsHaveTask, RowsBound, Bound
<1>3. ASSUME NEW t \in Turn, Progress(t) \/ Request(t)
      PROVE  BoundInv'
  <2>1. crashes = 0
    BY <1>3, RunFrame
       DEF Progress, Request, Register, TaskStep, TaskJoin, TaskHeal, TaskUnregister,
           TaskDropCount, TaskDropPermit, CancelReturn, HostObserve, HostGiveUp, BootFail,
           BootReturn, ProcStep, Admit, CancelRpc, HostTimeout, control
  <2> QED BY <1>3, <2>1, RunBound, ProcBound, TaskBound, OtherBound, RowsStayBound
          DEF Progress, BoundInv
<1> QED BY <1>1, <1>2, <1>3 DEF Next

(* Until the process dies, a session whose row is in the middle has a task  *)
(* that will end it: no zombie for a poller to wait for, also when the host *)
(* gives up on turns and runs overlap on a session (heal_orphan_turn).      *)
THEOREM NoZombie == Spec => [](crashes = 0 => MidFlightHasTask)
<1>1. Init => (crashes = 0 => BoundInv)
  BY DEF Init, BoundInv, RunsHaveTask, RowsBound, NullView, MidFlight
<1>2. (crashes = 0 => BoundInv) => (crashes = 0 => MidFlightHasTask)
  BY DEF BoundInv, RowsBound, Bound, MidFlightHasTask, Live
<1> QED BY <1>1, <1>2, InitType, NextInv, NextBound, PTL DEF Spec
===============================================================================
