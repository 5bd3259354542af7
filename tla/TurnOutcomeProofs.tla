-------------------------- MODULE TurnOutcomeProofs --------------------------
(***************************************************************************)
(* Theorems about what TurnCore makes of a turn: that its end is stored,   *)
(* saved and told once, whatever crashes, cancels and other turns of the   *)
(* session come in between, and what recovery leaves behind.  They hold    *)
(* for any turns, sessions and bounds.                                     *)
(***************************************************************************)
EXTENDS TurnCoreProofs

(* Where a run works on a row that, if it is its own, is mid-flight.        *)
Flying == {"announce", "prepare", "prepareCp", "build", "loop", "reasonCp",
           "sample", "actCp", "act", "reread", "observeCp", "enqueue",
           "saveHitl", "pause"}
Ending  == {"endCp", "endEmit"}
Failing == {"read", "set", "cp", "emit"}
Over    == {"healing", "dropCount", "dropPermit", "end"}

-----------------------------------------------------------------------------
(* The stages of a turn: which of its run, its task, its fail_turn calls    *)
(* and its host are where at the same time.                                 *)
Stages(t) ==
  /\ pc[t] = "none" <=> task[t] = "none"
  /\ task[t] # "run" => pc[t] \in {"none", "ok", "err"}
  /\ task[t] = "failing" => proc["task"][t] \in Failing \cup {"back"}
  /\ task[t] = "healing" => proc["task"][t] \in Failing \cup {"heal", "back"}
  /\ task[t] \notin {"failing", "healing"} => proc["task"][t] = "off"
  /\ proc["cancel"][t] # "off" => host[t] \notin {"idle", "starting"}
  /\ proc["cancel"][t] \in Failing \cup {"heal", "back"} => ~Live(t)
  /\ proc["boot"][t] \in Failing \cup {"off", "back"}
  /\ proc["boot"][t] # "off" => t \notin todo
  /\ proc["fail"][t] # "off" => host[t] = "failing"
  /\ host[t] = "failing" => t \in contested
  /\ mode = "up" => proc["boot"][t] = "off" /\ t \notin todo
  /\ mode = "boot" => /\ task[t] = "none" /\ host[t] \notin {"starting", "failing"}
                      /\ proc["cancel"][t] \in {"off", "done"}
OneRecovery == \A t, u \in Turn :
  proc["boot"][t] # "off" /\ proc["boot"][u] # "off" => t = u

Steady == OneRecovery /\ \A t \in Turn : Stages(t)

(* What never goes back: a turn keeps its session, its host does not start  *)
(* it anew, and a turn that was contested once stays so.                    *)
LEMMA Onward ==
  ASSUME TypeInv, [Next]_vars
  PROVE  /\ contested \subseteq contested'
         /\ \A u \in Turn :
              /\ host[u] # "idle" => host'[u] # "idle" /\ sess'[u] = sess[u]
              /\ host[u] \notin {"idle", "starting"} => host'[u] \notin {"idle", "starting"}
<1>t. host \in [Turn -> HostPc] /\ sess \in [Turn -> Session \cup {NoSession}]
  BY DEF TypeInv, TypeOK
<1>1. CASE Crash \/ BootDone \/ UNCHANGED vars
  BY <1>t, <1>1 DEF Crash, BootDone, vars, past
<1>2. ASSUME NEW t \in Turn, RunStep(t) \/ \E c \in Caller : ProcStep(c, t)
      PROVE  UNCHANGED <<host, sess>> /\ contested \subseteq contested'
  BY <1>2 DEF RunStep, ProcStep, past
<1>3. ASSUME NEW t \in Turn, TaskStep(t) \/ CancelReturn(t) \/ CancelRpc(t)
                              \/ BootFail(t) \/ BootReturn(t)
      PROVE  UNCHANGED <<host, sess>> /\ contested \subseteq contested'
  BY <1>3 DEF TaskStep, TaskJoin, TaskHeal, TaskUnregister, TaskDropCount,
              TaskDropPermit, CancelReturn, CancelRpc, BootFail, BootReturn, past
<1>4. ASSUME NEW t \in Turn, Register(t) \/ HostObserve(t) \/ HostGiveUp(t)
                              \/ HostTimeout(t)
      PROVE  /\ UNCHANGED sess /\ contested \subseteq contested'
             /\ \E to \in HostPc \ {"idle", "starting"} : host' = [host EXCEPT ![t] = to]
  BY <1>4 DEF Register, HostObserve, HostGiveUp, HostTimeout, past, HostPc
<1>5. ASSUME NEW t \in Turn, NEW s \in Session, Admit(t, s)
      PROVE  /\ host[t] = "idle" /\ UNCHANGED contested
             /\ host' = [host EXCEPT ![t] = "starting"] /\ sess' = [sess EXCEPT ![t] = s]
  BY <1>5 DEF Admit
<1>6. ASSUME NEW t \in Turn, Progress(t) \/ Request(t)
      PROVE  /\ contested \subseteq contested'
             /\ \A u \in Turn :
                  /\ host[u] # "idle" => host'[u] # "idle" /\ sess'[u] = sess[u]
                  /\ host[u] \notin {"idle", "starting"}
                       => host'[u] \notin {"idle", "starting"}
  BY <1>t, <1>2, <1>3, <1>4, <1>5, <1>6 DEF Progress, Request
<1> QED BY <1>1, <1>6 DEF Next

(* Where a step of a run goes: not back to its beginning.                   *)
LEMMA RunGoesOn ==
  ASSUME TypeInv, NEW t \in Turn, RunStep(t)
  PROVE  /\ pc[t] \in {"accept"} \cup Flying \cup Ending
         /\ pc'[t] \in Flying \cup Ending \cup {"ok", "err"}
         /\ \A u \in Turn \ {t} : pc'[u] = pc[u]
<1>t. pc \in [Turn -> RunPc]
  BY DEF TypeInv, TypeOK
<1>1. CASE RunAccept(t) \/ RunPrepare(t) \/ RunLoop(t) \/ RunPause(t)
  BY <1>t, <1>1 DEF RunAccept, RunPrepare, RunLoop, RunPause, Write, Flying, Ending
<1>2. CASE RunSample(t) \/ RunAct(t) \/ RunBuild(t)
  BY <1>t, <1>2 DEF RunSample, RunAct, RunBuild, Write, Fail, Goto, Flying, Ending
<1>3. CASE RunAnnounce(t)
  BY <1>t, <1>3 DEF RunAnnounce, Fail, Goto, Flying
<1>4. CASE RunCheckpoint(t)
  <2>1. pc[t] \in {"prepareCp", "reasonCp", "actCp", "observeCp", "endCp"}
    BY <1>4 DEF RunCheckpoint, AfterCp
  <2>2. pc' = [pc EXCEPT ![t] = AfterCp[pc[t]]]
    BY <1>4 DEF RunCheckpoint, Goto
  <2>3. AfterCp[pc[t]] \in {"build", "sample", "act", "loop", "endEmit"}
    BY <2>1 DEF AfterCp
  <2> QED BY <1>t, <2>1, <2>2, <2>3 DEF Flying, Ending
<1>5. CASE RunReread(t) \/ RunRaise(t) \/ RunEmit(t)
  BY <1>t, <1>5 DEF RunReread, RunRaise, RunEmit, Goto, Flying, Ending
<1> QED BY <1>1, <1>2, <1>3, <1>4, <1>5 DEF RunStep

LEMMA StagesKept ==
  ASSUME NEW u \in Turn, Stages(u), mode' = mode, host'[u] = host[u],
         pc'[u] = pc[u], task'[u] = task[u], u \in todo' <=> u \in todo,
         \A c \in Caller : proc'[c][u] = proc[c][u],
         u \in contested => u \in contested'
  PROVE  Stages(u)'
BY DEF Stages, Live, Caller

LEMMA RunStages ==
  ASSUME TypeInv, Steady, NEW t \in Turn, RunStep(t)
  PROVE  Steady'
<1>1. /\ UNCHANGED <<host, task, proc, mode, todo>>
      /\ contested \subseteq contested'
  BY RunFrame
<1>2. ASSUME NEW u \in Turn \ {t} PROVE Stages(u)'
  BY <1>1, RunGoesOn, StagesKept DEF Steady
<1>3. Stages(t)'
  <2>1. task[t] = "run"
    BY RunGoesOn DEF Steady, Stages, Flying, Ending
  <2>2. pc'[t] # "none"
    BY RunGoesOn DEF Flying, Ending
  <2> QED BY <1>1, <2>1, <2>2 DEF Steady, Stages, Live
<1> QED BY <1>1, <1>2, <1>3 DEF Steady, OneRecovery

LEMMA ProcFrame ==
  ASSUME NEW c \in Caller, NEW t \in Turn, ProcStep(c, t)
  PROVE  UNCHANGED <<host, sess, pc, view, task, mode, todo, inbox, met, contested>>
BY DEF ProcStep, HealRead, FailRead, FailSet, FailCheckpoint, FailEmit, run,
       shared, control, past

LEMMA ProcMoves ==
  ASSUME TypeInv, NEW c \in Caller, NEW t \in Turn, ProcStep(c, t)
  PROVE  /\ proc[c][t] \in {"heal"} \cup Failing
         /\ proc'[c][t] \in Failing \cup {"back"}
         /\ \A d \in Caller, u \in Turn : d # c \/ u # t => proc'[d][u] = proc[d][u]
<1>1. proc \in [Caller -> [Turn -> ProcPc]]
  BY DEF TypeInv, TypeOK
<1>2. proc[c][t] \in {"heal"} \cup Failing
  BY DEF ProcStep, HealRead, FailRead, FailSet, FailCheckpoint, FailEmit, Failing
<1>3. \E to \in Failing \cup {"back"} : SetProc(c, t, to)
  BY DEF ProcStep, HealRead, FailRead, FailSet, FailCheckpoint, FailEmit, Failing
<1> QED BY <1>1, <1>2, <1>3 DEF SetProc

(* Who is in a fail_turn or heal_orphan_turn, and when.                     *)
LEMMA ProcStaged ==
  ASSUME TypeInv, Accounts, Steady, NEW c \in Caller, NEW t \in Turn,
         proc[c][t] \in {"heal"} \cup Failing
  PROVE  /\ c = "boot" => proc[c][t] # "heal" /\ task[t] = "none"
         /\ c = "task" => task[t] \in {"failing", "healing"}
         /\ c = "cancel" => ~Live(t) /\ host[t] \notin {"idle", "starting"}
         /\ c = "fail" => t \in contested /\ host[t] = "failing"
         /\ c # "boot" => mode = "up"
         /\ c = "boot" => mode = "boot"
<1>1. Stages(t) /\ mode \in {"up", "boot"} /\ task[t] \in TaskPc
  BY DEF Steady, TypeInv, TypeOK
<1>2. proc[c][t] \notin {"off", "done", "back"}
  BY DEF Failing
<1>3. CASE c = "task"
  BY <1>1, <1>2, <1>3 DEF Stages
<1>4. CASE c = "cancel"
  BY <1>1, <1>2, <1>4 DEF Stages, Failing
<1>5. CASE c = "fail"
  BY <1>1, <1>2, <1>5 DEF Stages
<1>6. CASE c = "boot"
  BY <1>1, <1>2, <1>6 DEF Stages, Failing
<1> QED BY <1>3, <1>4, <1>5, <1>6 DEF Caller

LEMMA ProcStages ==
  ASSUME TypeInv, Accounts, Steady, NEW c \in Caller, NEW t \in Turn, ProcStep(c, t)
  PROVE  Steady'
<1> "task" \in Caller /\ "cancel" \in Caller /\ "boot" \in Caller
    /\ "fail" \in Caller
  BY DEF Caller
<1>1. UNCHANGED <<host, pc, task, mode, todo, contested>>
  BY ProcFrame
<1>2. /\ proc[c][t] \in {"heal"} \cup Failing
      /\ proc'[c][t] \in Failing \cup {"back"}
      /\ \A d \in Caller, u \in Turn : d # c \/ u # t => proc'[d][u] = proc[d][u]
  BY ProcMoves
<1>3. ASSUME NEW u \in Turn \ {t} PROVE Stages(u)'
  BY <1>1, <1>2, StagesKept DEF Steady
<1>4. Stages(t)'
  <2>s. Stages(t) /\ proc[c][t] \notin {"off", "done", "back"}
    BY <1>2 DEF Steady, Failing
  <2>1. CASE c = "task"
    BY <1>1, <1>2, <2>1, <2>s DEF Stages, Live, Failing
  <2>2. CASE c = "cancel"
    BY <1>1, <1>2, <2>2, <2>s DEF Stages, Live, Failing
  <2>3. CASE c = "fail"
    BY <1>1, <1>2, <2>3, <2>s DEF Stages, Live
  <2>4. CASE c = "boot"
    BY <1>1, <1>2, <2>4, <2>s DEF Stages, Live, Failing
  <2> QED BY <2>1, <2>2, <2>3, <2>4 DEF Caller
<1>5. OneRecovery'
  <2>1. \A u \in Turn : proc'["boot"][u] # "off" => proc["boot"][u] # "off"
    BY <1>2 DEF Failing
  <2> QED BY <2>1 DEF OneRecovery, Steady
<1> QED BY <1>3, <1>4, <1>5 DEF Steady

(* What the outer task does, stage by stage.                                *)
LEMMA TaskMoves ==
  ASSUME TypeInv, Steady, NEW t \in Turn, TaskStep(t)
  PROVE  /\ UNCHANGED <<host, sess, pc, view, active, cp, inbox, log, mode, todo, met,
                        contested>>
         /\ \A u \in Turn \ {t} : task'[u] = task[u]
         /\ \A c \in Caller, u \in Turn : c # "task" \/ u # t => proc'[c][u] = proc[c][u]
         /\ \/ /\ task[t] = "run" /\ pc[t] = "err"
               /\ task'[t] = "failing" /\ proc'["task"][t] = "read"
            \/ /\ task[t] = "run" /\ pc[t] = "ok"
               /\ task'[t] = "healing" /\ proc'["task"][t] = "heal"
            \/ /\ task[t] = "failing" /\ proc["task"][t] = "back"
               /\ task'[t] = "healing" /\ proc'["task"][t] = "heal"
            \/ /\ task[t] \in Over /\ (task[t] = "healing" => proc["task"][t] = "back")
               /\ task'[t] \in Over \ {"healing"} /\ proc'["task"][t] = "off"
<1>t. /\ proc \in [Caller -> [Turn -> ProcPc]] /\ task \in [Turn -> TaskPc]
      /\ "task" \in Caller /\ Stages(t)
  BY DEF TypeInv, TypeOK, Caller, Steady
<1>1. UNCHANGED <<host, sess, pc, view, active, cp, inbox, log, mode, todo, met, contested>>
  BY DEF TaskStep, TaskJoin, TaskHeal, TaskUnregister, TaskDropCount,
         TaskDropPermit, run, shared, control, past
<1>2. /\ \A u \in Turn \ {t} : task'[u] = task[u]
      /\ \A c \in Caller, u \in Turn : c # "task" \/ u # t => proc'[c][u] = proc[c][u]
  BY <1>t DEF TaskStep, TaskJoin, TaskHeal, TaskUnregister, TaskDropCount,
              TaskDropPermit, SetProc
<1>3. CASE TaskJoin(t)
  BY <1>t, <1>1, <1>2, <1>3 DEF TaskJoin, SetProc
<1>4. CASE TaskHeal(t)
  BY <1>t, <1>1, <1>2, <1>4 DEF TaskHeal, SetProc
<1>5. CASE TaskUnregister(t)
  BY <1>t, <1>1, <1>2, <1>5 DEF TaskUnregister, SetProc, Over
<1>6. CASE TaskDropCount(t) \/ TaskDropPermit(t)
  BY <1>t, <1>1, <1>2, <1>6 DEF TaskDropCount, TaskDropPermit, Stages, Over
<1> QED BY <1>3, <1>4, <1>5, <1>6 DEF TaskStep

LEMMA TaskStages ==
  ASSUME TypeInv, Steady, NEW t \in Turn, TaskStep(t)
  PROVE  Steady'
<1> "task" \in Caller /\ "cancel" \in Caller /\ "boot" \in Caller
    /\ "fail" \in Caller
  BY DEF Caller
<1>1. UNCHANGED <<host, pc, mode, todo, contested>>
  BY TaskMoves
<1>2. ASSUME NEW u \in Turn \ {t} PROVE Stages(u)'
  BY <1>1, TaskMoves, StagesKept DEF Steady
<1>3. Stages(t)'
  <2>1. Stages(t)
    BY DEF Steady
  <2>2. \A c \in Caller \ {"task"} : proc'[c][t] = proc[c][t]
    BY TaskMoves
  <2>3. /\ task[t] # "none" /\ task'[t] # "none" /\ pc[t] \in {"ok", "err"}
        /\ ~Live(t) => ~Live(t)'
        /\ task'[t] \notin {"run"}
        /\ task'[t] = "failing" => proc'["task"][t] = "read"
        /\ task'[t] = "healing" => proc'["task"][t] = "heal"
        /\ task'[t] \notin {"failing", "healing"} => proc'["task"][t] = "off"
    BY <2>1, TaskMoves DEF Stages, Over, Live
  <2> QED BY <1>1, <2>1, <2>2, <2>3 DEF Stages, Failing
<1>4. OneRecovery'
  BY TaskMoves DEF OneRecovery, Steady
<1> QED BY <1>2, <1>3, <1>4 DEF Steady

LEMMA OtherStages ==
  ASSUME TypeInv, Accounts, Steady, NEW t \in Turn,
         \/ Register(t) \/ CancelReturn(t) \/ HostObserve(t) \/ HostGiveUp(t)
         \/ BootFail(t) \/ BootReturn(t) \/ Request(t)
  PROVE  Steady'
<1>c. Caller = {"task", "cancel", "boot", "fail"}
  BY DEF Caller
<1>t. /\ proc \in [Caller -> [Turn -> ProcPc]] /\ task \in [Turn -> TaskPc]
      /\ pc \in [Turn -> RunPc] /\ host \in [Turn -> HostPc] /\ mode \in {"up", "boot"}
  BY DEF TypeInv, TypeOK
<1>s. Stages(t) /\ OneRecovery /\ (task[t] # "none" => host[t] \notin {"idle", "starting"})
  BY DEF Steady, Accounts, Staged
<1>1. CASE Register(t)
  <2>1. /\ UNCHANGED <<proc, mode, todo, contested>> /\ host[t] = "starting"
        /\ host'[t] = "waiting" /\ task'[t] = "run" /\ pc'[t] = "accept"
        /\ \A u \in Turn \ {t} : /\ host'[u] = host[u] /\ task'[u] = task[u]
                                 /\ pc'[u] = pc[u]
    BY <1>t, <1>1 DEF Register, control, past
  <2>2. /\ mode = "up" /\ proc["cancel"][t] = "off" /\ task[t] = "none"
        /\ proc["fail"][t] = "off"
    BY <1>t, <1>s, <2>1 DEF Stages
  <2>3. Stages(t)'
    BY <1>s, <2>1, <2>2 DEF Stages, Live, Failing
  <2> QED BY <1>s, <2>1, <2>3, StagesKept DEF Steady, OneRecovery
<1>2. CASE HostObserve(t) \/ HostGiveUp(t) \/ HostTimeout(t)
  <2>1. /\ UNCHANGED <<task, pc, mode, todo>> /\ contested \subseteq contested'
        /\ host[t] \in {"waiting", "failing"}
        /\ \A u \in Turn \ {t} : host'[u] = host[u]
        /\ \A c \in Caller, u \in Turn : c # "fail" \/ u # t => proc'[c][u] = proc[c][u]
    BY <1>t, <1>2, <1>c DEF HostObserve, HostGiveUp, HostTimeout, run, control, past, SetProc
  <2>2. \/ host'[t] = "done" /\ proc'["fail"][t] = "off"
        \/ host'[t] = "failing" /\ mode = "up" /\ t \in contested'
    BY <1>t, <1>s, <1>2, <1>c
       DEF HostObserve, HostGiveUp, HostTimeout, past, SetProc, Stages
  <2>3. Stages(t)'
    BY <1>s, <1>c, <2>1, <2>2 DEF Stages, Live
  <2> QED BY <1>s, <1>c, <2>1, <2>3, StagesKept DEF Steady, OneRecovery
<1>3. CASE CancelReturn(t) \/ CancelRpc(t)
  <2>1. /\ UNCHANGED <<host, task, pc, mode, todo, contested>>
        /\ \A c \in Caller, u \in Turn : c # "cancel" \/ u # t => proc'[c][u] = proc[c][u]
    BY <1>t, <1>3, <1>c DEF CancelReturn, CancelRpc, run, control, past, SetProc
  <2>2. /\ host[t] \notin {"idle", "starting"}
        /\ \/ proc'["cancel"][t] = "done"
           \/ proc'["cancel"][t] = "heal" /\ mode = "up" /\ ~Live(t)
    <3>1. CASE CancelRpc(t)
      BY <1>t, <1>c, <3>1 DEF CancelRpc, SetProc, Accounts, RegistryExact
    <3>2. CASE CancelReturn(t)
      BY <1>t, <1>c, <1>s, <3>2 DEF CancelReturn, SetProc, Stages
    <3> QED BY <1>3, <3>1, <3>2
  <2>3. Stages(t)'
    BY <1>s, <1>c, <2>1, <2>2 DEF Stages, Live, Failing
  <2> QED BY <1>s, <1>c, <2>1, <2>3, StagesKept DEF Steady, OneRecovery
<1>4. CASE BootFail(t) \/ BootReturn(t)
  <2>1. /\ UNCHANGED <<host, task, pc, mode, contested>>
        /\ \A c \in Caller, u \in Turn : c # "boot" \/ u # t => proc'[c][u] = proc[c][u]
        /\ \A u \in Turn \ {t} : u \in todo' <=> u \in todo
    BY <1>t, <1>4, <1>c DEF BootFail, BootReturn, run, control, past, SetProc
  <2>2. \/ /\ mode = "boot" /\ proc'["boot"][t] = "read" /\ t \notin todo'
           /\ \A u \in Turn : proc["boot"][u] = "off"
        \/ proc'["boot"][t] = "off" /\ todo' = todo
    <3>1. CASE BootFail(t)
      BY <1>t, <1>c, <3>1 DEF BootFail, Recovering, SetProc
    <3>2. CASE BootReturn(t)
      BY <1>t, <1>c, <3>2 DEF BootReturn, SetProc, control
    <3> QED BY <1>4, <3>1, <3>2
  <2>3. Stages(t)'
    BY <1>s, <1>c, <2>1, <2>2 DEF Stages, Live, Failing
  <2>4. OneRecovery'
    BY <1>s, <1>c, <2>1, <2>2 DEF OneRecovery
  <2> QED BY <1>s, <1>c, <2>1, <2>3, <2>4, StagesKept DEF Steady
<1>5. CASE \E s \in Session : Admit(t, s)
  <2>1. /\ UNCHANGED <<task, pc, proc, mode, todo, contested>> /\ mode = "up"
        /\ host[t] = "idle" /\ host'[t] = "starting"
        /\ \A u \in Turn \ {t} : host'[u] = host[u]
    BY <1>t, <1>5 DEF Admit, run, control
  <2>2. Stages(t)'
    BY <1>s, <2>1 DEF Stages, Live
  <2> QED BY <1>s, <2>1, <2>2, StagesKept DEF Steady, OneRecovery
<1> QED BY <1>1, <1>2, <1>3, <1>4, <1>5 DEF Request

LEMMA NextStages == TypeInv /\ Accounts /\ Steady /\ [Next]_vars => Steady'
<1> SUFFICES ASSUME TypeInv, Accounts, Steady, [Next]_vars PROVE Steady'
  OBVIOUS
<1>1. CASE Crash
  <2>0. /\ mode' = "boot"
        /\ \A t \in Turn :
             /\ pc'[t] = "none" /\ task'[t] = "none"
             /\ host'[t] = IF host[t] \in {"starting", "failing"} THEN "done" ELSE host[t]
             /\ proc'["task"][t] = "off" /\ proc'["fail"][t] = "off"
             /\ proc'["boot"][t] = "off"
             /\ proc'["cancel"][t] = IF proc["cancel"][t] # "off" THEN "done" ELSE "off"
    BY <1>1 DEF Crash, Caller
  <2>1. ASSUME NEW t \in Turn PROVE Stages(t)'
    <3>1. proc["cancel"][t] # "off" => host[t] \notin {"idle", "starting"}
      BY DEF Steady, Stages
    <3> QED BY <2>0, <3>1 DEF Stages, Failing, Live
  <2> QED BY <1>1, <2>1 DEF Crash, Steady, OneRecovery, Caller
<1>2. CASE BootDone
  <2>1. /\ UNCHANGED <<host, task, pc, proc, todo, contested>> /\ mode' = "up" /\ todo = {}
        /\ \A t \in Turn : proc["boot"][t] = "off"
    BY <1>2 DEF BootDone, run, past, Recovering
  <2>2. \A t \in Turn : Stages(t)'
    BY <2>1 DEF Stages, Live, Steady
  <2> QED BY <2>1, <2>2 DEF Steady, OneRecovery
<1>3. CASE UNCHANGED vars
  BY <1>3 DEF vars, run, control, past, Steady, Stages, OneRecovery, Live
<1>4. ASSUME NEW t \in Turn, Progress(t) \/ Request(t) PROVE Steady'
  BY <1>4, RunStages, ProcStages, TaskStages, OtherStages DEF Progress
<1> QED BY <1>1, <1>2, <1>3, <1>4 DEF Next

LEMMA InitStages == Init => Steady
BY DEF Init, Steady, Stages, OneRecovery, Caller, Failing, Live

-----------------------------------------------------------------------------
(* The rows of the sessions.  A row names a turn that was started on the    *)
(* session; a run writes under the identity of its own turn or, when it is  *)
(* contested, under that of another contested turn of the session.          *)
Row(t) == active[sess[t]]

RowInv(s) ==
  /\ active[s].turn = NoTurn => active[s].state = "none"
  /\ active[s].turn # NoTurn
       => /\ sess[active[s].turn] = s /\ active[s].state # "none"
          /\ host[active[s].turn] \notin {"idle", "starting"}

Identity(t) ==
  /\ pc[t] # "none" =>
       /\ view[t].turn = t \/ (t \in contested /\ view[t].turn \in contested)
       /\ sess[view[t].turn] = sess[t]
       /\ host[view[t].turn] \notin {"idle", "starting"}
  /\ pc[t] \notin {"none", "accept"} => Row(t).turn # NoTurn
  /\ cp[t] # "none" \/ t \in todo \/ proc["boot"][t] # "off"
       => host[t] \notin {"idle", "starting"}

Rows == (\A s \in Session : RowInv(s)) /\ (\A t \in Turn : Identity(t))

(* What a step of a run does to everything that is not its turn.            *)
LEMMA RunEffect ==
  ASSUME TypeInv, NEW t \in Turn, RunStep(t)
  PROVE  /\ \A u \in Turn \ {t} : view'[u] = view[u] /\ log'[u] = log[u]
         /\ \A u \in Turn : u # view[t].turn => cp'[u] = cp[u]
         /\ inbox \subseteq inbox'
         /\ \/ UNCHANGED active /\ pc[t] # "accept"
            \/ /\ pc[t] \in {"accept"} \cup Flying
               /\ \E st \in State :
                    active' = [active EXCEPT ![sess[t]] = [turn |-> view[t].turn, state |-> st]]
         /\ \/ view'[t].turn = view[t].turn
            \/ pc[t] = "reread" /\ RunReread(t) /\ view'[t] = Row(t)
<1>t. /\ view \in [Turn -> View] /\ log \in [Turn -> Seq(Event)] /\ inbox \subseteq Turn
      /\ cp \in [Turn -> State \cup {"none"}]
  BY DEF TypeInv, TypeOK
<1> DEFINE Others == \A u \in Turn \ {t} : view'[u] = view[u]
<1>1. ASSUME NEW st \in State, NEW to, Write(t, st, to), pc[t] \in {"accept"} \cup Flying
      PROVE  /\ Others /\ UNCHANGED <<cp, log, inbox>> /\ view'[t].turn = view[t].turn
             /\ active' = [active EXCEPT ![sess[t]] = [turn |-> view[t].turn, state |-> st]]
  BY <1>t, <1>1 DEF Write
<1>2. ASSUME NEW to, Goto(t, to) PROVE Others /\ view'[t].turn = view[t].turn
  BY <1>t, <1>2 DEF Goto
<1>3. ASSUME NEW e, Fail(t, e)
      PROVE  Others /\ UNCHANGED <<active, cp, log, inbox>> /\ view'[t].turn = view[t].turn
  BY <1>t, <1>3 DEF Fail, shared
<1>a. CASE RunAccept(t) \/ RunPrepare(t) \/ RunLoop(t) \/ RunPause(t)
  <2>1. /\ pc[t] \in {"accept"} \cup Flying
        /\ \E st \in State, to \in RunPc : Write(t, st, to)
    BY <1>a DEF RunAccept, RunPrepare, RunLoop, RunPause, Flying, State, MidFlight,
                Settled, Terminal, RunPc
  <2> QED BY <2>1, <1>1
<1>b. CASE RunSample(t) \/ RunAct(t) \/ RunBuild(t)
  <2>1. /\ pc[t] \in Flying /\ pc[t] # "accept"
        /\ \/ \E st \in State, to \in RunPc : Write(t, st, to)
           \/ \E e : Fail(t, e)
           \/ UNCHANGED shared /\ \E to : Goto(t, to)
    BY <1>b DEF RunSample, RunAct, RunBuild, Flying, State, MidFlight,
                Settled, Terminal, RunPc
  <2> QED BY <2>1, <1>1, <1>2, <1>3 DEF shared
<1>c. CASE RunAnnounce(t)
  BY <1>t, <1>c, <1>2, <1>3 DEF RunAnnounce
<1>d. CASE RunCheckpoint(t)
  <2>1. pc[t] # "accept"
    BY <1>d DEF RunCheckpoint, AfterCp
  <2> QED BY <1>t, <1>d, <1>2, <2>1 DEF RunCheckpoint
<1>e. CASE RunReread(t)
  BY <1>t, <1>e DEF RunReread, shared, Row
<1>f. CASE RunRaise(t) \/ RunEmit(t)
  BY <1>t, <1>f, <1>2 DEF RunRaise, RunEmit
<1> QED BY <1>a, <1>b, <1>c, <1>d, <1>e, <1>f DEF RunStep

(* A write of a row under a turn of its session keeps the rows in order.    *)
LEMMA RowWritten ==
  ASSUME TypeInv, \A s \in Session : RowInv(s), UNCHANGED <<host, sess>>,
         NEW r \in Session, NEW u \in Turn, sess[u] = r,
         host[u] \notin {"idle", "starting"}, NEW st \in State,
         active' = [active EXCEPT ![r] = [turn |-> u, state |-> st]]
  PROVE  \A s \in Session : RowInv(s)'
<1> SUFFICES ASSUME NEW s \in Session PROVE RowInv(s)'
  OBVIOUS
<1>1. u # NoTurn /\ st # "none"
  BY NullAssumption DEF State, MidFlight, Settled, Terminal
<1>2. CASE s = r
  <2>1. active'[s] = [turn |-> u, state |-> st]
    BY <1>2 DEF TypeInv, TypeOK
  <2> QED BY <1>1, <1>2, <2>1 DEF RowInv
<1>3. CASE s # r
  <2>1. active'[s] = active[s]
    BY <1>3 DEF TypeInv, TypeOK
  <2> QED BY <2>1 DEF RowInv
<1> QED BY <1>2, <1>3

LEMMA RowsKept ==
  ASSUME TypeInv, [Next]_vars, \A s \in Session : RowInv(s), UNCHANGED active
  PROVE  \A s \in Session : RowInv(s)'
<1> SUFFICES ASSUME NEW s \in Session PROVE RowInv(s)'
  OBVIOUS
<1>1. active[s].turn \in Turn \cup {NoTurn}
  BY DEF TypeInv, TypeOK, View
<1> QED BY <1>1, Onward DEF RowInv

(* A turn whose run and checkpoint row are left alone.                      *)
LEMMA IdentityFrame ==
  ASSUME TypeInv, [Next]_vars, NEW u \in Turn, Identity(u),
         pc'[u] = "none" \/ (pc'[u] = pc[u] /\ view'[u].turn = view[u].turn),
         \A s \in Session : active'[s] = active[s] \/ active'[s].turn # NoTurn,
         cp'[u] # "none" \/ u \in todo' \/ proc'["boot"][u] # "off"
           => cp[u] # "none" \/ u \in todo \/ proc["boot"][u] # "off"
  PROVE  Identity(u)'
<1>1. /\ contested \subseteq contested' /\ contested \subseteq Turn
      /\ host[u] # "idle" => host'[u] # "idle" /\ sess'[u] = sess[u]
      /\ host[u] \notin {"idle", "starting"} => host'[u] \notin {"idle", "starting"}
      /\ pc[u] # "none" => host[u] # "idle" /\ sess[u] \in Session
  BY Onward DEF TypeInv, TypeOK, Placed
<1>2. pc[u] # "none" =>
        /\ sess'[view[u].turn] = sess[view[u].turn]
        /\ host'[view[u].turn] \notin {"idle", "starting"}
  BY <1>1, Onward DEF Identity
<1> QED BY <1>1, <1>2 DEF Identity, Row

LEMMA RunRows ==
  ASSUME TypeInv, Accounts, Steady, Rows, [Next]_vars, NEW t \in Turn, RunStep(t)
  PROVE  Rows'
<1>1. /\ UNCHANGED <<host, sess, proc, todo>>
      /\ contested' = contested \cup Confused(t)
  BY RunFrame
<1>2. /\ pc[t] \in {"accept"} \cup Flying \cup Ending
      /\ pc'[t] \in Flying \cup Ending \cup {"ok", "err"}
      /\ \A u \in Turn \ {t} : pc'[u] = pc[u]
  BY RunGoesOn
<1>3. /\ pc[t] # "none" /\ host[t] \notin {"idle"} /\ sess[t] \in Session /\ Identity(t)
      /\ RowInv(sess[t]) /\ Row(t) \in View /\ contested \subseteq Turn
  BY <1>2 DEF Flying, Ending, Rows, TypeInv, TypeOK, Placed, Row
<1> DEFINE w == view[t].turn
<1>4. /\ w \in Turn /\ sess[w] = sess[t] /\ host[w] \notin {"idle", "starting"}
      /\ w = t \/ (t \in contested /\ w \in contested)
  BY <1>3 DEF Identity
<1>5. \/ UNCHANGED active /\ pc[t] # "accept"
      \/ \E st \in State : active' = [active EXCEPT ![sess[t]] = [turn |-> w, state |-> st]]
  BY RunEffect
<1>6. \A s \in Session : RowInv(s)'
  BY <1>1, <1>3, <1>4, <1>5, RowWritten, RowsKept DEF Rows
<1>7. \A s \in Session : active'[s] = active[s] \/ active'[s].turn # NoTurn
  BY <1>3, <1>4, <1>5, NullAssumption DEF TypeInv, TypeOK
<1>8. ASSUME NEW u \in Turn \ {t} PROVE Identity(u)'
  <2>1. cp'[u] # "none" => cp[u] # "none" \/ u = w
    BY RunEffect
  <2>2. CASE cp[u] = "none" /\ cp'[u] # "none"
    <3>1. u = w /\ host[u] \notin {"idle", "starting"}
      BY <1>4, <2>1, <2>2
    <3>2. (pc'[u] # "none" => /\ view'[u].turn = u \/ (u \in contested' /\ view'[u].turn \in contested')
                              /\ sess'[view'[u].turn] = sess'[u]
                              /\ host'[view'[u].turn] \notin {"idle", "starting"})
      BY <1>1, <1>2, RunEffect DEF Rows, Identity
    <3>3. pc'[u] \notin {"none", "accept"} => Row(u)'.turn # NoTurn
      <4>1. pc[u] # "none" => sess[u] \in Session
        BY DEF TypeInv, Placed
      <4> QED BY <1>1, <1>2, <1>7, <4>1 DEF Rows, Identity, Row
    <3> QED BY <1>1, <3>1, <3>2, <3>3 DEF Identity
  <2>3. CASE cp[u] # "none" \/ cp'[u] = "none"
    BY <1>1, <1>2, <1>7, <2>3, RunEffect, IdentityFrame DEF Rows
  <2> QED BY <2>2, <2>3
<1>9. Identity(t)'
  <2>1. Row(t)'.turn # NoTurn
    <3>1. CASE UNCHANGED active /\ pc[t] # "accept"
      BY <1>1, <1>3, <3>1 DEF Identity, Row
    <3>2. CASE ~(UNCHANGED active /\ pc[t] # "accept")
      BY <1>1, <1>3, <1>4, <1>5, <3>2, NullAssumption DEF Row, TypeInv, TypeOK
    <3> QED BY <3>1, <3>2
  <2>2. host[t] \notin {"idle", "starting"}
    <3>1. task[t] # "none"
      BY <1>3 DEF Steady, Stages
    <3> QED BY <3>1 DEF Accounts, Staged
  <2>3. CASE view'[t].turn = w
    BY <1>1, <1>3, <1>4, <2>1, <2>2, <2>3 DEF Identity
  <2>4. CASE pc[t] = "reread" /\ view'[t] = Row(t)
    <3>1. /\ Row(t).turn \in Turn /\ sess[Row(t).turn] = sess[t]
          /\ host[Row(t).turn] \notin {"idle", "starting"}
      BY <1>3, <2>4 DEF Identity, RowInv, Row, View
    <3>2. Row(t).turn # t => t \in contested' /\ Row(t).turn \in contested'
      BY <1>1, <2>4, <3>1 DEF Confused, Row
    <3> QED BY <1>1, <2>1, <2>2, <2>4, <3>1, <3>2 DEF Identity
  <2> QED BY <2>3, <2>4, RunEffect
<1> QED BY <1>6, <1>8, <1>9 DEF Rows

LEMMA ProcRows ==
  ASSUME TypeInv, Accounts, Steady, Rows, [Next]_vars,
         NEW c \in Caller, NEW t \in Turn, ProcStep(c, t)
  PROVE  Rows'
<1>1. UNCHANGED <<host, sess, pc, view, todo>>
  BY ProcFrame
<1>2. host[t] \notin {"idle", "starting"} /\ sess[t] \in Session
  <2>1. proc[c][t] \in {"heal"} \cup Failing /\ Stages(t) /\ Identity(t) /\ Staged
    BY ProcMoves DEF Steady, Rows, Accounts
  <2>2. /\ c = "task" => task[t] # "none"
        /\ c = "cancel" => host[t] \notin {"idle", "starting"}
        /\ c = "fail" => host[t] = "failing"
    BY <2>1, ProcStaged DEF Failing
  <2>3. c = "boot" => proc["boot"][t] # "off"
    BY <2>1 DEF Failing
  <2>4. host[t] \notin {"idle", "starting"}
    BY <2>1, <2>2, <2>3 DEF Staged, Identity, Caller
  <2> QED BY <2>4 DEF TypeInv, Placed
<1>3. \/ UNCHANGED active
      \/ active' = [active EXCEPT ![sess[t]] = [turn |-> t, state |-> "failed"]]
  BY DEF ProcStep, HealRead, FailRead, FailSet, FailCheckpoint, FailEmit, shared
<1>4. "failed" \in State
  BY DEF State, Settled, Terminal
<1>5. \A s \in Session : RowInv(s)'
  BY <1>1, <1>2, <1>3, <1>4, RowWritten, RowsKept DEF Rows
<1>6. \A s \in Session : active'[s] = active[s] \/ active'[s].turn # NoTurn
  BY <1>2, <1>3, NullAssumption DEF TypeInv, TypeOK
<1>7. ASSUME NEW u \in Turn PROVE Identity(u)'
  <2>1. u # t => cp'[u] = cp[u] /\ proc'["boot"][u] = proc["boot"][u]
    <3>1. u # t => cp'[u] = cp[u]
      BY DEF ProcStep, HealRead, FailRead, FailSet, FailCheckpoint, FailEmit,
             shared, TypeInv, TypeOK
    <3> QED BY <3>1, ProcMoves DEF Caller
  <2>2. CASE u # t
    BY <1>1, <1>6, <2>1, <2>2, IdentityFrame DEF Rows
  <2>3. CASE u = t
    <3>1. sess[t] \in Session /\ Identity(t) /\ contested' = contested
      BY <1>2, ProcFrame DEF Rows
    <3> QED BY <1>1, <1>2, <1>6, <2>3, <3>1 DEF Identity, Row
  <2> QED BY <2>2, <2>3
<1> QED BY <1>5, <1>7 DEF Rows

(* The steps that write neither a row nor a checkpoint.                     *)
LEMMA QuietRows ==
  ASSUME TypeInv, Rows, [Next]_vars, UNCHANGED <<active, cp>>,
         \A u \in Turn :
           /\ \/ pc'[u] = "none" \/ (pc'[u] = pc[u] /\ view'[u] = view[u])
              \/ /\ pc'[u] = "accept" /\ view'[u].turn = u
                 /\ host'[u] \notin {"idle", "starting"}
           /\ u \in todo' \/ proc'["boot"][u] # "off"
                => cp[u] # "none" \/ u \in todo \/ proc["boot"][u] # "off"
  PROVE  Rows'
<1>1. \A s \in Session : RowInv(s)'
  BY RowsKept DEF Rows
<1>2. ASSUME NEW u \in Turn PROVE Identity(u)'
  <2>1. CASE pc'[u] = "accept" /\ view'[u].turn = u /\ host'[u] \notin {"idle", "starting"}
    BY <2>1 DEF Identity
  <2>2. CASE pc'[u] = "none" \/ (pc'[u] = pc[u] /\ view'[u] = view[u])
    BY <2>2, IdentityFrame DEF Rows
  <2> QED BY <2>1, <2>2
<1> QED BY <1>1, <1>2 DEF Rows

LEMMA OtherRows ==
  ASSUME TypeInv, Accounts, Steady, Rows, [Next]_vars, NEW t \in Turn,
         \/ Register(t) \/ CancelReturn(t) \/ HostObserve(t) \/ HostGiveUp(t)
         \/ BootFail(t) \/ BootReturn(t) \/ TaskStep(t) \/ Request(t)
  PROVE  Rows'
<1>t. /\ proc \in [Caller -> [Turn -> ProcPc]] /\ pc \in [Turn -> RunPc]
      /\ view \in [Turn -> View] /\ host \in [Turn -> HostPc]
      /\ Caller = {"task", "cancel", "boot", "fail"}
  BY DEF TypeInv, TypeOK, Caller
<1>1. CASE Register(t)
  <2>1. /\ UNCHANGED <<active, cp, todo, proc>> /\ pc'[t] = "accept"
        /\ view'[t].turn = t /\ host'[t] = "waiting"
        /\ \A u \in Turn \ {t} : pc'[u] = pc[u] /\ view'[u] = view[u]
    BY <1>t, <1>1 DEF Register, shared, control
  <2> QED BY <2>1, QuietRows
<1>2. CASE TaskStep(t)
  BY <1>t, <1>2, TaskMoves, QuietRows
<1>3. CASE ~Register(t) /\ ~TaskStep(t)
  <2>1. UNCHANGED <<active, cp, pc, view>>
    BY <1>3 DEF CancelReturn, HostObserve, HostGiveUp, BootFail, BootReturn, Request,
                Admit, CancelRpc, HostTimeout, run, shared
  <2>2. \A u \in Turn : u \in todo' \/ proc'["boot"][u] # "off"
                          => u \in todo \/ proc["boot"][u] # "off"
    BY <1>t, <1>3 DEF CancelReturn, HostObserve, HostGiveUp, BootFail, BootReturn, Request,
                Admit, CancelRpc, HostTimeout, control, SetProc
  <2> QED BY <2>1, <2>2, QuietRows
<1> QED BY <1>1, <1>2, <1>3

LEMMA NextRows == TypeInv /\ Accounts /\ Steady /\ Rows /\ [Next]_vars => Rows'
<1> SUFFICES ASSUME TypeInv, Accounts, Steady, Rows, [Next]_vars PROVE Rows'
  OBVIOUS
<1>1. CASE Crash
  <2>1. /\ UNCHANGED <<active, cp>>
        /\ \A u \in Turn : /\ pc'[u] = "none" /\ proc'["boot"][u] = "off"
                           /\ u \in todo' => cp[u] # "none"
    BY <1>1 DEF Crash, shared, Caller, MidFlight
  <2> QED BY <2>1, QuietRows
<1>2. CASE BootDone \/ UNCHANGED vars
  <2>1. UNCHANGED <<active, cp, pc, view, proc, todo>>
    BY <1>2 DEF BootDone, vars, run, shared, control
  <2> QED BY <2>1, QuietRows
<1>3. ASSUME NEW t \in Turn, Progress(t) \/ Request(t) PROVE Rows'
  BY <1>3, RunRows, ProcRows, OtherRows DEF Progress
<1> QED BY <1>1, <1>2, <1>3 DEF Next

LEMMA InitRows == Init => Rows
BY DEF Init, Rows, RowInv, Identity, NullView, Caller

(* The inductive invariant so far: types, accounts, stages and rows.        *)
Base == TypeInv /\ Accounts /\ Steady /\ Rows

LEMMA InitBase == Init => Base
BY InitType, InitAccounts, InitStages, InitRows DEF Base

LEMMA NextBase == Base /\ [Next]_vars => Base'
BY NextInv, NextAccounts, NextStages, NextRows DEF Base

-----------------------------------------------------------------------------
(* A turn that is not contested.  Its row may be taken over by another turn *)
(* of the session at any time, but nobody else writes it under its name.    *)
Mine(t)  == Row(t).turn = t
Quiet(t) == Mine(t) => Row(t).state \in Settled
Open(t)  == Mine(t) => Row(t).state \in MidFlight

InFlight(t) == \/ pc[t] \in Flying
               \/ pc[t] = "err" /\ task[t] = "run"
               \/ proc["task"][t] \in {"read", "set"}
               \/ proc["cancel"][t] \in {"read", "set"}

(* Who may still announce an outcome of t.                                  *)
Owes(t) == \/ pc[t] \in {"accept"} \cup Flying \cup Ending
           \/ pc[t] = "err" /\ task[t] = "run"
           \/ \E c \in Caller : proc[c][t] \in Failing

(* A turn has one writer at a time: its run, then its task's fail_turn; the *)
(* heal of its task finds nothing to do, and a cancel handler fails it only *)
(* when its task was lost in a crash.                                       *)
OneWriter(t) ==
  /\ task[t] = "healing" => proc["task"][t] \in {"heal", "back"}
  /\ proc["cancel"][t] \in Failing => task[t] = "none"

(* What the writer of a turn finds in the session's row.                    *)
Stored(t) ==
  /\ pc[t] = "accept" => ~Mine(t)
  /\ InFlight(t) => Open(t)
  /\ pc[t] \in Flying => /\ view[t].state \in MidFlight
                         /\ Mine(t) => Row(t) = view[t]
  /\ pc[t] \in Ending \cup {"ok"} => Quiet(t)
  /\ task[t] \in Over \/ proc["task"][t] = "back" => Quiet(t)
  /\ \A c \in Caller : proc[c][t] \in {"cp", "emit"} => Quiet(t)
  /\ proc["boot"][t] = "set" => (Mine(t) => Row(t).state \notin Settled)

(* What is in its checkpoint row and in the inbox.                          *)
Saved(t) ==
  /\ t \in todo => cp[t] \in MidFlight
  /\ pc[t] = "endEmit" => cp[t] = view[t].state
  /\ pc[t] = "ok" => cp[t] \in Settled
  /\ task[t] \in Over \/ proc["task"][t] = "back" => cp[t] \in Settled
  /\ \A c \in Caller : proc[c][t] = "emit" => cp[t] = "failed"
  /\ pc[t] \in {"saveHitl", "pause"} => t \in inbox
  /\ pc[t] \in Ending /\ view[t].state = "awaiting_hitl" => t \in inbox
  /\ cp[t] \in MidFlight /\ ~Quiet(t)
       => Live(t) \/ t \in todo \/ proc["boot"][t] \in {"read", "set"}

(* What its subscribers have been told.                                     *)
Told(t) ==
  /\ Owes(t) => Outcomes(t) = {}
  /\ host[t] \in {"idle", "starting"} => Outcomes(t) = {}
  /\ Outcomes(t) # {} => cp[t] \in Settled /\ Quiet(t)
  /\ Outcomes(t) = {} \/ \E i \in DOMAIN log[t] : Outcomes(t) = {i}

TurnInv(t) == OneWriter(t) /\ Stored(t) /\ Saved(t) /\ Told(t)

OutcomeInv == \A t \in Turn \ contested : TurnInv(t)

Inv == Base /\ OutcomeInv

(* A turn that does not act keeps its invariant whatever the others do to   *)
(* its session's row, short of writing it under its name.                   *)
LEMMA Bystander ==
  ASSUME TypeInv, NEW u \in Turn, TurnInv(u),
         mode' = mode, host'[u] = host[u], sess'[u] = sess[u], pc'[u] = pc[u],
         view'[u] = view[u], task'[u] = task[u], cp'[u] = cp[u], log'[u] = log[u],
         \A c \in Caller : proc'[c][u] = proc[c][u],
         u \in inbox => u \in inbox', u \in todo' <=> u \in todo,
         Row(u)' = Row(u) \/ Row(u)'.turn # u
  PROVE  TurnInv(u)'
<1> "task" \in Caller /\ "cancel" \in Caller /\ "boot" \in Caller
    /\ "fail" \in Caller
  BY DEF Caller
<1>0. InFlight(u)' = InFlight(u) /\ Owes(u)' = Owes(u) /\ Live(u)' = Live(u)
      /\ Outcomes(u)' = Outcomes(u)
  BY DEF InFlight, Owes, Live, Outcomes
<1>m. Mine(u)' => Mine(u) /\ Row(u)' = Row(u)
  BY DEF Mine, Row
<1>q. (Quiet(u) => Quiet(u)') /\ (~Quiet(u)' => ~Quiet(u)) /\ (Open(u) => Open(u)')
  BY <1>m DEF Quiet, Open
<1>1. OneWriter(u)'
  BY DEF TurnInv, OneWriter
<1>2. Stored(u)'
  BY <1>0, <1>q, <1>m DEF TurnInv, Stored
<1>3. Saved(u)'
  BY <1>0, <1>q DEF TurnInv, Saved
<1>4. Told(u)'
  BY <1>0, <1>q DEF TurnInv, Told
<1> QED BY <1>1, <1>2, <1>3, <1>4 DEF TurnInv

(* A turn that has not been admitted is at rest.                            *)
LEMMA IdleKept ==
  ASSUME Base, NEW u \in Turn, TurnInv(u), host[u] = "idle", UNCHANGED mode,
         host'[u] \in {"idle", "starting"}, pc'[u] = pc[u],
         view'[u] = view[u], task'[u] = task[u], cp'[u] = cp[u], log'[u] = log[u],
         \A c \in Caller : proc'[c][u] = proc[c][u], u \in todo' <=> u \in todo
  PROVE  TurnInv(u)'
<1> "task" \in Caller /\ "cancel" \in Caller /\ "boot" \in Caller
    /\ "fail" \in Caller
  BY DEF Caller
<1>s. Stages(u) /\ Identity(u) /\ Placed /\ Staged
  BY DEF Base, Steady, Rows, TypeInv, Accounts
<1>1. /\ pc[u] = "none" /\ task[u] = "none" /\ cp[u] = "none" /\ u \notin todo
      /\ Outcomes(u) = {} /\ \A c \in Caller : proc[c][u] = "off"
  BY <1>s DEF Placed, TurnInv, Stages, Identity, Told, Caller
<1>2. ~InFlight(u)' /\ ~Owes(u)' /\ ~Live(u)' /\ Outcomes(u)' = {}
  BY <1>1 DEF InFlight, Owes, Live, Outcomes, Flying, Ending, Failing
<1>3. OneWriter(u)'
  BY <1>1 DEF OneWriter, Failing
<1>4. Stored(u)'
  BY <1>1, <1>2 DEF Stored, Flying, Ending, Over
<1>5. Saved(u)'
  BY <1>1, <1>2 DEF Saved, Ending, Over, MidFlight
<1>6. Told(u)'
  BY <1>1, <1>2 DEF TurnInv, Told
<1> QED BY <1>3, <1>4, <1>5, <1>6 DEF TurnInv

-----------------------------------------------------------------------------
(* A step of a run.                                                         *)

LEMMA RunAlone ==
  ASSUME Base, NEW t \in Turn, RunStep(t)
  PROVE  /\ pc[t] \in {"accept"} \cup Flying \cup Ending
         /\ task[t] = "run" /\ mode = "up" /\ t \notin todo
         /\ \A c \in Caller : proc[c][t] \in {"off", "done"} \/ (c = "fail" /\ t \in contested)
         /\ t \notin contested => view[t].turn = t
         /\ host[t] \notin {"idle", "starting"} /\ sess[t] \in Session
<1>1. pc[t] \in {"accept"} \cup Flying \cup Ending
  BY RunGoesOn DEF Base
<1>2. Stages(t) /\ Identity(t) /\ TypeOK
  BY DEF Base, Steady, Rows, TypeInv
<1>3. task[t] = "run" /\ pc[t] # "none"
  BY <1>1, <1>2 DEF Stages, Flying, Ending
<1>4. Live(t) /\ mode = "up"
  BY <1>2, <1>3 DEF Stages, Live, TypeOK
<1>5. /\ proc["task"][t] = "off" /\ proc["boot"][t] = "off" /\ t \notin todo
      /\ proc["fail"][t] = "off" \/ t \in contested
      /\ proc["cancel"][t] \in {"off", "done"}
  BY <1>2, <1>3, <1>4 DEF Stages, Failing, Caller, ProcPc, TypeOK
<1>6. t \notin contested => view[t].turn = t
  BY <1>2, <1>3 DEF Identity
<1>7. host[t] \notin {"idle", "starting"} /\ sess[t] \in Session
  BY <1>3 DEF Base, Accounts, Staged, TypeInv, Placed
<1> QED BY <1>1, <1>3, <1>4, <1>5, <1>6, <1>7 DEF Caller

LEMMA RunSilent ==
  ASSUME Inv, NEW t \in Turn \ contested, RunStep(t)
  PROVE  Outcomes(t) = {}
BY RunAlone DEF Inv, OutcomeInv, TurnInv, Told, Owes

(* Where a step of a run may leave its turn.                                *)
LEMMA RunResult ==
  ASSUME Inv, NEW t \in Turn \ contested, RunStep(t), TypeInv',
         pc'[t] \in Flying \cup Ending \cup {"ok", "err"},
         pc'[t] \in Flying \cup {"err"} => Open(t)',
         pc'[t] \in Flying => /\ view'[t].state \in MidFlight
                              /\ Mine(t)' => Row(t)' = view'[t],
         pc'[t] \in Ending \cup {"ok"} => Quiet(t)',
         pc'[t] = "endEmit" => cp'[t] = view'[t].state,
         pc'[t] = "ok" => cp'[t] \in Settled,
         pc'[t] \in {"saveHitl", "pause"} => t \in inbox',
         pc'[t] \in Ending /\ view'[t].state = "awaiting_hitl" => t \in inbox',
         pc'[t] # "ok" => Outcomes(t)' = {},
         pc'[t] = "ok" => \E i \in DOMAIN log'[t] : Outcomes(t)' = {i}
  PROVE  TurnInv(t)'
<1>0. /\ UNCHANGED <<host, sess, task, proc, mode, todo>>
      /\ task[t] = "run" /\ mode = "up" /\ t \notin todo
      /\ \A c \in Caller : proc[c][t] \in {"off", "done"}
      /\ host[t] \notin {"idle", "starting"}
  BY RunFrame, RunAlone DEF Inv
<1>1. OneWriter(t)'
  BY <1>0 DEF OneWriter, Failing, Caller
<1>2. Stored(t)'
  <2>1. InFlight(t)' => pc'[t] \in Flying \cup {"err"}
    BY <1>0 DEF InFlight, Caller
  <2>2. pc'[t] \notin {"none", "accept"}
    BY DEF Flying, Ending
  <2> QED BY <1>0, <2>1, <2>2 DEF Stored, Over, Caller
<1>3. Saved(t)'
  BY <1>0 DEF Saved, Live, Over, Caller
<1>4. Told(t)'
  <2>1. pc'[t] = "ok" => ~Owes(t)'
    BY <1>0 DEF Owes, Flying, Ending, Failing
  <2>2. pc'[t] = "ok" => Quiet(t)' /\ cp'[t] \in Settled
    OBVIOUS
  <2> QED BY <1>0, <2>1, <2>2 DEF Told
<1> QED BY <1>1, <1>2, <1>3, <1>4 DEF TurnInv

(* A write of the run's own turn, mid-flight or at its end.                 *)
LEMMA WriteResult ==
  ASSUME Inv, NEW t \in Turn \ contested, RunStep(t), TypeInv',
         pc[t] \in {"accept"} \cup Flying, NEW st \in State, NEW to,
         Write(t, st, to),
         \/ st \in MidFlight /\ to \in Flying \ {"saveHitl", "pause"}
         \/ /\ st \in Settled /\ to = "endCp"
            /\ st = "awaiting_hitl" => t \in inbox
  PROVE  /\ TurnInv(t)'
         /\ active' = [active EXCEPT ![sess[t]] = [turn |-> t, state |-> st]]
         /\ UNCHANGED <<cp, log, inbox>>
<1> DEFINE v == [turn |-> t, state |-> st]
<1>1. /\ view[t].turn = t /\ sess[t] \in Session /\ UNCHANGED <<host, sess>>
      /\ Outcomes(t) = {}
  BY RunAlone, RunSilent, RunFrame DEF Inv
<1>2. /\ active' = [active EXCEPT ![sess[t]] = v] /\ view'[t] = v
      /\ pc'[t] = to /\ UNCHANGED <<cp, log, inbox>>
  BY <1>1 DEF Write, Inv, Base, TypeInv, TypeOK
<1>3. Row(t)' = v
  BY <1>1, <1>2 DEF Row, Inv, Base, TypeInv, TypeOK
<1>5. Outcomes(t)' = {}
  BY <1>1, <1>2 DEF Outcomes
<1>6. CASE st \in MidFlight /\ to \in Flying \ {"saveHitl", "pause"}
  <2>1. Open(t)'
    BY <1>3, <1>6 DEF Open
  <2>2. to \notin Ending \cup {"ok"}
    BY <1>6 DEF Flying, Ending
  <2>3. TurnInv(t)'
    BY <1>2, <1>3, <1>5, <1>6, <2>1, <2>2, RunResult DEF Ending
  <2> QED BY <1>2, <2>3
<1>7. CASE st \in Settled /\ to = "endCp" /\ (st = "awaiting_hitl" => t \in inbox)
  <2>1. Quiet(t)'
    BY <1>3, <1>7 DEF Quiet, Mine
  <2>2. to \notin Flying /\ to \in Ending
    BY <1>7 DEF Flying, Ending
  <2>3. TurnInv(t)'
    BY <1>2, <1>3, <1>5, <1>7, <2>1, <2>2, RunResult
  <2> QED BY <1>2, <2>3
<1> QED BY <1>6, <1>7

(* A step in flight that leaves the row alone.                              *)
LEMMA InFlightResult ==
  ASSUME Inv, NEW t \in Turn \ contested, RunStep(t), TypeInv', pc[t] \in Flying,
         pc'[t] \in Flying \cup {"err"}, view'[t] = view[t], UNCHANGED active,
         Outcomes(t)' = {},
         pc'[t] \in {"saveHitl", "pause"} => t \in inbox'
  PROVE  TurnInv(t)'
<1>1. UNCHANGED <<host, sess>>
  BY RunFrame
<1>2. Open(t) /\ view[t].state \in MidFlight /\ (Mine(t) => Row(t) = view[t])
  BY DEF Inv, OutcomeInv, TurnInv, Stored, InFlight
<1>3. /\ Open(t)' /\ view'[t].state \in MidFlight
      /\ Mine(t)' => Row(t)' = view'[t]
  BY <1>1, <1>2 DEF Open, Mine, Row
<1>4. pc'[t] \notin Ending \cup {"ok"}
  BY DEF Flying, Ending
<1> QED BY <1>1, <1>3, <1>4, RunResult DEF Ending

LEMMA FailResult ==
  ASSUME Inv, NEW t \in Turn \ contested, RunStep(t), TypeInv', pc[t] \in Flying,
         NEW error, Fail(t, error)
  PROVE  TurnInv(t)' /\ UNCHANGED <<active, cp, log, inbox>>
<1>1. /\ pc'[t] = "err" /\ view'[t] = view[t]
      /\ UNCHANGED <<active, cp, log, inbox>>
  BY DEF Fail, shared, Inv, Base, TypeInv, TypeOK
<1>2. Outcomes(t)' = {}
  BY <1>1, RunSilent DEF Outcomes
<1> QED BY <1>1, <1>2, InFlightResult

LEMMA GotoResult ==
  ASSUME Inv, NEW t \in Turn \ contested, RunStep(t), TypeInv', pc[t] \in Flying,
         NEW to \in Flying, Goto(t, to), UNCHANGED active, Outcomes(t)' = {},
         to \in {"saveHitl", "pause"} => t \in inbox'
  PROVE  TurnInv(t)'
<1>1. pc'[t] = to /\ view'[t] = view[t]
  BY DEF Goto, Inv, Base, TypeInv, TypeOK
<1> QED BY <1>1, InFlightResult

LEMMA RunTurn ==
  ASSUME Inv, NEW t \in Turn \ contested, RunStep(t), TypeInv', t \notin contested'
  PROVE  TurnInv(t)'
<1>0. /\ view[t].turn = t /\ sess[t] \in Session /\ UNCHANGED <<host, sess>>
      /\ Outcomes(t) = {} /\ view[t] \in View /\ log[t] \in Seq(Event)
  BY RunAlone, RunSilent, RunFrame DEF Inv, Base, TypeInv, TypeOK
<1>s. Stored(t) /\ Saved(t)
  BY DEF Inv, OutcomeInv, TurnInv
<1>a. CASE RunAccept(t) \/ RunPrepare(t)
  <2>1. pc[t] \in {"accept"} \cup Flying
    BY <1>a DEF RunAccept, RunPrepare, Flying
  <2>2. \E st \in MidFlight, to \in Flying \ {"saveHitl", "pause"} : Write(t, st, to)
    BY <1>a DEF RunAccept, RunPrepare, MidFlight, Flying
  <2> QED BY <2>1, <2>2, WriteResult DEF State
<1>b. CASE RunAnnounce(t)
  <2>1. pc[t] \in Flying
    BY <1>b DEF RunAnnounce, Flying
  <2>2. CASE Fail(t, "error")
    BY <2>1, <2>2, FailResult
  <2>3. CASE /\ log' = [log EXCEPT ![t] = Append(@, "started")]
             /\ Goto(t, "prepare") /\ UNCHANGED <<active, cp, inbox>>
    <3>1. log'[t] = Append(log[t], "started") /\ "started" \notin Settled
      BY <2>3 DEF Settled, Terminal, Inv, Base, TypeInv, TypeOK
    <3>2. Outcomes(t)' = {}
      BY <1>0, <3>1 DEF Outcomes
    <3> QED BY <2>1, <2>3, <3>2, GotoResult DEF Flying
  <2> QED BY <1>b, <2>2, <2>3 DEF RunAnnounce
<1>c. CASE RunCheckpoint(t)
  <2>1. /\ cp'[t] = view[t].state /\ UNCHANGED <<active, inbox, log>>
        /\ pc'[t] = AfterCp[pc[t]] /\ view'[t] = view[t]
        /\ pc[t] \in {"prepareCp", "reasonCp", "actCp", "observeCp", "endCp"}
        /\ Goto(t, AfterCp[pc[t]])
    BY <1>c, <1>0 DEF RunCheckpoint, AfterCp, Goto, Inv, Base, TypeInv, TypeOK
  <2>2. Outcomes(t)' = {}
    BY <1>0, <2>1 DEF Outcomes
  <2>3. CASE pc[t] = "endCp"
    <3>1. pc'[t] = "endEmit"
      BY <2>1, <2>3 DEF AfterCp
    <3>2. Quiet(t)'
      BY <1>0, <1>s, <2>1, <2>3 DEF Stored, Quiet, Mine, Row, Ending
    <3>3. view[t].state = "awaiting_hitl" => t \in inbox
      BY <1>s, <2>3 DEF Saved, Ending
    <3> QED BY <1>0, <2>1, <2>2, <3>1, <3>2, <3>3, RunResult DEF Flying, Ending
  <2>4. CASE pc[t] # "endCp"
    <3>1. pc[t] \in Flying /\ AfterCp[pc[t]] \in Flying \ {"saveHitl", "pause"}
      BY <2>1, <2>4 DEF AfterCp, Flying
    <3> QED BY <2>1, <2>2, <3>1, GotoResult
  <2> QED BY <2>3, <2>4
<1>d. CASE RunBuild(t)
  <2>1. pc[t] \in Flying
    BY <1>d DEF RunBuild, Flying
  <2>2. CASE Goto(t, "loop") /\ UNCHANGED shared
    <3>1. Outcomes(t)' = {}
      BY <1>0, <2>2 DEF Outcomes, shared
    <3> QED BY <2>1, <2>2, <3>1, GotoResult DEF shared, Flying
  <2> QED BY <1>d, <2>1, <2>2, FailResult DEF RunBuild
<1>e. CASE RunLoop(t)
  <2>1. pc[t] \in Flying
    BY <1>e DEF RunLoop, Flying
  <2>2. \/ \E st \in {"cancelled", "completed"} : Write(t, st, "endCp")
        \/ Write(t, "reasoning", "reasonCp")
    BY <1>e DEF RunLoop
  <2> QED BY <2>1, <2>2, WriteResult DEF State, MidFlight, Settled, Terminal, Flying
<1>f. CASE RunSample(t)
  <2>1. pc[t] \in Flying
    BY <1>f DEF RunSample, Flying
  <2>2. CASE Goto(t, "enqueue") /\ UNCHANGED shared
    <3>1. Outcomes(t)' = {}
      BY <1>0, <2>2 DEF Outcomes, shared
    <3> QED BY <2>1, <2>2, <3>1, GotoResult DEF shared, Flying
  <2>3. CASE \/ \E st \in {"cancelled", "completed"} : Write(t, st, "endCp")
             \/ Write(t, "acting", "actCp")
    BY <2>1, <2>3, WriteResult DEF State, MidFlight, Settled, Terminal, Flying
  <2> QED BY <1>f, <2>1, <2>2, <2>3, FailResult DEF RunSample
<1>g. CASE RunAct(t)
  <2>1. pc[t] \in Flying
    BY <1>g DEF RunAct, Flying
  <2>2. CASE Write(t, "observing", "reread")
    BY <2>1, <2>2, WriteResult DEF State, MidFlight, Flying
  <2> QED BY <1>g, <2>1, <2>2, FailResult DEF RunAct
<1>h. CASE RunReread(t)
  <2>0. Row(t).turn = t
    <3>1. Confused(t) = {}
      BY RunFrame DEF Confused
    <3> QED BY <1>h, <3>1 DEF RunReread, Confused, Row
  <2>1. pc[t] \in Flying /\ Row(t) = view[t]
    BY <1>h, <1>s, <2>0 DEF RunReread, Flying, Stored, Mine
  <2>2. /\ view'[t] = view[t] /\ pc'[t] = "observeCp" /\ UNCHANGED <<active, log>>
    BY <1>h, <2>1 DEF RunReread, Row, shared, Inv, Base, TypeInv, TypeOK
  <2>3. Outcomes(t)' = {}
    BY <1>0, <2>2 DEF Outcomes
  <2> QED BY <2>1, <2>2, <2>3, InFlightResult DEF Flying
<1>i. CASE RunRaise(t)
  <2>1. /\ pc[t] \in Flying /\ UNCHANGED <<active, log>> /\ t \in inbox'
        /\ \E to \in {"saveHitl", "pause"} : Goto(t, to)
    BY <1>i DEF RunRaise, Flying
  <2>2. Outcomes(t)' = {}
    BY <1>0, <2>1 DEF Outcomes
  <2> QED BY <2>1, <2>2, GotoResult DEF Flying
<1>j. CASE RunPause(t)
  <2>1. pc[t] \in Flying /\ t \in inbox /\ Write(t, "awaiting_hitl", "endCp")
    BY <1>j, <1>s DEF RunPause, Flying, Saved
  <2> QED BY <2>1, WriteResult DEF State, Settled
<1>k. CASE RunEmit(t)
  <2>1. /\ log'[t] = Append(log[t], view[t].state) /\ pc'[t] = "ok"
        /\ view'[t] = view[t] /\ UNCHANGED <<active, cp, inbox>>
        /\ pc[t] = "endEmit"
    BY <1>k DEF RunEmit, Goto, Inv, Base, TypeInv, TypeOK
  <2>2. view[t].state \in Settled /\ cp[t] = view[t].state
    BY <1>s, <2>1 DEF Saved, Inv, Base, TypeInv, ReadyToEmit
  <2>3. Outcomes(t)' = {Len(log[t]) + 1} /\ Len(log[t]) + 1 \in DOMAIN log'[t]
    BY <1>0, <2>1, <2>2 DEF Outcomes
  <2>4. Quiet(t)'
    BY <1>0, <1>s, <2>1 DEF Stored, Quiet, Mine, Row, Ending
  <2> QED BY <1>0, <2>1, <2>2, <2>3, <2>4, RunResult DEF Flying, Ending
<1> QED BY <1>a, <1>b, <1>c, <1>d, <1>e, <1>f, <1>g, <1>h, <1>i, <1>j, <1>k DEF RunStep

(* A row written under another turn is no concern of u.                     *)
LEMMA WriteSpares ==
  ASSUME TypeInv, NEW u \in Turn, host[u] # "idle", UNCHANGED sess,
         NEW s \in Session, NEW v, v.turn # u, active' = [active EXCEPT ![s] = v]
  PROVE  Row(u)' = Row(u) \/ Row(u)'.turn # u
<1>1. sess[u] \in Session /\ active \in [Session -> View]
  BY DEF TypeInv, TypeOK, Placed
<1> QED BY <1>1 DEF Row

LEMMA RunOutcome ==
  ASSUME Inv, NEW t \in Turn, RunStep(t), TypeInv'
  PROVE  OutcomeInv'
<1>1. /\ UNCHANGED <<host, sess, task, proc, mode, todo>>
      /\ contested \subseteq contested' /\ sess[t] \in Session
  BY RunFrame, RunAlone DEF Inv
<1>2. ASSUME NEW u \in Turn, u \notin contested' PROVE TurnInv(u)'
  <2>0. u \notin contested /\ TurnInv(u)
    BY <1>1, <1>2 DEF Inv, OutcomeInv
  <2>1. CASE u = t
    BY <1>2, <2>0, <2>1, RunTurn
  <2>2. CASE u # t
    <3>0. view[t].turn # u
      BY <2>0, <2>2, RunAlone DEF Inv, Base, Rows, Identity, Flying, Ending
    <3>1. /\ pc'[u] = pc[u] /\ view'[u] = view[u] /\ cp'[u] = cp[u]
          /\ log'[u] = log[u] /\ inbox \subseteq inbox'
      BY <2>2, <3>0, RunEffect, RunGoesOn DEF Inv, Base
    <3>2. CASE host[u] = "idle"
      BY <1>1, <2>0, <3>1, <3>2, IdleKept DEF Inv
    <3>3. CASE host[u] # "idle"
      <4>1. Row(u)' = Row(u) \/ Row(u)'.turn # u
        <5>1. CASE UNCHANGED active
          BY <1>1, <5>1 DEF Row
        <5>2. CASE \E st \in State :
               active' = [active EXCEPT ![sess[t]] = [turn |-> view[t].turn, state |-> st]]
          <6>1. PICK st \in State :
               active' = [active EXCEPT ![sess[t]] = [turn |-> view[t].turn, state |-> st]]
            BY <5>2
          <6> DEFINE v == [turn |-> view[t].turn, state |-> st]
          <6>2. v.turn # u /\ active' = [active EXCEPT ![sess[t]] = v]
            BY <3>0, <6>1
          <6> HIDE DEF v
          <6> QED BY <1>1, <3>3, <6>2, WriteSpares DEF Inv, Base
        <5> QED BY <5>1, <5>2, RunEffect DEF Inv, Base
      <4> QED BY <1>1, <2>0, <3>1, <4>1, Bystander DEF Inv, Base
    <3> QED BY <3>2, <3>3
  <2> QED BY <2>1, <2>2
<1> QED BY <1>2 DEF OutcomeInv

-----------------------------------------------------------------------------
(* A step of fail_turn or heal_orphan_turn.                                 *)

LEMMA ProcAlone ==
  ASSUME Inv, NEW c \in Caller, NEW t \in Turn \ contested,
         proc[c][t] \in {"heal"} \cup Failing
  PROVE  /\ c \in {"task", "cancel", "boot"} /\ (c = "boot" => proc[c][t] # "heal")
         /\ \A d \in Caller \ {c} : proc[d][t] \in {"off", "done"}
         /\ pc[t] \in {"none", "ok", "err"} /\ task[t] # "run" /\ t \notin todo
         /\ host[t] \notin {"idle", "starting"}
         /\ c = "task" => task[t] = IF proc[c][t] = "heal" THEN "healing" ELSE "failing"
         /\ c = "cancel" => ~Live(t) /\ (proc[c][t] # "heal" => task[t] = "none")
         /\ c = "boot" => task[t] = "none"
         /\ mode = IF c = "boot" THEN "boot" ELSE "up"
<1>1. /\ OneWriter(t) /\ Stages(t) /\ Staged
      /\ "cancel" \in Caller /\ proc \in [Caller -> [Turn -> ProcPc]]
  BY DEF Inv, OutcomeInv, TurnInv, Base, Steady, Accounts, TypeInv, TypeOK, Caller
<1>2. proc[c][t] \notin {"off", "done", "back"}
  BY DEF Failing
<1>3. /\ c = "boot" => proc[c][t] # "heal" /\ task[t] = "none"
      /\ c = "task" => task[t] \in {"failing", "healing"}
      /\ c = "cancel" => ~Live(t) /\ host[t] \notin {"idle", "starting"}
      /\ c # "fail"
      /\ mode = IF c = "boot" THEN "boot" ELSE "up"
  BY ProcStaged DEF Inv, Base
<1>4. proc["fail"][t] = "off"
  BY <1>1 DEF Stages
<1>5. CASE c = "task"
  <2>1. task[t] = IF proc[c][t] = "heal" THEN "healing" ELSE "failing"
    BY <1>1, <1>2, <1>3, <1>5 DEF Stages, OneWriter, Failing
  <2>2. proc["cancel"][t] \in {"off", "done"}
    BY <1>1, <1>3, <1>5 DEF Stages, Live, ProcPc, Failing
  <2> QED BY <1>1, <1>3, <1>4, <1>5, <2>1, <2>2 DEF Stages, Staged, Caller
<1>6. CASE c = "cancel"
  <2>1. proc["task"][t] = "off" /\ task[t] # "run"
    BY <1>1, <1>3, <1>6 DEF Stages, Live
  <2> QED BY <1>1, <1>3, <1>4, <1>6, <2>1 DEF Stages, OneWriter, Caller, Failing
<1>7. CASE c = "boot"
  <2>1. host[t] \notin {"idle", "starting"}
    BY <1>2, <1>7 DEF Inv, Base, Rows, Identity
  <2> QED BY <1>1, <1>2, <1>3, <1>4, <1>7, <2>1 DEF Stages, Caller
<1> QED BY <1>3, <1>5, <1>6, <1>7 DEF Caller

(* Where such a step may leave its turn.                                    *)
LEMMA ProcResult ==
  ASSUME Inv, NEW c \in Caller, NEW t \in Turn \ contested, ProcStep(c, t), TypeInv',
         proc[c][t] \in {"heal"} \cup Failing,
         NEW to \in Failing \cup {"back"}, SetProc(c, t, to),
         to \in Failing /\ c # "boot" => proc[c][t] # "heal" \/ task[t] = "none",
         to \in Failing /\ c = "task" => task[t] = "failing",
         to \in {"read", "set"} /\ c # "boot" => Open(t)',
         to = "set" /\ c = "boot" => (Mine(t)' => Row(t)'.state \notin Settled),
         to \in {"cp", "emit"} => Quiet(t)',
         to = "back" /\ c = "task" => Quiet(t)' /\ cp'[t] \in Settled,
         to = "emit" => cp'[t] = "failed",
         task[t] \in Over => Quiet(t)' /\ cp'[t] \in Settled,
         pc[t] = "ok" => Quiet(t)' /\ cp'[t] \in Settled,
         cp'[t] \in MidFlight /\ ~Quiet(t)'
           => Live(t) \/ (c = "boot" /\ to \in {"read", "set"}),
         to # "back" => Outcomes(t)' = {},
         Outcomes(t)' # {} => cp'[t] \in Settled /\ Quiet(t)',
         Outcomes(t)' = {} \/ \E i \in DOMAIN log'[t] : Outcomes(t)' = {i}
  PROVE  TurnInv(t)'
<1> "task" \in Caller /\ "cancel" \in Caller /\ "boot" \in Caller
    /\ "fail" \in Caller
  BY DEF Caller
<1>0. UNCHANGED <<host, sess, pc, view, task, mode, todo, inbox>>
  BY ProcFrame
<1>1. /\ c \in {"task", "cancel", "boot"}
      /\ \A d \in Caller \ {c} : proc[d][t] \in {"off", "done"}
      /\ pc[t] \in {"none", "ok", "err"} /\ task[t] # "run" /\ t \notin todo
      /\ host[t] \notin {"idle", "starting"}
      /\ c = "task" => task[t] = IF proc[c][t] = "heal" THEN "healing" ELSE "failing"
      /\ c = "cancel" => ~Live(t) /\ (proc[c][t] # "heal" => task[t] = "none")
      /\ c = "boot" => task[t] = "none"
      /\ mode = IF c = "boot" THEN "boot" ELSE "up"
  BY ProcAlone
<1>2. /\ proc'[c][t] = to
      /\ \A d \in Caller \ {c} : proc'[d][t] = proc[d][t]
  BY DEF SetProc, Inv, Base, TypeInv, TypeOK
<1>p. OneWriter(t) /\ Saved(t) /\ Stored(t)
  BY DEF Inv, OutcomeInv, TurnInv
<1>3. OneWriter(t)'
  <2>1. CASE c = "task"
    <3>1. task[t] = "healing" => to = "back"
      BY <1>1, <2>1
    <3> QED BY <1>0, <1>1, <1>2, <1>p, <2>1, <3>1 DEF OneWriter, Failing
  <2>2. CASE c # "task"
    <3>1. c = "cancel" /\ to \in Failing => task[t] = "none"
      BY <1>1
    <3> QED BY <1>0, <1>1, <1>2, <1>p, <2>2, <3>1 DEF OneWriter, Failing
  <2> QED BY <2>1, <2>2
<1>4. Stored(t)'
  <2>1. InFlight(t)' => to \in {"read", "set"} /\ c # "boot"
    BY <1>0, <1>1, <1>2 DEF InFlight, Flying
  <2>2. pc[t] \notin {"accept"} \cup Flying \cup Ending
    BY <1>1 DEF Flying, Ending
  <2>3. proc'["task"][t] = "back" => c = "task" /\ to = "back"
    BY <1>1, <1>2
  <2>4. \A d \in Caller : proc'[d][t] \in {"cp", "emit"} => d = c
    BY <1>1, <1>2
  <2>5. proc'["boot"][t] = "set" => c = "boot" /\ to = "set"
    BY <1>1, <1>2
  <2> QED BY <1>0, <1>2, <1>p, <2>1, <2>2, <2>3, <2>4, <2>5 DEF Stored
<1>5. Saved(t)'
  <2>1. pc[t] \notin Ending \cup {"saveHitl", "pause"}
    BY <1>1 DEF Ending
  <2>2. proc'["task"][t] = "back" => c = "task" /\ to = "back"
    BY <1>1, <1>2
  <2>3. \A d \in Caller : proc'[d][t] = "emit" => d = c
    BY <1>1, <1>2
  <2>4. Live(t)' = Live(t)
    BY <1>0 DEF Live
  <2> QED BY <1>0, <1>1, <1>2, <2>1, <2>2, <2>3, <2>4 DEF Saved, Ending
<1>6. Told(t)'
  <2>1. Owes(t)' => to # "back"
    BY <1>0, <1>1, <1>2 DEF Owes, Flying, Ending, Failing
  <2> QED BY <1>0, <1>1, <2>1 DEF Told
<1> QED BY <1>3, <1>4, <1>5, <1>6 DEF TurnInv

LEMMA ProcTurn ==
  ASSUME Inv, NEW c \in Caller, NEW t \in Turn \ contested, ProcStep(c, t), TypeInv'
  PROVE  TurnInv(t)'
<1>0. UNCHANGED <<host, sess, pc, view, task, mode, todo, inbox>>
  BY ProcFrame
<1>1. proc[c][t] \in {"heal"} \cup Failing
  BY ProcMoves DEF Inv, Base
<1>2. /\ c \in {"task", "cancel", "boot"} /\ (c = "boot" => proc[c][t] # "heal")
      /\ pc[t] \in {"none", "ok", "err"} /\ t \notin todo
      /\ \A d \in Caller \ {c} : proc[d][t] \in {"off", "done"}
      /\ host[t] \notin {"idle", "starting"}
      /\ c = "task" => task[t] = IF proc[c][t] = "heal" THEN "healing" ELSE "failing"
      /\ c = "cancel" => ~Live(t) /\ (proc[c][t] # "heal" => task[t] = "none")
      /\ c = "boot" => task[t] = "none"
  BY <1>1, ProcAlone
<1>3. sess[t] \in Session
  BY <1>2 DEF Inv, Base, TypeInv, Placed
<1>p. Stored(t) /\ Saved(t) /\ Told(t) /\ RowInv(sess[t]) /\ Stages(t)
      /\ log[t] \in Seq(Event) /\ Row(t) \in View
  BY <1>3 DEF Inv, OutcomeInv, TurnInv, Base, Rows, Steady, TypeInv, TypeOK, Row
<1>t. task[t] = "none" => pc[t] = "none"
  BY <1>p DEF Stages
<1>o. pc[t] = "ok" => Quiet(t) /\ cp[t] \in Settled
  BY <1>p DEF Stored, Saved
<1>l. proc[c][t] \in Failing => Outcomes(t) = {}
  BY <1>p DEF Told, Owes
<1>m. MidFlight \cap Settled = {}
  BY DEF MidFlight, Settled, Terminal
<1>a. CASE HealRead(c, t)
  <2>1. /\ UNCHANGED <<active, cp, inbox, log>> /\ proc[c][t] = "heal"
        /\ SetProc(c, t, IF Mine(t) /\ Row(t).state \in MidFlight
                         THEN "read" ELSE "back")
    BY <1>a DEF HealRead, shared, Mine, Row
  <2>2. /\ Quiet(t)' = Quiet(t) /\ Open(t)' = Open(t)
        /\ Outcomes(t)' = Outcomes(t)
    BY <1>0, <2>1 DEF Quiet, Open, Mine, Row, Outcomes
  <2>4. task[t] \in Over => Quiet(t) /\ cp[t] \in Settled
    BY <1>p DEF Stored, Saved
  <2>6. CASE Mine(t) /\ Row(t).state \in MidFlight
    <3>1. Open(t) /\ ~Quiet(t) /\ task[t] \notin Over /\ SetProc(c, t, "read")
      BY <1>m, <2>1, <2>4, <2>6 DEF Open, Quiet
    <3>2. c = "cancel" /\ task[t] = "none" /\ Outcomes(t) = {}
      BY <1>2, <1>p, <2>1, <3>1 DEF Over, Live, Told, Inv, Base, TypeInv, TypeOK, TaskPc
    <3>3. cp[t] \notin MidFlight
      BY <1>2, <1>p, <3>1, <3>2 DEF Saved, Caller
    <3> QED BY <1>1, <2>1, <2>2, <3>1, <3>2, <3>3, <1>t, ProcResult
            DEF Over, Failing
  <2>7. CASE ~(Mine(t) /\ Row(t).state \in MidFlight)
    <3>1. SetProc(c, t, "back")
      BY <2>1, <2>7
    <3>2. Quiet(t)
      BY <1>p, <2>7, NullAssumption DEF RowInv, Mine, Row, Quiet, View, State
    <3>3. c = "task" => cp[t] \in Settled
      BY <1>2, <2>1, <2>4 DEF Over
    <3> QED BY <1>1, <1>o, <1>p, <2>1, <2>2, <2>4, <3>1, <3>2, <3>3, ProcResult
            DEF Told, Failing
  <2> QED BY <2>6, <2>7
<1>n. proc[c][t] # "heal" => task[t] \notin Over /\ (c = "task" => task[t] = "failing")
      /\ (c # "task" => task[t] = "none")
  BY <1>1, <1>2 DEF Over
<1>b. CASE FailRead(c, t)
  <2>1. /\ UNCHANGED <<active, cp, inbox, log>> /\ proc[c][t] = "read"
        /\ SetProc(c, t, IF Mine(t) /\ Row(t).state \in Settled
                         THEN "back" ELSE "set")
    BY <1>b DEF FailRead, shared, Mine, Row
  <2>2. /\ Quiet(t)' = Quiet(t) /\ Open(t)' = Open(t)
        /\ Outcomes(t)' = Outcomes(t) /\ Mine(t)' = Mine(t) /\ Row(t)' = Row(t)
    BY <1>0, <2>1 DEF Quiet, Open, Mine, Row, Outcomes
  <2>3. c # "boot" => Open(t)
    BY <1>2, <1>p, <2>1 DEF Stored, InFlight
  <2>5. cp[t] \in MidFlight /\ ~Quiet(t) => Live(t) \/ c = "boot"
    BY <1>2, <1>p, <2>1 DEF Saved, Caller
  <2>6. CASE Mine(t) /\ Row(t).state \in Settled
    <3>1. c = "boot" /\ SetProc(c, t, "back") /\ Quiet(t)
      BY <1>m, <2>1, <2>3, <2>6 DEF Open, Quiet
    <3> QED BY <1>1, <1>n, <1>o, <1>l, <2>1, <2>2, <3>1, ProcResult DEF Failing
  <2>7. CASE ~(Mine(t) /\ Row(t).state \in Settled)
    <3>1. SetProc(c, t, "set")
      BY <2>1, <2>7
    <3> QED BY <1>1, <1>n, <1>o, <1>l, <2>1, <2>2, <2>3, <2>5, <2>7, <3>1, ProcResult
            DEF Failing
  <2> QED BY <2>6, <2>7
<1>c. CASE FailSet(c, t)
  <2>1. /\ UNCHANGED <<cp, inbox, log>> /\ proc[c][t] = "set" /\ SetProc(c, t, "cp")
        /\ Row(t)' = [turn |-> t, state |-> "failed"]
    BY <1>0, <1>3, <1>c DEF FailSet, Row, Inv, Base, TypeInv, TypeOK
  <2>2. Quiet(t)' /\ Outcomes(t)' = Outcomes(t)
    BY <2>1 DEF Quiet, Mine, Settled, Terminal, Outcomes
  <2> QED BY <1>1, <1>n, <1>o, <1>l, <2>1, <2>2, ProcResult DEF Failing
<1>d. CASE FailCheckpoint(c, t)
  <2>1. /\ UNCHANGED <<active, inbox, log>> /\ proc[c][t] = "cp" /\ SetProc(c, t, "emit")
        /\ cp'[t] = "failed"
    BY <1>d DEF FailCheckpoint, Inv, Base, TypeInv, TypeOK
  <2>2. Quiet(t)' = Quiet(t) /\ Outcomes(t)' = Outcomes(t)
    BY <1>0, <2>1 DEF Quiet, Mine, Row, Outcomes
  <2>3. Quiet(t) /\ "failed" \in Settled
    BY <1>p, <2>1 DEF Stored, Settled, Terminal
  <2> QED BY <1>1, <1>n, <1>o, <1>l, <2>1, <2>2, <2>3, ProcResult DEF Failing
<1>e. CASE FailEmit(c, t)
  <2>1. /\ UNCHANGED <<active, cp, inbox>> /\ proc[c][t] = "emit" /\ SetProc(c, t, "back")
        /\ log'[t] = Append(log[t], "failed")
    BY <1>e DEF FailEmit, Inv, Base, TypeInv, TypeOK
  <2>2. Quiet(t)' = Quiet(t)
    BY <1>0, <2>1 DEF Quiet, Mine, Row
  <2>3. Quiet(t) /\ cp[t] = "failed" /\ "failed" \in Settled
    BY <1>p, <2>1 DEF Stored, Saved, Settled, Terminal
  <2>4. Outcomes(t)' = {Len(log[t]) + 1} /\ Len(log[t]) + 1 \in DOMAIN log'[t]
    BY <1>l, <1>p, <2>1, <2>3 DEF Outcomes, Failing
  <2> QED BY <1>1, <1>n, <1>o, <2>1, <2>2, <2>3, <2>4, ProcResult DEF Failing
<1> QED BY <1>a, <1>b, <1>c, <1>d, <1>e DEF ProcStep

LEMMA ProcOutcome ==
  ASSUME Inv, NEW c \in Caller, NEW t \in Turn, ProcStep(c, t), TypeInv'
  PROVE  OutcomeInv'
<1>1. UNCHANGED <<host, sess, pc, view, task, mode, todo, inbox, contested>>
  BY ProcFrame
<1>2. \A d \in Caller, u \in Turn : d # c \/ u # t => proc'[d][u] = proc[d][u]
  BY ProcMoves DEF Inv, Base
<1>3. \/ UNCHANGED active
      \/ active' = [active EXCEPT ![sess[t]] = [turn |-> t, state |-> "failed"]]
  BY DEF ProcStep, HealRead, FailRead, FailSet, FailCheckpoint, FailEmit, shared
<1>4. ASSUME NEW u \in Turn, u \notin contested' PROVE TurnInv(u)'
  <2>0. u \notin contested /\ TurnInv(u)
    BY <1>1, <1>4 DEF Inv, OutcomeInv
  <2>1. CASE u = t
    BY <2>0, <2>1, ProcTurn
  <2>2. CASE u # t
    <3>1. cp'[u] = cp[u] /\ log'[u] = log[u]
      BY <2>2 DEF ProcStep, HealRead, FailRead, FailSet, FailCheckpoint, FailEmit,
                  shared, Inv, Base, TypeInv, TypeOK
    <3>2. CASE host[u] = "idle"
      BY <1>1, <1>2, <2>0, <2>2, <3>1, <3>2, IdleKept DEF Inv
    <3>3. CASE host[u] # "idle"
      <4>1. Row(u)' = Row(u) \/ Row(u)'.turn # u
        BY <1>1, <1>3, <2>2, <3>3 DEF Row, Inv, Base, TypeInv, TypeOK, Placed
      <4> QED BY <1>1, <1>2, <2>0, <2>2, <3>1, <4>1, Bystander DEF Inv, Base
    <3> QED BY <3>2, <3>3
  <2> QED BY <2>1, <2>2
<1> QED BY <1>4 DEF OutcomeInv

-----------------------------------------------------------------------------
(* The outer task, the handlers, the host, recovery at boot, and crashes.   *)

(* A step of t that neither writes a session's row nor touches a turn other *)
(* than t.                                                                  *)
LEMMA OwnStep ==
  ASSUME Inv, NEW t \in Turn, t \notin contested' => TurnInv(t)',
         contested \subseteq contested', UNCHANGED <<mode, active, inbox>>,
         \A u \in Turn \ {t} :
           /\ host'[u] = host[u] /\ sess'[u] = sess[u] /\ pc'[u] = pc[u]
           /\ view'[u] = view[u]
           /\ task'[u] = task[u] /\ cp'[u] = cp[u] /\ log'[u] = log[u]
           /\ u \in todo' <=> u \in todo
           /\ \A c \in Caller : proc'[c][u] = proc[c][u]
  PROVE  OutcomeInv'
<1>1. ASSUME NEW u \in Turn \ {t}, u \notin contested' PROVE TurnInv(u)'
  <2>1. Row(u)' = Row(u) /\ TurnInv(u)
    BY <1>1 DEF Row, Inv, OutcomeInv
  <2> QED BY <2>1, Bystander DEF Inv, Base
<1> QED BY <1>1 DEF OutcomeInv

LEMMA TaskTurn ==
  ASSUME Inv, NEW t \in Turn \ contested, TaskStep(t)
  PROVE  TurnInv(t)'
<1> "task" \in Caller /\ "cancel" \in Caller /\ "boot" \in Caller
    /\ "fail" \in Caller
  BY DEF Caller
<1>0. /\ UNCHANGED <<host, sess, pc, view, active, cp, inbox, log, mode, todo>>
      /\ \A c \in Caller : c # "task" => proc'[c][t] = proc[c][t]
  BY TaskMoves DEF Inv, Base
<1>1. \/ /\ task[t] = "run" /\ pc[t] = "err"
         /\ task'[t] = "failing" /\ proc'["task"][t] = "read"
      \/ /\ task[t] = "run" /\ pc[t] = "ok"
         /\ task'[t] = "healing" /\ proc'["task"][t] = "heal"
      \/ /\ task[t] = "failing" /\ proc["task"][t] = "back"
         /\ task'[t] = "healing" /\ proc'["task"][t] = "heal"
      \/ /\ task[t] \in Over /\ (task[t] = "healing" => proc["task"][t] = "back")
         /\ task'[t] \in Over \ {"healing"} /\ proc'["task"][t] = "off"
  BY TaskMoves DEF Inv, Base
<1>p. OneWriter(t) /\ Stored(t) /\ Saved(t) /\ Told(t) /\ Stages(t) /\ Staged
  BY DEF Inv, OutcomeInv, TurnInv, Base, Steady, Accounts
<1>f. /\ Quiet(t)' = Quiet(t) /\ Open(t)' = Open(t) /\ Mine(t)' = Mine(t)
      /\ Row(t)' = Row(t) /\ Outcomes(t)' = Outcomes(t)
  BY <1>0 DEF Quiet, Open, Mine, Row, Outcomes
<1>2. pc[t] \in {"ok", "err"} /\ host[t] \notin {"idle", "starting"} /\ task[t] # "none"
  BY <1>p, <1>1 DEF Stages, Over, Staged
<1>3. \A d \in Caller \ {"task"} : proc[d][t] \notin Failing
  <2>1. proc["boot"][t] = "off" /\ proc["fail"][t] = "off"
    BY <1>p, <1>2 DEF Stages, Inv, Base, TypeInv, TypeOK
  <2>2. proc["cancel"][t] \notin Failing
    BY <1>p, <1>2 DEF OneWriter
  <2> QED BY <2>1, <2>2 DEF Caller, Failing
<1>4. OneWriter(t)'
  BY <1>0, <1>1, <1>3 DEF OneWriter, Over
<1>5. Stored(t)'
  <2>1. InFlight(t)' => InFlight(t)
    BY <1>0, <1>1, <1>3 DEF InFlight, Failing, Over
  <2>2. task'[t] \in Over => Quiet(t)
    BY <1>p, <1>1 DEF Stored, Over
  <2>3. proc'["task"][t] # "back" /\ proc'["task"][t] \notin {"cp", "emit"}
    BY <1>1
  <2> QED BY <1>0, <1>f, <1>p, <1>3, <2>1, <2>2, <2>3 DEF Stored, Failing
<1>6. Saved(t)'
  <2>1. task'[t] \in Over => cp[t] \in Settled
    BY <1>p, <1>1 DEF Saved, Over
  <2>2. proc'["task"][t] \notin {"back", "emit"}
    BY <1>1
  <2>3. cp[t] \in MidFlight => task'[t] \notin Over
    BY <2>1 DEF MidFlight, Settled, Terminal
  <2>4. task'[t] \notin Over => Live(t)'
    BY <1>1 DEF Live
  <2> QED BY <1>0, <1>f, <1>p, <1>3, <2>1, <2>2, <2>3, <2>4 DEF Saved, Failing
<1>7. Told(t)'
  <2>1. Owes(t)' => Owes(t)
    BY <1>0, <1>1, <1>2, <1>3 DEF Owes, Failing, Flying, Ending, Over
  <2> QED BY <1>0, <1>f, <1>p, <2>1 DEF Told
<1> QED BY <1>4, <1>5, <1>6, <1>7 DEF TurnInv

LEMMA TaskOutcome ==
  ASSUME Inv, NEW t \in Turn, TaskStep(t)
  PROVE  OutcomeInv'
<1>1. /\ UNCHANGED <<host, sess, pc, view, active, cp, inbox, log, mode, todo, contested>>
      /\ \A u \in Turn \ {t} : task'[u] = task[u]
      /\ \A c \in Caller, u \in Turn : c # "task" \/ u # t => proc'[c][u] = proc[c][u]
  BY TaskMoves DEF Inv, Base
<1> QED BY <1>1, TaskTurn, OwnStep

(* A step of the cancel handler, or of the host, that leaves the turn's run *)
(* and its task alone.                                                      *)
LEMMA HandlerTurn ==
  ASSUME Inv, NEW t \in Turn \ contested,
         UNCHANGED <<mode, pc, view, task, active, cp, inbox, log, todo>>,
         sess'[t] = sess[t], host'[t] \notin {"idle", "starting"},
         \A c \in Caller \ {"cancel"} : proc'[c][t] = proc[c][t],
         proc'["cancel"][t] = proc["cancel"][t] \/ proc'["cancel"][t] \in {"done", "heal"}
  PROVE  TurnInv(t)'
<1> "task" \in Caller /\ "cancel" \in Caller /\ "boot" \in Caller
    /\ "fail" \in Caller
  BY DEF Caller
<1>p. OneWriter(t) /\ Stored(t) /\ Saved(t) /\ Told(t)
  BY DEF Inv, OutcomeInv, TurnInv
<1>f. /\ Quiet(t)' = Quiet(t) /\ Open(t)' = Open(t) /\ Mine(t)' = Mine(t)
      /\ Row(t)' = Row(t) /\ Outcomes(t)' = Outcomes(t) /\ Live(t)' = Live(t)
  BY DEF Quiet, Open, Mine, Row, Outcomes, Live
<1>1. \A c \in Caller : proc'[c][t] \in Failing => proc'[c][t] = proc[c][t]
  BY DEF Failing
<1>2. OneWriter(t)'
  BY <1>p, <1>1 DEF OneWriter
<1>3. Stored(t)'
  <2>1. InFlight(t)' => InFlight(t)
    BY DEF InFlight
  <2> QED BY <1>f, <1>p, <1>1, <2>1 DEF Stored, Failing
<1>4. Saved(t)'
  BY <1>f, <1>p, <1>1 DEF Saved, Failing
<1>5. Told(t)'
  <2>1. Owes(t)' => Owes(t)
    BY <1>1 DEF Owes
  <2> QED BY <1>f, <1>p, <2>1 DEF Told
<1> QED BY <1>2, <1>3, <1>4, <1>5 DEF TurnInv

LEMMA HandlerOutcome ==
  ASSUME Inv, NEW t \in Turn,
         \/ CancelRpc(t) \/ CancelReturn(t) \/ HostObserve(t) \/ HostTimeout(t)
         \/ HostGiveUp(t)
  PROVE  OutcomeInv'
<1> "task" \in Caller /\ "cancel" \in Caller /\ "boot" \in Caller
    /\ "fail" \in Caller
  BY DEF Caller
<1>t. /\ proc \in [Caller -> [Turn -> ProcPc]] /\ host \in [Turn -> HostPc] /\ Stages(t)
  BY DEF Inv, Base, Steady, TypeInv, TypeOK
<1>1. /\ UNCHANGED <<sess, pc, view, task, active, cp, inbox, log, mode, todo>>
      /\ contested \subseteq contested' /\ host'[t] \notin {"idle", "starting"}
  BY <1>t DEF CancelRpc, CancelReturn, HostObserve, HostTimeout, HostGiveUp, run,
              shared, control, past, Stages
<1>2. \A u \in Turn \ {t} : /\ host'[u] = host[u]
                            /\ \A c \in Caller : proc'[c][u] = proc[c][u]
  BY <1>t DEF CancelRpc, CancelReturn, HostObserve, HostTimeout, HostGiveUp, SetProc
<1>3. ASSUME t \notin contested'
      PROVE  /\ \A c \in Caller \ {"cancel"} : proc'[c][t] = proc[c][t]
             /\ \/ proc'["cancel"][t] = proc["cancel"][t]
                \/ proc'["cancel"][t] \in {"done", "heal"}
  <2>1. ~HostTimeout(t) /\ ~HostGiveUp(t)
    BY <1>1, <1>3, <1>t DEF HostTimeout, HostGiveUp, Stages
  <2> QED BY <1>t, <2>1 DEF CancelRpc, CancelReturn, HostObserve, SetProc
<1>4. t \notin contested' => TurnInv(t)'
  BY <1>1, <1>3, HandlerTurn
<1> QED BY <1>1, <1>2, <1>4, OwnStep

LEMMA RecoveryTurn ==
  ASSUME Inv, NEW t \in Turn \ contested, BootFail(t) \/ BootReturn(t)
  PROVE  TurnInv(t)'
<1> "task" \in Caller /\ "cancel" \in Caller /\ "boot" \in Caller
    /\ "fail" \in Caller
  BY DEF Caller
<1>0. UNCHANGED <<host, sess, pc, view, task, active, cp, inbox, log, mode>>
  BY DEF BootFail, BootReturn, run, shared, control
<1>p. OneWriter(t) /\ Stored(t) /\ Saved(t) /\ Told(t) /\ Identity(t)
  BY DEF Inv, OutcomeInv, TurnInv, Base, Rows
<1>f. /\ Quiet(t)' = Quiet(t) /\ Open(t)' = Open(t) /\ Mine(t)' = Mine(t)
      /\ Row(t)' = Row(t) /\ Outcomes(t)' = Outcomes(t) /\ Live(t)' = Live(t)
  BY <1>0 DEF Quiet, Open, Mine, Row, Outcomes, Live
<1>1. \/ /\ BootFail(t) /\ SetProc("boot", t, "read") /\ todo' = todo \ {t} /\ t \in todo
      \/ /\ BootReturn(t) /\ SetProc("boot", t, "off") /\ UNCHANGED todo
         /\ proc["boot"][t] = "back"
  BY DEF BootFail, BootReturn, control
<1>2. /\ \A c \in Caller \ {"boot"} : proc'[c][t] = proc[c][t]
      /\ proc'["boot"][t] = IF BootFail(t) THEN "read" ELSE "off"
  BY <1>1 DEF SetProc, BootFail, BootReturn, Recovering, Inv, Base, TypeInv, TypeOK
<1>3. BootFail(t) => cp[t] \in MidFlight /\ Outcomes(t) = {}
                     /\ host[t] \notin {"idle", "starting"}
  BY <1>p, <1>1 DEF Saved, Told, MidFlight, Settled, Terminal, BootFail, Identity
<1>4. OneWriter(t)'
  BY <1>0, <1>p, <1>2 DEF OneWriter
<1>5. Stored(t)'
  <2>1. InFlight(t)' => InFlight(t)
    BY <1>0, <1>2 DEF InFlight
  <2> QED BY <1>0, <1>f, <1>p, <1>2, <2>1 DEF Stored
<1>6. Saved(t)'
  <2>1. t \in todo' \/ proc'["boot"][t] \in {"read", "set"}
          \/ ~(t \in todo \/ proc["boot"][t] \in {"read", "set"})
    BY <1>1, <1>2
  <2>2. t \in todo' => t \in todo
    BY <1>1
  <2> QED BY <1>0, <1>f, <1>p, <1>2, <2>1, <2>2 DEF Saved
<1>7. Told(t)'
  <2>1. Owes(t)' => Owes(t) \/ BootFail(t)
    BY <1>0, <1>2 DEF Owes, Failing
  <2> QED BY <1>0, <1>f, <1>p, <1>3, <2>1 DEF Told
<1> QED BY <1>4, <1>5, <1>6, <1>7 DEF TurnInv

LEMMA RecoveryOutcome ==
  ASSUME Inv, NEW t \in Turn, BootFail(t) \/ BootReturn(t)
  PROVE  OutcomeInv'
<1>1. /\ UNCHANGED <<host, sess, pc, view, task, active, cp, inbox, log, mode, contested>>
      /\ \A u \in Turn \ {t} : u \in todo' <=> u \in todo
  BY DEF BootFail, BootReturn, run, shared, control, past
<1>2. \A u \in Turn \ {t} : \A c \in Caller : proc'[c][u] = proc[c][u]
  <2>1. \E to : SetProc("boot", t, to)
    BY DEF BootFail, BootReturn
  <2> QED BY <2>1 DEF SetProc, Inv, Base, TypeInv, TypeOK
<1> QED BY <1>1, <1>2, RecoveryTurn, OwnStep

LEMMA RegisterOutcome ==
  ASSUME Inv, NEW t \in Turn, TypeInv', Register(t)
  PROVE  OutcomeInv'
<1> "task" \in Caller /\ "cancel" \in Caller /\ "boot" \in Caller
    /\ "fail" \in Caller
  BY DEF Caller
<1>0. UNCHANGED <<sess, proc, active, cp, inbox, log, mode, todo, contested>>
  BY DEF Register, shared, control, past
<1>1. /\ host[t] = "starting" /\ host'[t] = "waiting" /\ task'[t] = "run"
      /\ pc'[t] = "accept" /\ view'[t] = [turn |-> t, state |-> "accepted"]
      /\ \A u \in Turn \ {t} : /\ host'[u] = host[u] /\ task'[u] = task[u]
                               /\ pc'[u] = pc[u] /\ view'[u] = view[u]
  BY DEF Register, Inv, Base, TypeInv, TypeOK
<1>2. ASSUME t \notin contested PROVE TurnInv(t)'
  <2>p. OneWriter(t) /\ Stored(t) /\ Saved(t) /\ Told(t) /\ sess[t] \in Session
        /\ RowInv(sess[t]) /\ Stages(t) /\ Identity(t)
    BY <1>1, <1>2 DEF Inv, OutcomeInv, TurnInv, Base, Steady, Rows, TypeInv, Placed
  <2>1. /\ task[t] = "none" /\ mode = "up" /\ cp[t] = "none"
        /\ Outcomes(t) = {} /\ ~Mine(t)
    <3>1. task[t] = "none" /\ mode = "up"
      BY <1>1, <2>p DEF Stages, Inv, Base, Accounts, Staged, TypeInv, TypeOK
    <3>2. ~Mine(t)
      BY <1>1, <2>p, NullAssumption DEF RowInv, Mine, Row
    <3> QED BY <1>1, <2>p, <3>1, <3>2 DEF Told, Identity
  <2>2. /\ proc["task"][t] = "off" /\ proc["fail"][t] = "off"
        /\ proc["cancel"][t] = "off" /\ proc["boot"][t] = "off" /\ t \notin todo
    BY <1>1, <2>1, <2>p DEF Stages
  <2>3. Outcomes(t)' = {} /\ ~Mine(t)' /\ Quiet(t)'
    BY <1>0, <2>1 DEF Outcomes, Mine, Row, Quiet
  <2>4. OneWriter(t)'
    BY <1>0, <1>1, <2>2 DEF OneWriter, Failing
  <2>5. Stored(t)'
    <3>1. ~InFlight(t)'
      BY <1>0, <1>1, <2>2 DEF InFlight, Flying
    <3> QED BY <1>0, <1>1, <2>2, <2>3, <3>1 DEF Stored, Flying, Ending, Over, Caller
  <2>6. Saved(t)' /\ Told(t)'
    BY <1>0, <1>1, <2>1, <2>2, <2>3 DEF Saved, Told, Ending, Over, Caller, MidFlight
  <2> QED BY <2>4, <2>5, <2>6 DEF TurnInv
<1> QED BY <1>0, <1>1, <1>2, OwnStep

LEMMA AdmitOutcome ==
  ASSUME Inv, NEW t \in Turn, NEW s \in Session, Admit(t, s)
  PROVE  OutcomeInv'
<1>1. /\ UNCHANGED <<pc, view, task, proc, active, cp, inbox, log, mode, todo, contested>>
      /\ host[t] = "idle" /\ host'[t] = "starting"
      /\ \A u \in Turn \ {t} : host'[u] = host[u] /\ sess'[u] = sess[u]
  BY DEF Admit, run, shared, control, Inv, Base, TypeInv, TypeOK
<1>2. t \notin contested => TurnInv(t)'
  BY <1>1, IdleKept DEF Inv, OutcomeInv
<1> QED BY <1>1, <1>2, OwnStep

LEMMA BootDoneOutcome ==
  ASSUME Inv, BootDone
  PROVE  OutcomeInv'
<1>0. /\ UNCHANGED <<host, sess, pc, view, task, proc, active, cp, inbox, log, todo,
                     contested>>
  BY DEF BootDone, run, shared, past
<1>1. ASSUME NEW t \in Turn \ contested PROVE TurnInv(t)'
  <2>p. OneWriter(t) /\ Stored(t) /\ Saved(t) /\ Told(t)
    BY DEF Inv, OutcomeInv, TurnInv
  <2>f. /\ Quiet(t)' = Quiet(t) /\ Mine(t)' = Mine(t) /\ Row(t)' = Row(t)
        /\ Outcomes(t)' = Outcomes(t) /\ Live(t)' = Live(t)
        /\ InFlight(t)' = InFlight(t) /\ Owes(t)' = Owes(t) /\ Open(t)' = Open(t)
    BY <1>0 DEF Quiet, Mine, Row, Outcomes, Live, InFlight, Owes, Open
  <2>1. OneWriter(t)'
    BY <1>0, <2>p DEF OneWriter
  <2>2. Stored(t)'
    BY <1>0, <2>f, <2>p DEF Stored
  <2>3. Saved(t)' /\ Told(t)'
    BY <1>0, <2>f, <2>p DEF Saved, Told
  <2> QED BY <2>1, <2>2, <2>3 DEF TurnInv
<1> QED BY <1>0, <1>1 DEF OutcomeInv

(* What a crash leaves of a turn is its row, its checkpoint and its log.    *)
LEMMA CrashOutcome ==
  ASSUME Inv, Crash
  PROVE  OutcomeInv'
<1>0. /\ UNCHANGED <<sess, active, cp, inbox, log, contested>> /\ mode' = "boot"
      /\ todo' = {t \in Turn : cp[t] \in MidFlight}
      /\ \A t \in Turn :
           /\ pc'[t] = "none" /\ task'[t] = "none"
           /\ host'[t] = IF host[t] \in {"starting", "failing"} THEN "done" ELSE host[t]
           /\ proc'["task"][t] = "off" /\ proc'["fail"][t] = "off"
           /\ proc'["boot"][t] = "off"
           /\ proc'["cancel"][t] = IF proc["cancel"][t] # "off" THEN "done" ELSE "off"
  BY DEF Crash, shared, past, Caller
<1>1. ASSUME NEW t \in Turn \ contested PROVE TurnInv(t)'
  <2>p. OneWriter(t) /\ Stored(t) /\ Saved(t) /\ Told(t)
    BY DEF Inv, OutcomeInv, TurnInv
  <2>f. Quiet(t)' = Quiet(t) /\ Outcomes(t)' = Outcomes(t)
    BY <1>0 DEF Quiet, Mine, Row, Outcomes
  <2>c. \A c \in Caller : proc'[c][t] \in {"off", "done"}
    BY <1>0 DEF Caller
  <2>1. ~InFlight(t)' /\ ~Owes(t)'
    BY <1>0, <2>c DEF InFlight, Owes, Flying, Ending, Failing, Caller
  <2>2. OneWriter(t)'
    BY <1>0 DEF OneWriter
  <2>3. Stored(t)'
    BY <1>0, <2>c, <2>1 DEF Stored, Flying, Ending, Over, Caller
  <2>4. Saved(t)'
    BY <1>0, <2>p, <2>c DEF Saved, Ending, Over, Caller
  <2>5. Told(t)'
    BY <1>0, <2>p, <2>f, <2>1 DEF Told
  <2> QED BY <2>2, <2>3, <2>4, <2>5 DEF TurnInv
<1> QED BY <1>0, <1>1 DEF OutcomeInv

LEMMA StutterOutcome ==
  ASSUME Inv, UNCHANGED vars
  PROVE  OutcomeInv'
<1>0. UNCHANGED <<host, sess, pc, view, task, proc, active, cp, inbox, log, todo, mode,
                  contested>>
  BY DEF vars, run, shared, control, past
<1>1. ASSUME NEW t \in Turn \ contested PROVE TurnInv(t)'
  BY <1>0, Bystander DEF Inv, Base, OutcomeInv, Row
<1> QED BY <1>0, <1>1 DEF OutcomeInv

LEMMA InitOutcome == Init => OutcomeInv
<1> SUFFICES ASSUME Init, NEW t \in Turn PROVE TurnInv(t)
  BY DEF OutcomeInv
<1>1. /\ pc[t] = "none" /\ task[t] = "none" /\ cp[t] = "none" /\ host[t] = "idle"
      /\ \A c \in Caller : proc[c][t] = "off"
      /\ todo = {} /\ mode = "up" /\ log[t] = <<>>
  BY DEF Init
<1>2. Outcomes(t) = {} /\ ~InFlight(t) /\ ~Owes(t) /\ ~Live(t)
  BY <1>1 DEF Outcomes, InFlight, Owes, Live, Flying, Ending, Failing, Caller
<1>3. OneWriter(t)
  BY <1>1 DEF OneWriter, Failing, Caller
<1>4. Stored(t) /\ Saved(t) /\ Told(t)
  BY <1>1, <1>2 DEF Stored, Saved, Told, Flying, Ending, Over, MidFlight, Caller
<1> QED BY <1>3, <1>4 DEF TurnInv

LEMMA NextOutcome == Inv /\ TypeInv' /\ [Next]_vars => OutcomeInv'
<1> SUFFICES ASSUME Inv, TypeInv', [Next]_vars PROVE OutcomeInv'
  OBVIOUS
<1>1. ASSUME NEW t \in Turn, Progress(t) PROVE OutcomeInv'
  BY <1>1, RegisterOutcome, RunOutcome, TaskOutcome, HandlerOutcome,
     RecoveryOutcome, ProcOutcome DEF Progress
<1>2. ASSUME NEW t \in Turn, Request(t) PROVE OutcomeInv'
  BY <1>2, AdmitOutcome, HandlerOutcome DEF Request
<1> QED BY <1>1, <1>2, CrashOutcome, BootDoneOutcome, StutterOutcome DEF Next

LEMMA InitInv == Init => Inv
BY InitBase, InitOutcome DEF Inv

LEMMA StepInv == Inv /\ [Next]_vars => Inv'
BY NextBase, NextOutcome DEF Inv, Base

(* The inductive invariant of the turn engine.                              *)
THEOREM OutcomesHold == Spec => []Inv
BY InitInv, StepInv, PTL DEF Spec

-----------------------------------------------------------------------------
(* What follows for the store, the checkpoints and the subscribers.         *)

(* A turn that no run took for another, and that the host did not have      *)
(* failed, is reported over, or paused, at most once, however many turns of *)
(* its session overlap it and however many crashes, recoveries and cancels  *)
(* come between (engine.rs, fail_turn).                                     *)
THEOREM OutcomeOnce == Spec => []OneOutcome
<1>1. Inv => OneOutcome
  <2> SUFFICES ASSUME Inv, NEW t \in Turn \ contested
               PROVE  Cardinality(Outcomes(t)) <= 1
    BY DEF OneOutcome
  <2>1. CASE Outcomes(t) = {}
    BY <2>1, FS_EmptySet
  <2>2. CASE Outcomes(t) # {}
    <3>1. PICK i : Outcomes(t) = {i}
      BY <2>2 DEF Inv, OutcomeInv, TurnInv, Told
    <3> QED BY <3>1, FS_Singleton
  <2> QED BY <2>1, <2>2
<1> QED BY <1>1, OutcomesHold, PTL

(* When the task of such a turn is gone its checkpoint row is at rest, so   *)
(* that no later boot takes it for an orphan.                               *)
THEOREM CheckpointedAtEnd == Spec => []FinishedIsCheckpointed
<1>1. Inv => FinishedIsCheckpointed
  BY DEF Inv, OutcomeInv, TurnInv, Saved, Over, FinishedIsCheckpointed, Finished
<1> QED BY <1>1, OutcomesHold, PTL

(* The steps that write a row or send an event.                             *)
LEMMA Writers ==
  ASSUME [Next]_vars, active' # active \/ log' # log
  PROVE  \E t \in Turn : RunStep(t) \/ \E c \in Caller : ProcStep(c, t)
BY DEF Next, Progress, Request, Crash, BootDone, Register, TaskStep, TaskJoin,
       TaskHeal, TaskUnregister, TaskDropCount, TaskDropPermit, CancelReturn,
       HostObserve, HostGiveUp, BootFail, BootReturn, Admit, CancelRpc,
       HostTimeout, shared, vars

(* A row that is rewritten for the turn it is about, when that turn is not  *)
(* contested, was not at rest.                                              *)
LEMMA RowChange ==
  ASSUME Inv, [Next]_vars, NEW s \in Session, active'[s] # active[s],
         active'[s].turn = active[s].turn, active[s].turn \notin contested
  PROVE  active[s].state \notin Settled
<1>0. /\ MidFlight \cap Settled = {} /\ active \in [Session -> View]
      /\ proc \in [Caller -> [Turn -> ProcPc]]
  BY DEF MidFlight, Settled, Terminal, Inv, Base, TypeInv, TypeOK
<1>1. ASSUME NEW t \in Turn, RunStep(t) PROVE active[s].state \notin Settled
  <2>1. /\ pc[t] \in {"accept"} \cup Flying
        /\ \E st \in State :
             active' = [active EXCEPT ![sess[t]] = [turn |-> view[t].turn, state |-> st]]
    BY <1>1, RunEffect DEF Inv, Base
  <2>2. sess[t] = s /\ active'[s].turn = view[t].turn
    BY <1>0, <2>1
  <2>3. t \notin contested /\ view[t].turn = t
    BY <1>1, <2>1, <2>2, RunAlone DEF Inv, Base, Rows, Identity, Flying
  <2>4. Stored(t)
    BY <2>3 DEF Inv, OutcomeInv, TurnInv
  <2> QED BY <1>0, <2>1, <2>2, <2>3, <2>4 DEF Stored, InFlight, Open, Mine, Row
<1>2. ASSUME NEW t \in Turn, NEW c \in Caller, ProcStep(c, t)
      PROVE  active[s].state \notin Settled
  <2>1. FailSet(c, t)
    BY <1>2 DEF ProcStep, HealRead, FailRead, FailSet, FailCheckpoint, FailEmit,
                shared
  <2>2. sess[t] = s /\ active'[s].turn = t
    BY <1>0, <2>1 DEF FailSet
  <2>3. t \notin contested /\ proc[c][t] = "set"
    BY <2>1, <2>2 DEF FailSet
  <2>4. c \in {"task", "cancel", "boot"} /\ Stored(t)
    BY <2>3, ProcAlone DEF Failing, Inv, OutcomeInv, TurnInv
  <2> QED BY <1>0, <2>2, <2>3, <2>4 DEF Stored, InFlight, Open, Mine, Row
<1> QED BY <1>1, <1>2, Writers

(* No run, no fail_turn and no heal_orphan_turn changes a turn at rest: not *)
(* its own, nor one that overlaps it on the session.                        *)
THEOREM SettledKept == Spec => SettledIsFinal
<1>1. Inv /\ [Next]_vars
        => [\A s \in Session :
              active[s].state \in Settled /\ active[s].turn \notin contested
                => active'[s] = active[s] \/ active'[s].turn # active[s].turn]_vars
  BY RowChange
<1> QED BY <1>1, OutcomesHold, PTL DEF Spec, SettledIsFinal

(* The end of a turn, or its pause, is saved (and the pause in the inbox)   *)
(* before any subscriber hears of it.                                       *)
THEOREM SavedFirst == Spec => NotifyAfterPersist
<1> DEFINE A == \A t \in Turn \ contested : \A e \in Settled :
                  log'[t] = Append(log[t], e)
                    => cp[t] = e /\ (e = "awaiting_hitl" => t \in inbox)
<1>1. ASSUME Inv, [Next]_vars PROVE A
  <2> SUFFICES ASSUME NEW t \in Turn \ contested, NEW e \in Settled,
                      log'[t] = Append(log[t], e)
               PROVE  cp[t] = e /\ (e = "awaiting_hitl" => t \in inbox)
    OBVIOUS
  <2>0. log[t] \in Seq(Event) /\ e \in Event /\ e # "started"
    BY <1>1 DEF Inv, Base, TypeInv, TypeOK, Event, Settled, Terminal
  <2>1. log'[t] # log[t] /\ \A f \in Event : log'[t] = Append(log[t], f) => f = e
    BY <2>0
  <2>2. \E u \in Turn : RunStep(u) \/ \E c \in Caller : ProcStep(c, u)
    BY <1>1, <2>1, Writers
  <2>3. ASSUME NEW u \in Turn, RunStep(u) PROVE u = t /\ RunEmit(u)
    <3>1. u = t
      BY <1>1, <2>1, <2>3, RunEffect DEF Inv, Base
    <3>2. ~UNCHANGED log
      BY <2>1
    <3>3. RunEmit(u) \/ log' = [log EXCEPT ![u] = Append(@, "started")]
      BY <2>3, <3>2
         DEF RunStep, RunAccept, RunAnnounce, RunPrepare, RunCheckpoint, RunBuild,
             RunLoop, RunSample, RunAct, RunReread, RunRaise, RunPause, Write,
             Fail, shared
    <3>4. log' # [log EXCEPT ![u] = Append(@, "started")]
      BY <1>1, <2>0, <2>1, <3>1 DEF Inv, Base, TypeInv, TypeOK, Event
    <3> QED BY <3>1, <3>3, <3>4
  <2>4. ASSUME NEW u \in Turn, NEW c \in Caller, ProcStep(c, u)
        PROVE  u = t /\ FailEmit(c, u)
    BY <1>1, <2>1, <2>4
       DEF ProcStep, HealRead, FailRead, FailSet, FailCheckpoint, FailEmit, shared,
           Inv, Base, TypeInv, TypeOK
  <2>5. CASE RunEmit(t)
    <3>1. log'[t] = Append(log[t], view[t].state) /\ pc[t] = "endEmit"
      BY <1>1, <2>5 DEF RunEmit, Inv, Base, TypeInv, TypeOK
    <3>2. view[t].state \in Event
      BY <1>1, <3>1 DEF Event, Inv, Base, TypeInv, ReadyToEmit
    <3>3. Saved(t) /\ view[t].state = e
      BY <1>1, <2>1, <3>1, <3>2 DEF Inv, OutcomeInv, TurnInv
    <3> QED BY <3>1, <3>3 DEF Saved, Ending
  <2>6. CASE \E c \in Caller : FailEmit(c, t)
    <3>1. PICK c \in Caller : FailEmit(c, t)
      BY <2>6
    <3>2. log'[t] = Append(log[t], "failed") /\ proc[c][t] = "emit"
      BY <1>1, <3>1 DEF FailEmit, Inv, Base, TypeInv, TypeOK
    <3>3. "failed" \in Event
      BY DEF Event, Settled, Terminal
    <3>4. Saved(t) /\ e = "failed"
      BY <1>1, <2>1, <3>2, <3>3 DEF Inv, OutcomeInv, TurnInv
    <3> QED BY <3>2, <3>4 DEF Saved
  <2> QED BY <2>2, <2>3, <2>4, <2>5, <2>6
<1>2. Inv /\ [Next]_vars => [A]_vars
  BY <1>1
<1> QED BY <1>2, OutcomesHold, PTL DEF Spec, NotifyAfterPersist

-----------------------------------------------------------------------------
(* Recovery.  While the core serves requests, a session that is in the      *)
(* middle and has a mid-flight checkpoint, of whichever of its turns, has   *)
(* somebody bound to put it to rest; recovery has such a row still to fail. *)
Heals(t) ==
  cp[t] \in MidFlight /\ Row(t).state \in MidFlight
    => /\ mode = "up" => \E u \in Turn : sess[u] = sess[t] /\ Bound(u)
       /\ mode = "boot" => t \in todo \/ proc["boot"][t] \in {"read", "set"}

LEMMA RunsTasked == Steady => RunsHaveTask
BY DEF Steady, Stages, RunsHaveTask

(* A mid-flight checkpoint is written by a run that is bound to the row.    *)
LEMMA CheckpointBound ==
  ASSUME Base, NEW t \in Turn, RunStep(t), NEW u \in Turn, cp'[u] # cp[u],
         cp'[u] \in MidFlight
  PROVE  sess[u] = sess[t] /\ Bound(t)'
<1>1. u = view[t].turn
  BY RunEffect DEF Base
<1>2. RunCheckpoint(t)
  BY DEF RunStep, RunAccept, RunAnnounce, RunPrepare, RunBuild, RunLoop, RunSample,
         RunAct, RunReread, RunRaise, RunPause, RunEmit, Write, Fail, shared
<1>3. /\ cp'[u] = view[t].state /\ pc'[t] = AfterCp[pc[t]]
      /\ pc[t] \in {"prepareCp", "reasonCp", "actCp", "observeCp", "endCp"}
  BY <1>1, <1>2 DEF RunCheckpoint, Goto, AfterCp, Base, TypeInv, TypeOK
<1>4. pc[t] # "endCp"
  BY <1>3 DEF MidFlight, Settled, Terminal, Base, TypeInv, ReadyToEmit
<1>5. pc'[t] \in {"build", "sample", "act", "loop"}
  BY <1>3, <1>4 DEF AfterCp
<1>6. task'[t] = "run"
  BY RunAlone, RunFrame
<1>7. sess[u] = sess[t]
  BY <1>1, <1>3 DEF Base, Rows, Identity
<1> QED BY <1>5, <1>6, <1>7 DEF Bound

LEMMA UpHeals ==
  ASSUME Base, Base', [Next]_vars, BoundStep, mode = "up", mode' = "up",
         NEW t \in Turn, Heals(t),
         cp[t] \notin MidFlight /\ cp'[t] \in MidFlight
           => \E u \in Turn : sess'[u] = sess'[t] /\ Bound(u)'
  PROVE  Heals(t)'
<1> SUFFICES ASSUME cp'[t] \in MidFlight, Row(t)'.state \in MidFlight
             PROVE  \E u \in Turn : sess'[u] = sess'[t] /\ Bound(u)'
  BY DEF Heals
<1>1. CASE cp[t] \in MidFlight
  <2>1. host[t] # "idle"
    BY <1>1 DEF Base, Rows, Identity, MidFlight
  <2>2. sess'[t] = sess[t] /\ sess[t] \in Session
    BY <2>1, Onward DEF Base, TypeInv, Placed
  <2>3. CASE Row(t)' = Row(t)
    <3>1. PICK u \in Turn : sess[u] = sess[t] /\ Bound(u)
      BY <1>1, <2>3 DEF Heals
    <3>2. sess'[u] = sess[u] /\ Bound(u)'
      BY <2>2, <3>1 DEF BoundStep, Row
    <3> QED BY <2>2, <3>1, <3>2
  <2>4. CASE Row(t)' # Row(t)
    BY <2>2, <2>4 DEF BoundStep, Row
  <2> QED BY <2>3, <2>4
<1>2. CASE cp[t] \notin MidFlight
  BY <1>2
<1> QED BY <1>1, <1>2

(* In recovery only fail_turn writes, and only to fail a turn.              *)
LEMMA BootHeals ==
  ASSUME Base, [Next]_vars, mode = "boot", mode' = "boot",
         NEW t \in Turn, Heals(t), cp'[t] = cp[t],
         \/ Row(t)' = Row(t) \/ Row(t)'.state = "failed",
         t \in todo => t \in todo' \/ proc'["boot"][t] = "read",
         proc["boot"][t] \in {"read", "set"}
           => proc'["boot"][t] \in {"read", "set"} \/ Row(t)'.state \in Settled
  PROVE  Heals(t)'
BY DEF Heals, MidFlight, Settled, Terminal

LEMMA ProcHeals ==
  ASSUME Base, Base', [Next]_vars, NEW c \in Caller, NEW t \in Turn, ProcStep(c, t),
         NEW u \in Turn, Heals(u)
  PROVE  Heals(u)'
<1>1. /\ UNCHANGED <<host, sess, mode, todo>>
      /\ \A d \in Caller, x \in Turn : d # c \/ x # t => proc'[d][x] = proc[d][x]
  BY ProcFrame, ProcMoves DEF Base
<1>2. cp'[u] = cp[u] \/ cp'[u] \notin MidFlight
  BY DEF ProcStep, HealRead, FailRead, FailSet, FailCheckpoint, FailEmit, shared,
         MidFlight, Base, TypeInv, TypeOK
<1>3. CASE mode = "up"
  <2>1. BoundStep
    BY ProcBound, RunsTasked DEF Base
  <2> QED BY <1>1, <1>2, <1>3, <2>1, UpHeals
<1>4. CASE mode = "boot" /\ cp'[u] = cp[u] /\ host[u] # "idle"
  <2>1. c = "boot" /\ sess[u] \in Session /\ sess[t] \in Session
    <3>1. c = "boot"
      BY <1>4, ProcMoves, ProcStaged DEF Base
    <3>2. host[t] # "idle"
      BY <3>1, ProcMoves DEF Base, Rows, Identity, Failing
    <3> QED BY <1>4, <3>1, <3>2 DEF Base, TypeInv, Placed
  <2>2. Row(u)' = Row(u) \/ Row(u)'.state = "failed"
    BY <1>1, <2>1 DEF Row, ProcStep, HealRead, FailRead, FailSet, FailCheckpoint,
                      FailEmit, shared, Base, TypeInv, TypeOK
  <2>3. ASSUME proc["boot"][u] \in {"read", "set"}
        PROVE  proc'["boot"][u] \in {"read", "set"} \/ Row(u)'.state \in Settled
    <3>1. CASE u # t
      BY <1>1, <2>1, <2>3, <3>1
    <3>2. CASE u = t
      <4>1. FailRead(c, t) \/ FailSet(c, t)
        BY <2>1, <2>3, <3>2 DEF ProcStep, HealRead, FailCheckpoint, FailEmit
      <4>2. CASE FailRead(c, t)
        <5>1. /\ UNCHANGED active
              /\ (Mine(t) /\ Row(t).state \in Settled) \/ proc'["boot"][t] = "set"
          BY <2>1, <4>2 DEF FailRead, SetProc, shared, Mine, Row, Base, TypeInv, TypeOK
        <5> QED BY <1>1, <3>2, <5>1 DEF Row
      <4>3. CASE FailSet(c, t)
        BY <1>1, <2>1, <3>2, <4>3
           DEF FailSet, Row, Settled, Terminal, Base, TypeInv, TypeOK
      <4> QED BY <4>1, <4>2, <4>3
    <3> QED BY <3>1, <3>2
  <2> QED BY <1>1, <1>4, <2>2, <2>3, BootHeals
<1>5. CASE mode = "boot" /\ ~(cp'[u] = cp[u] /\ host[u] # "idle")
  <2>1. cp[u] # "none" => host[u] # "idle"
    BY DEF Base, Rows, Identity
  <2> QED BY <1>1, <1>2, <1>5, <2>1 DEF Heals, MidFlight
<1> QED BY <1>3, <1>4, <1>5 DEF Base, TypeInv, TypeOK

(* The steps that touch neither a row nor a checkpoint.                     *)
LEMMA QuietHeals ==
  ASSUME Base, Base', [Next]_vars, BoundStep, UNCHANGED <<active, cp, mode>>,
         NEW t \in Turn, Heals(t),
         t \in todo => t \in todo' \/ proc'["boot"][t] = "read",
         proc["boot"][t] \in {"read", "set"} => proc'["boot"][t] \in {"read", "set"}
  PROVE  Heals(t)'
<1>1. CASE mode = "up"
  BY <1>1, UpHeals
<1>2. CASE mode = "boot" /\ cp[t] = "none"
  BY <1>2 DEF Heals, MidFlight
<1>3. CASE mode = "boot" /\ cp[t] # "none"
  <2>1. Row(t)' = Row(t)
    BY <1>3, Onward DEF Base, Rows, Identity, Row
  <2> QED BY <1>3, <2>1, BootHeals
<1> QED BY <1>1, <1>2, <1>3 DEF Base, TypeInv, TypeOK

LEMMA StepHeals ==
  ASSUME Base, Base', [Next]_vars, NEW u \in Turn, Heals(u)
  PROVE  Heals(u)'
<1>t. /\ proc \in [Caller -> [Turn -> ProcPc]] /\ mode \in {"up", "boot"} /\ RunsHaveTask
      /\ Caller = {"task", "fail", "cancel", "boot"}
  BY RunsTasked DEF Base, TypeInv, TypeOK, Caller
<1>1. CASE Crash
  <2>1. mode' = "boot" /\ (cp'[u] \in MidFlight => u \in todo')
    BY <1>1 DEF Crash, shared
  <2> QED BY <2>1 DEF Heals
<1>2. CASE BootDone
  <2>1. /\ UNCHANGED <<active, cp, sess>> /\ mode = "boot" /\ u \notin todo
        /\ proc["boot"][u] = "off"
    BY <1>2 DEF BootDone, Recovering, shared
  <2> QED BY <2>1 DEF Heals, Row
<1>3. CASE UNCHANGED vars
  BY <1>3 DEF vars, run, shared, control, Heals, Row, Bound
<1>4. ASSUME NEW t \in Turn, RunStep(t) PROVE Heals(u)'
  <2>1. BoundStep /\ UNCHANGED <<sess, mode>> /\ mode = "up"
    BY <1>4, <1>t, RunBound, RunFrame, RunAlone DEF Base
  <2>2. cp[u] \notin MidFlight /\ cp'[u] \in MidFlight
          => \E x \in Turn : sess'[x] = sess'[u] /\ Bound(x)'
    BY <1>4, <2>1, CheckpointBound
  <2> QED BY <2>1, <2>2, UpHeals
<1>5. ASSUME NEW t \in Turn, TaskStep(t) PROVE Heals(u)'
  <2>1. BoundStep
    BY <1>5, <1>t, TaskBound DEF Base
  <2>2. UNCHANGED <<active, cp, mode, todo>> /\ proc'["boot"][u] = proc["boot"][u]
    BY <1>5, <1>t, TaskMoves DEF Base
  <2> QED BY <2>1, <2>2, QuietHeals
<1>6. ASSUME NEW t \in Turn,
             \/ Register(t) \/ CancelReturn(t) \/ HostObserve(t) \/ HostGiveUp(t)
             \/ BootFail(t) \/ BootReturn(t) \/ Request(t)
      PROVE  Heals(u)'
  <2>1. BoundStep
    BY <1>6, <1>t, OtherBound DEF Base
  <2>2. UNCHANGED <<active, cp, mode>>
    BY <1>6 DEF Register, CancelReturn, HostObserve, HostGiveUp, BootFail, BootReturn,
                Request, Admit, CancelRpc, HostTimeout, shared, control
  <2>3. /\ u \in todo => u \in todo' \/ proc'["boot"][u] = "read"
        /\ proc["boot"][u] \in {"read", "set"} => proc'["boot"][u] \in {"read", "set"}
    <3>1. CASE BootFail(t)
      BY <1>t, <3>1 DEF BootFail, Recovering, SetProc
    <3>2. CASE ~BootFail(t)
      <4>1. UNCHANGED todo /\ (proc["boot"][u] # "back" => proc'["boot"][u] = proc["boot"][u])
        BY <1>6, <1>t, <3>2 DEF Register, CancelReturn, HostObserve, HostGiveUp, BootReturn,
                Request, Admit, CancelRpc, HostTimeout, control, SetProc
      <4> QED BY <4>1
    <3> QED BY <3>1, <3>2
  <2> QED BY <2>1, <2>2, <2>3, QuietHeals
<1> QED BY <1>1, <1>2, <1>3, <1>4, <1>5, <1>6, ProcHeals DEF Next, Progress

(* Recovery at boot leaves no session in the middle that it has a mid-flight *)
(* checkpoint for, whichever turn the checkpoint is about, in spite of       *)
(* overlapping turns, of runs that took one for the other, and of crashes    *)
(* during recovery itself (recover_on_boot).                                 *)
THEOREM RecoveryComplete == Spec => []RecoveryHeals
<1> DEFINE HealInv == Base /\ \A t \in Turn : Heals(t)
<1>1. Init => HealInv
  BY InitBase DEF Init, Heals, MidFlight
<1>2. HealInv /\ [Next]_vars => HealInv'
  BY NextBase, StepHeals
<1>3. HealInv => RecoveryHeals
  BY DEF Heals, Row, Bound, Live, RecoveryHeals
<1> QED BY <1>1, <1>2, <1>3, PTL DEF Spec

-----------------------------------------------------------------------------
(* A turn that had the session to itself.  Another turn of the session is   *)
(* parked: its host is done with it and its task over, no fail_turn is on   *)
(* its way, and the row is not about it unless it is at rest there.         *)
Engaged(t) == host[t] = "starting" \/ Live(t)

Parked(u) ==
  /\ host[u] = "done" /\ ~Live(u)
  /\ \A c \in Caller \ {"cancel"} : proc[c][u] \in {"off", "done"}
  /\ proc["cancel"][u] \in {"off", "done", "heal", "back"}
  /\ ~(Mine(u) /\ Row(u).state \in MidFlight)

Apart(t) ==
  /\ pc[t] # "none" => view[t].turn = t
  /\ pc[t] \notin {"none", "accept"} /\ Live(t) => Mine(t)
  /\ Engaged(t) => \A u \in Turn \ {t} : sess[u] = sess[t] => Parked(u)

Unplaced == \A t \in Turn : host[t] = "idle" => sess[t] = NoSession

ApartInv == Unplaced /\ \A t \in Turn \ met : Apart(t)

(* A step of one turn leaves the other turns' own state alone.              *)
LEMMA Elsewhere ==
  ASSUME Base, NEW x \in Turn, Progress(x) \/ Request(x), NEW u \in Turn \ {x}
  PROVE  /\ host'[u] = host[u] /\ sess'[u] = sess[u] /\ pc'[u] = pc[u]
         /\ view'[u] = view[u] /\ task'[u] = task[u]
         /\ \A c \in Caller : proc'[c][u] = proc[c][u]
<1>t. /\ host \in [Turn -> HostPc] /\ sess \in [Turn -> Session \cup {NoSession}]
      /\ pc \in [Turn -> RunPc] /\ view \in [Turn -> View] /\ task \in [Turn -> TaskPc]
      /\ proc \in [Caller -> [Turn -> ProcPc]] /\ Caller = {"task", "fail", "cancel", "boot"}
  BY DEF Base, TypeInv, TypeOK, Caller
<1>1. CASE RunStep(x)
  BY <1>1, RunFrame, RunGoesOn, RunEffect DEF Base
<1>2. CASE \E c \in Caller : ProcStep(c, x)
  BY <1>2, ProcFrame, ProcMoves DEF Base
<1>3. CASE TaskStep(x)
  BY <1>3, TaskMoves DEF Base
<1>4. CASE Register(x) \/ \E s \in Session : Admit(x, s)
  BY <1>t, <1>4 DEF Register, Admit, run
<1>5. CASE CancelReturn(x) \/ CancelRpc(x) \/ BootFail(x) \/ BootReturn(x)
  BY <1>t, <1>5 DEF CancelReturn, CancelRpc, BootFail, BootReturn, SetProc, run
<1>6. CASE HostObserve(x) \/ HostGiveUp(x) \/ HostTimeout(x)
  BY <1>t, <1>6 DEF HostObserve, HostGiveUp, HostTimeout, SetProc, run
<1> QED BY <1>1, <1>2, <1>3, <1>4, <1>5, <1>6 DEF Progress, Request

LEMMA MetGrows ==
  ASSUME [Next]_vars PROVE met \subseteq met'
<1>1. ASSUME NEW t \in Turn, Progress(t) \/ Request(t) PROVE met \subseteq met'
  BY <1>1, RunFrame
     DEF Progress, Request, Register, TaskStep, TaskJoin, TaskHeal, TaskUnregister,
         TaskDropCount, TaskDropPermit, CancelReturn, HostObserve, HostGiveUp, BootFail,
         BootReturn, ProcStep, Admit, CancelRpc, HostTimeout, past
<1> QED BY <1>1 DEF Next, Crash, BootDone, vars, past

(* The run of such a turn reads its own turn back.                          *)
LEMMA RunApart ==
  ASSUME Base, NEW t \in Turn, Apart(t), RunStep(t)
  PROVE  view'[t].turn = t /\ Mine(t)'
<1>1. /\ task[t] = "run" /\ pc[t] # "none" /\ sess[t] \in Session
      /\ UNCHANGED sess /\ active \in [Session -> View]
  BY RunAlone, RunFrame DEF Flying, Ending, Base, TypeInv, TypeOK
<1>2. view[t].turn = t /\ (pc[t] # "accept" => Mine(t))
  BY <1>1 DEF Apart, Live
<1>3. view'[t].turn = t
  BY <1>2, RunEffect DEF Mine, Base
<1>4. Mine(t)'
  <2>1. CASE UNCHANGED active /\ pc[t] # "accept"
    BY <1>1, <1>2, <2>1 DEF Mine, Row
  <2>2. CASE \E st \in State :
               active' = [active EXCEPT ![sess[t]] = [turn |-> view[t].turn, state |-> st]]
    BY <1>1, <1>2, <2>2 DEF Mine, Row
  <2> QED BY <2>1, <2>2, RunEffect DEF Base
<1> QED BY <1>3, <1>4

(* What a parked turn can still do is to have a late cancel find nothing.   *)
LEMMA ParkedMoves ==
  ASSUME Base, mode = "up", NEW u \in Turn, Parked(u), Progress(u) \/ Request(u)
  PROVE  Parked(u)' /\ UNCHANGED <<active, pc, view>>
<1>t. /\ proc \in [Caller -> [Turn -> ProcPc]] /\ task \in [Turn -> TaskPc]
      /\ Caller = {"task", "fail", "cancel", "boot"}
  BY DEF Base, TypeInv, TypeOK, Caller
<1> DEFINE Frame == UNCHANGED <<host, sess, active, pc, view>> /\ ~Live(u)'
<1>m. ASSUME Frame PROVE ~(Mine(u) /\ Row(u).state \in MidFlight)' /\ host'[u] = "done"
  BY <1>m DEF Parked, Mine, Row
<1>1. ~RunStep(u)
  BY RunAlone DEF Parked, Live
<1>2. CASE \E c \in Caller : ProcStep(c, u)
  <2>1. PICK c \in Caller : ProcStep(c, u)
    BY <1>2
  <2>2. c = "cancel" /\ proc[c][u] = "heal"
    BY <2>1, ProcMoves DEF Parked, Failing, Base
  <2>3. HealRead(c, u)
    BY <2>1, <2>2 DEF ProcStep, FailRead, FailSet, FailCheckpoint, FailEmit
  <2>4. SetProc(c, u, "back") /\ UNCHANGED active
    BY <2>3 DEF HealRead, Parked, Mine, Row, shared
  <2>5. Frame
    BY <2>1, <2>4, ProcFrame DEF Parked, Live
  <2>6. /\ \A d \in Caller \ {"cancel"} : proc'[d][u] = proc[d][u]
        /\ proc'["cancel"][u] = "back"
    BY <1>t, <2>2, <2>4 DEF SetProc
  <2> QED BY <1>m, <2>5, <2>6 DEF Parked
<1>3. CASE TaskStep(u)
  <2>1. /\ UNCHANGED <<host, sess, pc, view, active>> /\ task'[u] \in Over \ {"healing"}
        /\ proc'["task"][u] = "off" /\ \A d \in Caller \ {"task"} : proc'[d][u] = proc[d][u]
    BY <1>3, TaskMoves DEF Parked, Live, Base
  <2>2. Frame
    BY <2>1 DEF Live, Over
  <2>3. \A d \in Caller : d # "task" => proc'[d][u] = proc[d][u]
    BY <2>1
  <2> QED BY <1>t, <1>m, <2>1, <2>2, <2>3 DEF Parked
<1>4. CASE CancelReturn(u) \/ CancelRpc(u)
  <2>1. /\ UNCHANGED <<host, sess, pc, view, active, task>>
        /\ \A d \in Caller \ {"cancel"} : proc'[d][u] = proc[d][u]
        /\ proc'["cancel"][u] \in {"done", "heal"}
    BY <1>t, <1>4 DEF CancelReturn, CancelRpc, SetProc, run, shared
  <2>2. Frame
    BY <2>1 DEF Live, Parked
  <2> QED BY <1>m, <2>1, <2>2 DEF Parked
<1>5. ~Register(u) /\ ~HostObserve(u) /\ ~HostGiveUp(u) /\ ~HostTimeout(u)
      /\ ~BootFail(u) /\ ~BootReturn(u) /\ \A s \in Session : ~Admit(u, s)
  BY <1>t DEF Register, HostObserve, HostGiveUp, HostTimeout, BootFail, BootReturn,
              Admit, Parked
<1> QED BY <1>1, <1>2, <1>3, <1>4, <1>5 DEF Progress, Request

(* While a turn that nobody has met is engaged, the others stay parked.     *)
LEMMA ParkedStays ==
  ASSUME Base, ApartInv, NEW t \in Turn \ met, t \notin met', Engaged(t), mode = "up",
         NEW x \in Turn, Progress(x) \/ Request(x), sess'[t] = sess[t], sess[t] \in Session,
         NEW u \in Turn \ {t}, sess'[u] = sess[t]
  PROVE  Parked(u)'
<1>t. /\ active \in [Session -> View] /\ Apart(t) /\ NoSession \notin Session
      /\ sess \in [Turn -> Session \cup {NoSession}] /\ host \in [Turn -> HostPc]
  BY NullAssumption DEF Base, TypeInv, TypeOK, ApartInv
<1>1. sess[u] = sess[t]
  <2> SUFFICES ASSUME sess[u] # sess[t] PROVE FALSE
    OBVIOUS
  <2>1. x = u
    BY Elsewhere
  <2>2. Admit(u, sess[t])
    <3>1. ASSUME NEW s \in Session, Admit(u, s) PROVE s = sess[t]
      BY <1>t, <3>1 DEF Admit
    <3>2. UNCHANGED sess \/ \E s \in Session : Admit(u, s)
      BY <2>1, RunFrame, TaskMoves, ProcFrame
         DEF Progress, Request, Register, CancelReturn, CancelRpc, HostObserve,
             HostGiveUp, HostTimeout, BootFail, BootReturn, Base
    <3> QED BY <1>t, <3>1, <3>2
  <2>3. t \in Company(sess[t])
    BY DEF Company, Busy, Engaged
  <2> QED BY <2>2, <2>3 DEF Admit
<1>2. Parked(u)
  BY <1>t, <1>1 DEF Apart
<1>3. CASE x = u
  BY <1>2, <1>3, ParkedMoves
<1>4. CASE x # u
  <2>1. /\ host'[u] = host[u] /\ sess'[u] = sess[u] /\ task'[u] = task[u]
        /\ \A c \in Caller : proc'[c][u] = proc[c][u]
    BY <1>4, Elsewhere
  <2>2. Row(u)' = Row(u) \/ Row(u)'.turn # u
    <3>1. CASE RunStep(x)
      <4>1. /\ sess[x] \in Session /\ task[x] = "run"
            /\ \/ UNCHANGED active
               \/ \E st \in State :
                    active' = [active EXCEPT ![sess[x]] = [turn |-> view[x].turn, state |-> st]]
        BY <3>1, RunAlone, RunEffect DEF Base
      <4>2. CASE sess[x] # sess[u]
        BY <1>t, <1>1, <2>1, <4>1, <4>2 DEF Row
      <4>3. CASE sess[x] = sess[u]
        <5>1. x = t
          BY <1>t, <1>1, <4>1, <4>3 DEF Apart, Parked, Live
        <5>2. view[x].turn = t
          BY <1>t, <3>1, <5>1, RunAlone DEF Apart, Flying, Ending
        <5> QED BY <1>t, <1>1, <2>1, <4>1, <4>3, <5>2 DEF Row
      <4> QED BY <4>2, <4>3
    <3>2. CASE \E c \in Caller : ProcStep(c, x)
      <4>1. \/ UNCHANGED active
            \/ active' = [active EXCEPT ![sess[x]] = [turn |-> x, state |-> "failed"]]
        BY <3>2 DEF ProcStep, HealRead, FailRead, FailSet, FailCheckpoint, FailEmit, shared
      <4> QED BY <1>t, <1>1, <1>4, <2>1, <4>1 DEF Row
    <3>3. CASE ~RunStep(x) /\ ~\E c \in Caller : ProcStep(c, x)
      <4>1. UNCHANGED active
        BY <3>3, TaskMoves
           DEF Progress, Request, Register, CancelReturn, CancelRpc, HostObserve,
               HostGiveUp, HostTimeout, BootFail, BootReturn, Admit, shared, Base
      <4> QED BY <2>1, <4>1 DEF Row
    <3> QED BY <3>1, <3>2, <3>3
  <2>3. "cancel" \in Caller
    BY DEF Caller
  <2> QED BY <1>2, <2>1, <2>2, <2>3 DEF Parked, Mine, Live
<1> QED BY <1>3, <1>4

LEMMA StepApart ==
  ASSUME Base, Base', ApartInv, NEW t \in Turn \ met, t \notin met', mode = "up",
         NEW x \in Turn, Progress(x) \/ Request(x), [Next]_vars
  PROVE  Apart(t)'
<1>a. Apart(t) /\ Stages(t) /\ Stages(t)'
  BY DEF ApartInv, Base, Steady
<1>t. /\ pc \in [Turn -> RunPc] /\ view \in [Turn -> View] /\ task \in [Turn -> TaskPc]
      /\ active \in [Session -> View] /\ proc \in [Caller -> [Turn -> ProcPc]]
      /\ host \in [Turn -> HostPc] /\ sess \in [Turn -> Session \cup {NoSession}]
      /\ NoSession \notin Session
  BY NullAssumption DEF Base, TypeInv, TypeOK
<1>1. pc'[t] # "none" => view'[t].turn = t
  <2>1. CASE x # t
    BY <1>a, <2>1, Elsewhere DEF Apart
  <2>2. CASE x = t /\ RunStep(t)
    BY <1>a, <2>2, RunApart
  <2>3. CASE x = t /\ Register(t)
    BY <1>t, <2>3 DEF Register
  <2>4. CASE x = t /\ ~RunStep(t) /\ ~Register(t)
    <3>1. UNCHANGED <<pc, view>>
      BY <2>4, TaskMoves, ProcFrame
         DEF Progress, Request, CancelReturn, CancelRpc, HostObserve, HostGiveUp,
             HostTimeout, BootFail, BootReturn, Admit, run, Base
    <3> QED BY <1>a, <3>1 DEF Apart
  <2> QED BY <2>1, <2>2, <2>3, <2>4
<1>2. ASSUME pc'[t] \notin {"none", "accept"}, Live(t)' PROVE Mine(t)'
  <2>1. CASE x = t /\ RunStep(t)
    BY <1>a, <2>1, RunApart
  <2>2. CASE ~(x = t /\ RunStep(t))
    <3>1. pc[t] \notin {"none", "accept"} /\ Live(t)
      <4>1. CASE x # t
        BY <1>2, <4>1, Elsewhere DEF Live
      <4>2. CASE x = t /\ TaskStep(t)
        BY <1>2, <4>2, TaskMoves DEF Live, Over, Base
      <4>3. CASE x = t /\ ~TaskStep(t)
        <5>1. ~Register(t)
          BY <1>t, <1>2 DEF Register
        <5>2. UNCHANGED <<pc, task>>
          BY <2>2, <4>3, <5>1, ProcFrame
             DEF Progress, Request, CancelReturn, CancelRpc, HostObserve, HostGiveUp,
                 HostTimeout, BootFail, BootReturn, Admit, run
        <5> QED BY <1>2, <5>2 DEF Live
      <4> QED BY <4>1, <4>2, <4>3
    <3>2. /\ Mine(t) /\ Engaged(t) /\ sess[t] \in Session /\ host[t] # "idle"
          /\ sess'[t] = sess[t]
      <4>1. host[t] # "idle"
        BY <3>1 DEF Base, TypeInv, Placed
      <4> QED BY <1>a, <3>1, <4>1, Onward DEF Apart, Engaged, Base, TypeInv, Placed
    <3>3. Row(t)' = Row(t) \/ Row(t)'.turn = t
      <4>1. CASE RunStep(x)
        <5>1. x # t /\ task[x] = "run" /\ sess[x] \in Session
              /\ \/ UNCHANGED active
                 \/ \E st \in State :
                      active' = [active EXCEPT ![sess[x]] = [turn |-> view[x].turn, state |-> st]]
          BY <2>2, <4>1, RunAlone, RunEffect DEF Base
        <5>2. sess[x] # sess[t]
          BY <1>a, <3>2, <5>1 DEF Apart, Parked, Live
        <5> QED BY <1>t, <3>2, <5>1, <5>2 DEF Row
      <4>2. CASE \E c \in Caller : ProcStep(c, x)
        <5>1. PICK c \in Caller : ProcStep(c, x)
          BY <4>2
        <5>2. CASE FailSet(c, x)
          <6>1. active' = [active EXCEPT ![sess[x]] = [turn |-> x, state |-> "failed"]]
                /\ proc[c][x] = "set"
            BY <5>2 DEF FailSet
          <6>2. sess[x] = sess[t] => x = t
            BY <1>a, <3>2, <6>1 DEF Apart, Parked
          <6> QED BY <1>t, <3>2, <6>1, <6>2 DEF Row
        <5>3. CASE ~FailSet(c, x)
          <6>1. UNCHANGED active
            BY <5>1, <5>3 DEF ProcStep, HealRead, FailRead, FailCheckpoint, FailEmit, shared
          <6> QED BY <3>2, <6>1 DEF Row
        <5> QED BY <5>2, <5>3
      <4>3. CASE ~RunStep(x) /\ ~\E c \in Caller : ProcStep(c, x)
        <5>1. UNCHANGED active
          BY <4>3, TaskMoves
             DEF Progress, Request, Register, CancelReturn, CancelRpc, HostObserve,
                 HostGiveUp, HostTimeout, BootFail, BootReturn, Admit, shared, Base
        <5> QED BY <3>2, <5>1 DEF Row
      <4> QED BY <4>1, <4>2, <4>3
    <3> QED BY <3>2, <3>3 DEF Mine
  <2> QED BY <2>1, <2>2
<1>3. ASSUME Engaged(t)', NEW u \in Turn \ {t}, sess'[u] = sess'[t]
      PROVE  Parked(u)'
  <2>1. CASE Engaged(t)
    <3>1. host[t] # "idle"
      BY <2>1 DEF Engaged, Live, Base, TypeInv, Placed
    <3>2. sess'[t] = sess[t] /\ sess[t] \in Session
      BY <3>1, Onward DEF Base, TypeInv, Placed
    <3> QED BY <1>3, <2>1, <3>2, ParkedStays
  <2>2. CASE ~Engaged(t)
    <3>1. x = t
      BY <1>3, <2>2, Elsewhere DEF Engaged, Live
    <3>2. ~RunStep(t) /\ ~TaskStep(t) /\ ~Register(t)
      BY <1>3, <2>2, RunAlone, TaskMoves DEF Engaged, Live, Register, Over, Base
    <3>3. \E s \in Session : Admit(t, s)
      <4>1. \/ UNCHANGED <<host, task>>
            \/ UNCHANGED task /\ \E to \in {"done", "failing"} : host' = [host EXCEPT ![t] = to]
            \/ \E s \in Session : Admit(t, s)
        BY <3>1, <3>2, ProcFrame
           DEF Progress, Request, CancelReturn, CancelRpc, HostObserve, HostGiveUp,
               HostTimeout, BootFail, BootReturn
      <4> QED BY <1>t, <1>3, <2>2, <4>1 DEF Engaged, Live
    <3>4. PICK s \in Session : Admit(t, s)
      BY <3>3
    <3>5. /\ Company(s) = {} /\ sess'[t] = s /\ sess[u] = s /\ sess'[u] = sess[u]
          /\ UNCHANGED <<active, task, proc>> /\ host'[u] = host[u]
      BY <1>t, <1>3, <3>4 DEF Admit, shared
    <3>6. ~Busy(u) /\ host[u] # "idle"
      BY <1>t, <3>5 DEF Company, ApartInv, Unplaced
    <3> QED BY <3>5, <3>6 DEF Busy, Parked, Live, Mine, Row, Caller
  <2> QED BY <2>1, <2>2
<1> QED BY <1>1, <1>2, <1>3 DEF Apart

LEMMA NextApart == Base /\ Base' /\ ApartInv /\ [Next]_vars => ApartInv'
<1> SUFFICES ASSUME Base, Base', ApartInv, [Next]_vars PROVE ApartInv'
  OBVIOUS
<1>t. /\ host \in [Turn -> HostPc] /\ sess \in [Turn -> Session \cup {NoSession}]
  BY DEF Base, TypeInv, TypeOK
<1>1. ASSUME NEW t \in Turn, host'[t] = "idle" PROVE sess'[t] = NoSession
  <2>1. host[t] = "idle"
    BY <1>1, Onward DEF Base
  <2>2. UNCHANGED sess \/ \E x \in Turn, s \in Session : Admit(x, s)
    BY RunFrame, TaskMoves, ProcFrame
       DEF Next, Crash, BootDone, vars, Progress, Request, Register, CancelReturn,
           CancelRpc, HostObserve, HostGiveUp, HostTimeout, BootFail, BootReturn, Base
  <2> QED BY <1>1, <1>t, <2>1, <2>2 DEF ApartInv, Unplaced, Admit
<1>2. ASSUME NEW t \in Turn, t \notin met' PROVE Apart(t)'
  <2>0. t \notin met /\ Apart(t) /\ Stages(t) /\ mode \in {"up", "boot"}
        /\ Stages(t)'
    BY <1>2, MetGrows DEF ApartInv, Base, Steady, TypeInv, TypeOK
  <2>1. CASE Crash
    <3>1. pc'[t] = "none" /\ task'[t] = "none" /\ host'[t] # "starting"
      BY <2>1 DEF Crash
    <3> QED BY <3>1 DEF Apart, Engaged, Live
  <2>2. CASE BootDone \/ UNCHANGED vars
    <3>1. UNCHANGED <<host, sess, pc, view, task, proc, active>>
      BY <2>2 DEF BootDone, vars, run, shared
    <3> QED BY <2>0, <3>1 DEF Apart, Engaged, Parked, Live, Mine, Row
  <2>3. CASE mode = "boot" /\ \E x \in Turn : Progress(x) \/ Request(x)
    <3>1. mode' = "boot"
      BY <2>3, RunFrame, TaskMoves, ProcFrame
         DEF Progress, Request, Register, CancelReturn, CancelRpc, HostObserve,
             HostGiveUp, HostTimeout, BootFail, BootReturn, Admit, control, Base
    <3>2. task'[t] = "none" /\ host'[t] # "starting" /\ pc'[t] = "none"
      BY <2>0, <3>1 DEF Stages
    <3> QED BY <3>2 DEF Apart, Engaged, Live
  <2>4. CASE mode = "up" /\ \E x \in Turn : Progress(x) \/ Request(x)
    BY <1>2, <2>0, <2>4, StepApart
  <2> QED BY <2>0, <2>1, <2>2, <2>3, <2>4 DEF Next
<1> QED BY <1>1, <1>2 DEF ApartInv, Unplaced

(* The turn that is read back after a tool batch is the run's own, unless   *)
(* another turn of the session was going on beside it: neither a late       *)
(* cancel nor recovery nor an orphaned row puts an older turn in its place. *)
THEOREM IdentityKept == Spec => []OwnIdentity
<1>1. Init => ApartInv
  BY DEF Init, ApartInv, Unplaced, Apart, Engaged, Live
<1>2. Base /\ ApartInv /\ [Next]_vars => Base' /\ ApartInv'
  BY NextBase, NextApart
<1>3. ApartInv => OwnIdentity
  BY DEF ApartInv, Apart, OwnIdentity
<1> QED BY <1>1, <1>2, <1>3, InitBase, PTL DEF Spec

-----------------------------------------------------------------------------
(* The refinement of TurnService.  A turn that was announced is its task's  *)
(* to end, or was interrupted with it.                                      *)
Announced(t) ==
  /\ host[t] \in {"idle", "starting"} \/ pc[t] \in {"accept", "announce"}
       => log[t] = <<>>
  /\ pc[t] \in (Flying \ {"announce"}) \cup Ending => log[t] # <<>>
  /\ log[t] # <<>> /\ Outcomes(t) = {}
       => \/ pc[t] \in Flying \cup Ending
          \/ pc[t] = "err" /\ task[t] = "run"
          \/ proc["task"][t] \in Failing
          \/ task[t] = "none"

ServeInv == Inv /\ \A t \in Turn \ contested : Announced(t)

LEMMA InitServe == Init => \A t \in Turn : Announced(t)
BY DEF Init, Announced, Flying, Ending

(* A turn of which nothing moves but its host, a handler or recovery.       *)
LEMMA ServeFrame ==
  ASSUME NEW t \in Turn, Announced(t),
         host[t] \notin {"idle", "starting"} => host'[t] \notin {"idle", "starting"},
         pc'[t] = pc[t], log'[t] = log[t], task'[t] = task[t],
         proc'["task"][t] = proc["task"][t]
  PROVE  Announced(t)'
BY DEF Announced, Outcomes

(* What a step of a run makes of its own turn and its log.                  *)
LEMMA RunTells ==
  ASSUME ServeInv, NEW t \in Turn \ contested, RunStep(t)
  PROVE  \/ RunAccept(t) /\ pc[t] = "accept" /\ pc'[t] = "announce" /\ UNCHANGED log
         \/ /\ pc[t] = "announce" /\ pc'[t] = "prepare"
            /\ log' = [log EXCEPT ![t] = Append(@, "started")]
         \/ /\ pc[t] # "accept" /\ (pc[t] = "announce" => pc'[t] = "err")
            /\ pc'[t] \in (Flying \ {"announce"}) \cup Ending \cup {"err"}
            /\ UNCHANGED log
         \/ /\ RunEmit(t) /\ pc[t] = "endEmit" /\ pc'[t] = "ok"
            /\ view[t].state \in Settled
            /\ log' = [log EXCEPT ![t] = Append(@, view[t].state)]
<1>t. pc \in [Turn -> RunPc] /\ ReadyToEmit
  BY DEF ServeInv, Inv, Base, TypeInv, TypeOK
<1>1. CASE RunAccept(t) \/ RunPrepare(t) \/ RunLoop(t) \/ RunPause(t)
  BY <1>t, <1>1 DEF RunAccept, RunPrepare, RunLoop, RunPause, Write, Flying, Ending
<1>2. CASE RunSample(t) \/ RunAct(t) \/ RunBuild(t)
  BY <1>t, <1>2 DEF RunSample, RunAct, RunBuild, Write, Fail, Goto, shared,
                    Flying, Ending
<1>3. CASE RunAnnounce(t)
  BY <1>t, <1>3 DEF RunAnnounce, Fail, Goto, shared
<1>4. CASE RunCheckpoint(t)
  <2>1. pc[t] \in {"prepareCp", "reasonCp", "actCp", "observeCp", "endCp"}
    BY <1>4 DEF RunCheckpoint, AfterCp
  <2>2. pc'[t] = AfterCp[pc[t]] /\ UNCHANGED log
    BY <1>t, <1>4 DEF RunCheckpoint, Goto
  <2>3. AfterCp[pc[t]] \in {"build", "sample", "act", "loop", "endEmit"}
    BY <2>1 DEF AfterCp
  <2> QED BY <2>1, <2>2, <2>3 DEF Flying, Ending
<1>5. CASE RunReread(t) \/ RunRaise(t)
  BY <1>t, <1>5 DEF RunReread, RunRaise, Goto, shared, Flying, Ending
<1>6. CASE RunEmit(t)
  BY <1>t, <1>6 DEF RunEmit, Goto, ReadyToEmit
<1> QED BY <1>1, <1>2, <1>3, <1>4, <1>5, <1>6 DEF RunStep

LEMMA RunServe ==
  ASSUME ServeInv, NEW t \in Turn, RunStep(t), NEW u \in Turn \ contested
  PROVE  Announced(u)'
<1>0. UNCHANGED <<host, task, proc>>
  BY RunFrame
<1>1. CASE u # t
  <2>1. pc'[u] = pc[u] /\ log'[u] = log[u]
    BY <1>1, RunEffect, RunGoesOn DEF ServeInv, Inv, Base
  <2> QED BY <1>0, <2>1, ServeFrame DEF ServeInv
<1>2. CASE u = t
  <2>0. /\ task[t] = "run" /\ Outcomes(t) = {} /\ host[t] \notin {"idle", "starting"}
        /\ log[t] \in Seq(Event) /\ log \in [Turn -> Seq(Event)] /\ Announced(t)
        /\ pc[t] \in {"accept"} \cup Flying \cup Ending
    BY <1>2, RunAlone, RunSilent DEF ServeInv, Inv, Base, TypeInv, TypeOK
  <2>3. CASE RunAccept(t) /\ pc[t] = "accept" /\ pc'[t] = "announce" /\ UNCHANGED log
    BY <1>0, <1>2, <2>0, <2>3 DEF Announced, Flying, Ending
  <2>5. CASE /\ pc[t] = "announce" /\ pc'[t] = "prepare"
             /\ log' = [log EXCEPT ![t] = Append(@, "started")]
    <3>1. log'[t] # <<>>
      <4>1. Len(Append(log[t], "started")) = Len(log[t]) + 1 /\ Len(log[t]) \in Nat
        BY <2>0 DEF Event
      <4> QED BY <2>0, <2>5, <4>1
    <3> QED BY <1>0, <1>2, <2>0, <2>5, <3>1 DEF Announced, Flying, Ending
  <2>6. CASE /\ pc[t] # "accept" /\ (pc[t] = "announce" => pc'[t] = "err")
             /\ pc'[t] \in (Flying \ {"announce"}) \cup Ending \cup {"err"}
             /\ UNCHANGED log
    <3>1. pc'[t] \in (Flying \ {"announce"}) \cup Ending => log'[t] # <<>>
      BY <2>0, <2>6 DEF Announced, Flying, Ending
    <3>2. pc'[t] \notin {"accept", "announce"}
      BY <2>6 DEF Flying, Ending
    <3>3. pc'[t] \in Flying \cup Ending \/ (pc'[t] = "err" /\ task'[t] = "run")
      BY <1>0, <2>0, <2>6
    <3>4. host'[t] \notin {"idle", "starting"}
      BY <1>0, <2>0
    <3> QED BY <1>2, <3>1, <3>2, <3>3, <3>4 DEF Announced
  <2>4. CASE /\ RunEmit(t) /\ pc'[t] = "ok" /\ view[t].state \in Settled
             /\ log' = [log EXCEPT ![t] = Append(@, view[t].state)]
    <3>1. log'[t] = Append(log[t], view[t].state)
      BY <2>0, <2>4
    <3>3. Len(log[t]) + 1 \in Outcomes(t)'
      BY <2>0, <2>4, <3>1 DEF Outcomes
    <3> QED BY <1>0, <1>2, <2>0, <2>4, <3>3 DEF Announced, Flying, Ending
  <2> QED BY <1>2, <2>3, <2>4, <2>5, <2>6, RunTells
<1> QED BY <1>1, <1>2

LEMMA ProcServe ==
  ASSUME ServeInv, NEW c \in Caller, NEW t \in Turn, ProcStep(c, t),
         NEW u \in Turn \ contested
  PROVE  Announced(u)'
<1>0. UNCHANGED <<host, task, pc>>
  BY ProcFrame
<1>p. /\ Announced(u) /\ log \in [Turn -> Seq(Event)] /\ "task" \in Caller
      /\ proc \in [Caller -> [Turn -> ProcPc]]
  BY DEF ServeInv, Inv, Base, TypeInv, TypeOK, Caller
<1>1. proc[c][t] \in {"heal"} \cup Failing
  BY ProcMoves DEF ServeInv, Inv, Base
<1>3. CASE u = t /\ FailEmit(c, t)
  <2>1. log'[t] = Append(log[t], "failed") /\ log[t] \in Seq(Event)
    BY <1>p, <1>3 DEF FailEmit
  <2>2. Len(log[t]) + 1 \in Outcomes(t)'
    BY <2>1 DEF Outcomes, Settled, Terminal
  <2>3. /\ pc[t] \in {"none", "ok", "err"} /\ host[t] \notin {"idle", "starting"}
    BY <1>1, <1>3, ProcAlone DEF ServeInv
  <2> QED BY <1>0, <1>3, <1>p, <2>2, <2>3 DEF Announced, Flying, Ending
<1>4. CASE ~(u = t /\ FailEmit(c, t))
  <2>1. log'[u] = log[u]
    BY <1>4, <1>p DEF ProcStep, HealRead, FailRead, FailSet, FailCheckpoint,
                      FailEmit, shared
  <2>2. proc["task"][u] \in Failing => proc'["task"][u] \in Failing
    <3>1. CASE c # "task" \/ u # t
      BY <1>p, <3>1, ProcMoves DEF ServeInv, Inv, Base
    <3>2. CASE c = "task" /\ u = t
      <4>1. HealRead(c, t) => proc["task"][u] = "heal"
        BY <3>2 DEF HealRead
      <4>2. FailRead(c, t) => proc'["task"][u] = "set"
        <5> SUFFICES ASSUME FailRead(c, t) PROVE proc'["task"][u] = "set"
          OBVIOUS
        <5>1. Open(t)
          BY <3>2 DEF FailRead, InFlight, ServeInv, Inv, OutcomeInv, TurnInv, Stored
        <5>2. MidFlight \cap Settled = {}
          BY DEF MidFlight, Settled, Terminal
        <5>3. SetProc(c, t, "set")
          BY <5>1, <5>2 DEF FailRead, Open, Mine, Row
        <5> QED BY <1>p, <3>2, <5>3 DEF SetProc
      <4>3. FailSet(c, t) \/ FailCheckpoint(c, t) => proc'["task"][u] \in {"cp", "emit"}
        BY <1>p, <3>2 DEF FailSet, FailCheckpoint, SetProc
      <4> QED BY <1>4, <3>2, <4>1, <4>2, <4>3 DEF ProcStep, Failing
    <3> QED BY <3>1, <3>2
  <2> QED BY <1>0, <1>p, <2>1, <2>2 DEF Announced, Outcomes
<1> QED BY <1>3, <1>4

LEMMA TaskServe ==
  ASSUME ServeInv, NEW t \in Turn, TaskStep(t), NEW u \in Turn \ contested
  PROVE  Announced(u)'
<1>0. UNCHANGED <<host, pc, log>>
  BY TaskMoves DEF ServeInv, Inv, Base
<1>p. Announced(u) /\ "task" \in Caller
  BY DEF ServeInv, Caller
<1>1. CASE u # t
  <2>1. task'[u] = task[u] /\ proc'["task"][u] = proc["task"][u]
    BY <1>1, <1>p, TaskMoves DEF ServeInv, Inv, Base
  <2> QED BY <1>0, <1>p, <2>1, ServeFrame
<1>2. CASE u = t
  <2>1. OneWriter(t) /\ Stages(t)
    BY <1>2 DEF ServeInv, Inv, OutcomeInv, TurnInv, Base, Steady
  <2>2. \/ pc[t] = "err" /\ proc'["task"][t] = "read"
        \/ pc[t] \in {"ok", "err"} /\ proc["task"][t] \notin Failing
             /\ ~(pc[t] = "err" /\ task[t] = "run") /\ task[t] # "none"
    BY <2>1, TaskMoves DEF OneWriter, Stages, Over, Failing, ServeInv, Inv, Base
  <2> QED BY <1>0, <1>2, <1>p, <2>2 DEF Announced, Outcomes, Flying, Ending, Failing
<1> QED BY <1>1, <1>2

LEMMA AdmitServe ==
  ASSUME ServeInv, NEW t \in Turn, Register(t) \/ \E s \in Session : Admit(t, s),
         NEW u \in Turn \ contested
  PROVE  Announced(u)'
<1>0. UNCHANGED <<proc, log>>
  BY DEF Register, Admit, shared
<1>p. /\ Announced(u) /\ task \in [Turn -> TaskPc]
      /\ pc \in [Turn -> RunPc] /\ host \in [Turn -> HostPc] /\ Placed
  BY DEF ServeInv, Inv, Base, TypeInv, TypeOK
<1>1. CASE u # t
  <2>1. task'[u] = task[u] /\ host'[u] = host[u] /\ pc'[u] = pc[u]
    BY <1>1, <1>p DEF Register, Admit, run
  <2> QED BY <1>0, <1>p, <2>1, ServeFrame
<1>2. CASE u = t
  <2>1. log[t] = <<>>
    BY <1>2, <1>p DEF Announced, Register, Admit
  <2>2. \/ host'[t] = "starting" /\ pc'[t] = "none"
        \/ task'[t] = "run" /\ pc'[t] = "accept"
    BY <1>p DEF Register, Admit, run, Placed
  <2> QED BY <1>0, <1>2, <2>1, <2>2 DEF Announced, Flying, Ending
<1> QED BY <1>1, <1>2

LEMMA OtherServe ==
  ASSUME ServeInv, [Next]_vars, NEW u \in Turn \ contested,
         \/ Crash \/ BootDone \/ UNCHANGED vars
         \/ \E t \in Turn : \/ CancelRpc(t) \/ CancelReturn(t) \/ HostObserve(t)
                            \/ HostTimeout(t) \/ HostGiveUp(t)
                            \/ BootFail(t) \/ BootReturn(t)
  PROVE  Announced(u)'
<1>p. Announced(u) /\ proc \in [Caller -> [Turn -> ProcPc]] /\ "task" \in Caller
  BY DEF ServeInv, Inv, Base, TypeInv, TypeOK, Caller
<1>h. host[u] \notin {"idle", "starting"} => host'[u] \notin {"idle", "starting"}
  BY Onward DEF ServeInv, Inv, Base
<1>1. CASE Crash
  <2>1. UNCHANGED log /\ pc'[u] = "none" /\ task'[u] = "none"
    BY <1>1 DEF Crash, shared
  <2> QED BY <1>h, <1>p, <2>1 DEF Announced, Outcomes, Flying, Ending
<1>2. CASE ~Crash
  <2>1. UNCHANGED <<pc, log, task>>
    BY <1>2 DEF BootDone, vars, CancelRpc, CancelReturn, HostObserve, HostTimeout,
                HostGiveUp, BootFail, BootReturn, run, shared
  <2>2. proc'["task"][u] = proc["task"][u]
    <3>1. \/ UNCHANGED proc
          \/ \E c \in Caller \ {"task"}, t \in Turn : \E to : SetProc(c, t, to)
      BY <1>2 DEF BootDone, vars, CancelRpc, CancelReturn, HostObserve, HostTimeout,
                  HostGiveUp, BootFail, BootReturn, Caller
    <3> QED BY <1>p, <3>1 DEF SetProc
  <2> QED BY <1>h, <1>p, <2>1, <2>2, ServeFrame
<1> QED BY <1>1, <1>2

LEMMA NextServe == ServeInv /\ [Next]_vars => ServeInv'
<1> SUFFICES ASSUME ServeInv, [Next]_vars PROVE ServeInv'
  OBVIOUS
<1>0. Inv' /\ contested \subseteq contested'
  BY StepInv, Onward DEF ServeInv, Inv, Base
<1>1. ASSUME NEW u \in Turn \ contested PROVE Announced(u)'
  <2>1. ASSUME NEW t \in Turn, Progress(t) \/ Request(t) PROVE Announced(u)'
    BY <2>1, RunServe, ProcServe, TaskServe, AdmitServe, OtherServe
       DEF Progress, Request
  <2> QED BY <2>1, OtherServe DEF Next
<1> QED BY <1>0, <1>1 DEF ServeInv

(* The steps of the service: those that send an event, those that make a    *)
(* turn contested, and the crash.                                           *)

LEMMA EventStep ==
  ASSUME ServeInv, [Next]_vars, NEW t \in Turn \ contested, log'[t] # log[t]
  PROVE  /\ Outcomes(t) = {} /\ UNCHANGED task /\ \A u \in Turn \ {t} : log'[u] = log[u]
         /\ \/ /\ RunStep(t) /\ log[t] = <<>> /\ task[t] = "run"
               /\ log' = [log EXCEPT ![t] = Append(@, "started")]
            \/ /\ log[t] # <<>> /\ task[t] = "run"
               /\ \E e \in Settled : log' = [log EXCEPT ![t] = Append(@, e)]
            \/ log' = [log EXCEPT ![t] = Append(@, "failed")]
<1>1. \E x \in Turn : RunStep(x) \/ \E c \in Caller : ProcStep(c, x)
  BY Writers
<1>t. log \in [Turn -> Seq(Event)] /\ Announced(t)
  BY DEF ServeInv, Inv, Base, TypeInv, TypeOK
<1>2. ASSUME NEW x \in Turn, RunStep(x)
      PROVE  /\ Outcomes(t) = {} /\ UNCHANGED task /\ x = t /\ task[t] = "run"
             /\ \/ log[t] = <<>> /\ log' = [log EXCEPT ![t] = Append(@, "started")]
                \/ /\ log[t] # <<>>
                   /\ \E e \in Settled : log' = [log EXCEPT ![t] = Append(@, e)]
  <2>1. x = t /\ UNCHANGED task
    BY <1>2, RunEffect, RunFrame DEF ServeInv, Inv, Base
  <2>2. Outcomes(t) = {} /\ task[t] = "run"
    BY <1>2, <2>1, RunSilent, RunAlone DEF ServeInv, Inv
  <2>3. \/ pc[t] = "announce" /\ log' = [log EXCEPT ![t] = Append(@, "started")]
        \/ /\ pc[t] = "endEmit"
           /\ \E e \in Settled : log' = [log EXCEPT ![t] = Append(@, e)]
    BY <1>2, <2>1, RunTells
  <2> QED BY <1>t, <2>1, <2>2, <2>3 DEF Announced, Ending
<1>3. ASSUME NEW x \in Turn, NEW c \in Caller, ProcStep(c, x)
      PROVE  /\ Outcomes(t) = {} /\ UNCHANGED task
             /\ log' = [log EXCEPT ![t] = Append(@, "failed")]
  <2>1. FailEmit(c, x) /\ UNCHANGED task
    BY <1>3, ProcFrame DEF ProcStep, HealRead, FailRead, FailSet, FailCheckpoint, shared
  <2>2. x = t
    BY <1>t, <2>1 DEF FailEmit
  <2> QED BY <2>1, <2>2 DEF FailEmit, Owes, Failing, ServeInv, Inv, OutcomeInv, TurnInv, Told
<1>4. \A u \in Turn \ {t} : log'[u] = log[u]
  BY <1>1, <1>2, <1>3, <1>t
<1> QED BY <1>1, <1>2, <1>3, <1>4

phases == [t \in Turn |-> Phase(t)]

(* The phase of a turn that is not contested.                               *)
LEMMA PhaseIs ==
  ASSUME NEW t \in Turn \ contested
  PROVE  /\ log[t] = <<>> => Phase(t) = "idle"
         /\ log[t] # <<>> /\ Outcomes(t) = {}
              => Phase(t) = IF task[t] = "none" THEN "interrupted" ELSE "running"
         /\ log[t] # <<>> /\ Outcomes(t) # {} => Phase(t) \in Settled
<1>1. Outcomes(t) # {} => (CHOOSE i \in Outcomes(t) : TRUE) \in Outcomes(t)
  OBVIOUS
<1> QED BY <1>1 DEF Phase, Outcomes

(* A turn of which nothing changes that its subscribers are told.           *)
LEMMA PhaseKept ==
  ASSUME NEW u \in Turn, u \in contested' <=> u \in contested, log'[u] = log[u],
         task'[u] = "none" <=> task[u] = "none"
  PROVE  Phase(u)' = Phase(u)
BY DEF Phase, Outcomes

(* The phase after an event.                                                *)
LEMMA PhaseTold ==
  ASSUME TypeInv, NEW t \in Turn, t \notin contested', NEW e \in Event, Outcomes(t) = {},
         log' = [log EXCEPT ![t] = Append(@, e)]
  PROVE  Phase(t)' = IF e # "started" THEN e
                     ELSE IF task'[t] = "none" THEN "interrupted" ELSE "running"
<1>1. log \in [Turn -> Seq(Event)] /\ log[t] \in Seq(Event)
  BY DEF TypeInv, TypeOK
<1> DEFINE n == Len(log[t])
<1>2. /\ log'[t] = Append(log[t], e) /\ n \in Nat
      /\ DOMAIN log'[t] = 1..(n + 1) /\ log'[t][n + 1] = e
      /\ \A i \in DOMAIN log[t] : i \in 1..n /\ log'[t][i] = log[t][i]
      /\ DOMAIN log[t] = 1..n /\ log'[t] # <<>>
  <2>1. log'[t] = Append(log[t], e)
    BY <1>1
  <2>2. Len(Append(log[t], e)) = n + 1 /\ n \in Nat
    BY <1>1
  <2> QED BY <1>1, <2>1, <2>2
<1>3. Outcomes(t)' = IF e = "started" THEN {} ELSE {n + 1}
  BY <1>2 DEF Outcomes, Event, Settled, Terminal
<1> QED BY <1>2, <1>3 DEF Phase

(* A turn that runs, as its subscribers see it, holds a permit.             *)
LEMMA RunningAdmitted ==
  ASSUME ServeInv, NEW t \in Turn, Phase(t) = "running"
  PROVE  t \in Admitted /\ log[t] # <<>>
<1>1. t \notin contested
  BY DEF Phase
<1>2. log[t] # <<>> /\ Outcomes(t) = {} /\ task[t] # "none"
  BY <1>1, PhaseIs DEF Settled, Terminal
<1>3. Stages(t) /\ Announced(t)
  BY <1>1 DEF ServeInv, Inv, Base, Steady
<1>4. task[t] \in {"run", "failing", "healing"}
  BY <1>2, <1>3 DEF Announced, Stages, Flying, Ending, Failing
<1> QED BY <1>2, <1>4 DEF Admitted

(* The service counts as TurnCore does.                                     *)
LEMMA SameCount == \A S : Service!Cardinality(S) = Cardinality(S)
BY DEF Cardinality, Service!Cardinality

(* The turn that is announced is not yet among those that run.              *)
LEMMA RoomToBegin ==
  ASSUME ServeInv, NEW t \in Turn, task[t] = "run", log[t] = <<>>
  PROVE  Cardinality(Service!Running) < Limit
<1>1. Service!Running = {u \in Turn : Phase(u) = "running"}
  BY DEF Service!Running
<1>2. t \in Admitted
  BY DEF Admitted
<1>3. Service!Running \subseteq Admitted \ {t}
  BY <1>1, RunningAdmitted
<1>4. /\ IsFiniteSet(Admitted) /\ Cardinality(Admitted) \in Nat
      /\ Cardinality(Admitted) <= Limit
  BY LimitAssumption, CountedFinite
     DEF ServeInv, Inv, Base, Accounts, PermitAccounting, TypeInv, TypeOK
<1>5. /\ IsFiniteSet(Admitted \ {t})
      /\ Cardinality(Admitted \ {t}) = Cardinality(Admitted) - 1
  BY <1>2, <1>4, FS_RemoveElement
<1>6. /\ Cardinality(Service!Running) <= Cardinality(Admitted \ {t})
      /\ Cardinality(Service!Running) \in Nat
  BY <1>3, <1>5, FS_Subset, FS_CardinalityType
<1> QED BY <1>4, <1>5, <1>6, LimitAssumption

(* Begin, Finish and Reject.                                                *)
LEMMA EventServed ==
  ASSUME ServeInv, [Next]_vars, UNCHANGED contested,
         NEW t \in Turn \ contested, log'[t] # log[t]
  PROVE  Service!Next
<1>1. /\ Outcomes(t) = {} /\ UNCHANGED task /\ \A u \in Turn \ {t} : log'[u] = log[u]
      /\ \/ /\ log[t] = <<>> /\ task[t] = "run"
            /\ log' = [log EXCEPT ![t] = Append(@, "started")]
         \/ /\ log[t] # <<>> /\ task[t] = "run"
            /\ \E e \in Settled : log' = [log EXCEPT ![t] = Append(@, e)]
         \/ log' = [log EXCEPT ![t] = Append(@, "failed")]
  BY EventStep
<1>2. \A u \in Turn \ {t} : Phase(u)' = Phase(u)
  BY <1>1, PhaseKept
<1>3. /\ log[t] = <<>> => Phase(t) = "idle"
      /\ log[t] # <<>> => Phase(t) = IF task[t] = "none" THEN "interrupted" ELSE "running"
  BY <1>1, PhaseIs
<1>4. ASSUME NEW e \in Event, log' = [log EXCEPT ![t] = Append(@, e)]
      PROVE  phases' = [phases EXCEPT ![t] = IF e # "started" THEN e
                          ELSE IF task[t] = "none" THEN "interrupted" ELSE "running"]
  <2>1. Phase(t)' = IF e # "started" THEN e
                    ELSE IF task[t] = "none" THEN "interrupted" ELSE "running"
    BY <1>1, <1>4, PhaseTold DEF ServeInv, Inv, Base
  <2> QED BY <1>2, <2>1 DEF phases
<1>e. Settled \subseteq Event /\ "started" \in Event /\ "started" \notin Settled
      /\ "failed" \in Settled
  BY DEF Event, Settled, Terminal
<1>5. CASE /\ log[t] = <<>> /\ task[t] = "run"
           /\ log' = [log EXCEPT ![t] = Append(@, "started")]
  <2>1. phases' = [phases EXCEPT ![t] = "running"] /\ phases[t] = "idle"
    BY <1>3, <1>4, <1>5, <1>e DEF phases
  <2> QED BY <1>5, <2>1, RoomToBegin, SameCount DEF Service!Next, Service!Begin, phases
<1>6. CASE /\ log[t] # <<>> /\ task[t] = "run"
           /\ \E e \in Settled : log' = [log EXCEPT ![t] = Append(@, e)]
  <2>1. PICK e \in Settled : log' = [log EXCEPT ![t] = Append(@, e)]
    BY <1>6
  <2>2. phases' = [phases EXCEPT ![t] = e] /\ phases[t] = "running"
    BY <1>3, <1>4, <1>6, <1>e, <2>1 DEF phases
  <2> QED BY <2>2 DEF Service!Next, Service!Finish, phases
<1>7. CASE log' = [log EXCEPT ![t] = Append(@, "failed")]
  <2>1. phases' = [phases EXCEPT ![t] = "failed"]
        /\ phases[t] \in {"idle", "running", "interrupted"}
    BY <1>3, <1>4, <1>7, <1>e DEF phases
  <2> QED BY <1>e, <2>1 DEF Service!Next, Service!Finish, Service!Reject, phases
<1> QED BY <1>1, <1>5, <1>6, <1>7

(* Confuse: a run takes another turn for its own, or the host gives up.     *)
LEMMA ContestServed ==
  ASSUME ServeInv, NEW t \in Turn, RunStep(t) \/ HostTimeout(t), contested' # contested
  PROVE  Service!Next
<1>1. UNCHANGED <<log, task>>
      /\ \E w \in Turn : contested' = contested \cup {t, w}
  <2>1. CASE HostTimeout(t)
    BY <2>1 DEF HostTimeout, shared
  <2>2. CASE RunStep(t)
    <3>1. /\ contested' = contested \cup Confused(t) /\ UNCHANGED task
      BY <2>2, RunFrame
    <3>2. pc[t] = "reread" /\ active[sess[t]].turn # t
      BY <3>1 DEF Confused
    <3>3. RunReread(t)
      BY <2>2, <3>2 DEF RunStep, RunAccept, RunPrepare, RunAnnounce, RunCheckpoint,
                        AfterCp, RunBuild, RunLoop, RunSample, RunAct, RunRaise,
                        RunPause, RunEmit
    <3>4. active[sess[t]].turn \in Turn
      BY <2>2, <3>2, RunAlone
         DEF ServeInv, Inv, Base, Rows, Identity, Row, TypeInv, TypeOK, View
    <3>5. Confused(t) = {t, active[sess[t]].turn}
      BY <3>2, <3>4 DEF Confused
    <3> QED BY <3>1, <3>3, <3>4, <3>5 DEF RunReread, shared
  <2> QED BY <2>1, <2>2
<1>2. PICK w \in Turn : contested' = contested \cup {t, w}
  BY <1>1
<1>3. \A u \in Turn \ {t, w} : Phase(u)' = Phase(u)
  BY <1>1, <1>2, PhaseKept
<1>4. Phase(t)' = "unclear" /\ Phase(w)' = "unclear"
  BY <1>2 DEF Phase
<1>5. phases' = [phases EXCEPT ![t] = "unclear", ![w] = "unclear"]
  BY <1>3, <1>4 DEF phases
<1> QED BY <1>5 DEF Service!Next, Service!Confuse, phases

(* Interrupt: the process dies.                                             *)
LEMMA CrashServed ==
  ASSUME Crash
  PROVE  Service!Next
<1>1. UNCHANGED <<log, contested>> /\ \A t \in Turn : task'[t] = "none"
  BY DEF Crash, shared, past
<1>2. ASSUME NEW t \in Turn
      PROVE  Phase(t)' = IF Phase(t) = "running" THEN "interrupted" ELSE Phase(t)
  <2>1. CASE t \in contested
    BY <1>1, <2>1 DEF Phase
  <2>2. CASE t \notin contested /\ task[t] = "none"
    BY <1>1, <2>2, PhaseIs, PhaseKept DEF Settled, Terminal
  <2>3. CASE t \notin contested /\ task[t] # "none"
    <3>1. Outcomes(t)' = Outcomes(t)
      BY <1>1 DEF Outcomes
    <3>2. CASE log[t] # <<>> /\ Outcomes(t) = {}
      BY <1>1, <2>3, <3>1, <3>2, PhaseIs DEF Phase
    <3>3. CASE log[t] = <<>> \/ Outcomes(t) # {}
      <4>1. Phase(t)' = Phase(t) /\ Phase(t) # "running"
        BY <1>1, <2>3, <3>1, <3>3, PhaseIs DEF Phase, Settled, Terminal
      <4> QED BY <4>1
    <3> QED BY <3>2, <3>3
  <2> QED BY <2>1, <2>2, <2>3
<1> QED BY <1>2 DEF Service!Next, Service!Interrupt, phases

(* Every other step the service does not see.                               *)
LEMMA QuietServed ==
  ASSUME ServeInv, [Next]_vars, ~Crash, UNCHANGED contested,
         \A u \in Turn \ contested : log'[u] = log[u]
  PROVE  UNCHANGED phases
<1>1. ASSUME NEW t \in Turn, NEW u \in Turn \ contested, Progress(t) \/ Request(t)
      PROVE  Phase(u)' = Phase(u)
  <2>1. CASE Register(t) /\ u = t
    <3>1. log[t] = <<>>
      BY <2>1 DEF Register, ServeInv, Announced
    <3> QED BY <2>1, <3>1 DEF Phase
  <2>2. CASE ~(Register(t) /\ u = t)
    <3>1. task'[u] = "none" <=> task[u] = "none"
      <4>1. CASE u # t
        BY <1>1, <4>1, Elsewhere DEF ServeInv, Inv
      <4>2. CASE u = t /\ TaskStep(t)
        BY <4>2, TaskMoves DEF Over, ServeInv, Inv, Base
      <4>3. CASE u = t /\ ~TaskStep(t)
        <5>1. UNCHANGED task
          BY <1>1, <2>2, <4>3, RunFrame, ProcFrame
             DEF Progress, Request, CancelReturn, CancelRpc, HostObserve, HostGiveUp,
                 HostTimeout, BootFail, BootReturn, Admit
        <5> QED BY <5>1
      <4> QED BY <4>1, <4>2, <4>3
    <3> QED BY <3>1, PhaseKept
  <2> QED BY <2>1, <2>2
<1>2. ASSUME NEW u \in Turn \ contested, BootDone \/ UNCHANGED vars
      PROVE  Phase(u)' = Phase(u)
  BY <1>2, PhaseKept DEF BootDone, vars
<1>3. \A u \in contested : Phase(u)' = Phase(u)
  BY DEF Phase
<1> QED BY <1>1, <1>2, <1>3 DEF Next, phases

LEMMA StepServed ==
  ASSUME ServeInv, [Next]_vars
  PROVE  [Service!Next]_phases
<1>1. CASE Crash
  BY <1>1, CrashServed
<1>2. CASE ~Crash /\ contested' # contested
  <2>1. \E t \in Turn : RunStep(t) \/ HostTimeout(t)
    BY <1>2, TaskMoves, ProcFrame
       DEF Next, BootDone, vars, Progress, Request, Register, CancelReturn, CancelRpc,
           HostObserve, HostGiveUp, BootFail, BootReturn, Admit, past, ServeInv, Inv, Base
  <2> QED BY <1>2, <2>1, ContestServed
<1>3. CASE contested' = contested /\ \E t \in Turn \ contested : log'[t] # log[t]
  BY <1>3, EventServed
<1>4. CASE /\ ~Crash /\ contested' = contested
           /\ \A u \in Turn \ contested : log'[u] = log[u]
  BY <1>4, QuietServed
<1> QED BY <1>1, <1>2, <1>3, <1>4

(* The safety part of the refinement: every event is a step the service     *)
(* allows.  At most Limit announced turns are unfinished, an announced turn *)
(* is reported over or paused once, one that was not announced is reported  *)
(* as failed or not at all, and so is one that a crash interrupted; turns   *)
(* may overlap on a session, and only those that a run took for each other, *)
(* or that the host had failed, are excepted.                               *)
THEOREM ServiceSafety == Spec => Service!Init /\ [][Service!Next]_phases
<1>1. Init => ServeInv
  BY InitInv, InitServe DEF ServeInv
<1>2. Init => Service!Init
  BY DEF Init, Service!Init, Phase
<1>3. ServeInv /\ [Next]_vars => [Service!Next]_phases
  BY StepServed
<1> QED BY <1>1, <1>2, <1>3, NextServe, PTL DEF Spec
=============================================================================
