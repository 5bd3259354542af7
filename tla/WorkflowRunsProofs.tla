-------------------------- MODULE WorkflowRunsProofs --------------------------
(***************************************************************************)
(* Proofs about WorkflowRuns, for any tasks, tries and bounds.             *)
(***************************************************************************)
EXTENDS WorkflowRuns, TLAPS

AnyRun == [at : {"preparing", "waiting", "closing", "over", "lost"},
           turn : {"none", "live", "ended", "cancelled"}, result : {"none"} \cup Ends]

\* A run has a result exactly while it closes.
RunRecord == {r \in AnyRun : r.at = "closing" <=> r.result # "none"}

\* The conjuncts of TypeOK about the runs, and the rest.
RunsOK ==
  /\ runs \in Seq(RunRecord) /\ Len(runs) <= MaxRuns /\ active \in 0 .. Len(runs)
  /\ stop \in [at : {"idle", "look", "cancel"}, turn : 0 .. Len(runs)]
  /\ asks \subseteq DOMAIN runs

\* A dispatch, whoever hears of its failure.
AnyDispatch(from) ==
  Dispatched(from) \/ \E who \in {"user", "row", "log"} : NotDispatched(from, who)

RestOK ==
  /\ status \in Statuses
  /\ heard \in Heard /\ message \in BOOLEAN
  /\ comp \in [Task -> {"none", "pending", "running", "completed", "failed"}]
  /\ tries \in [Task -> 0 .. MaxTries]
  /\ \A t \in Task : comp[t] = "failed" <=> tries[t] = MaxTries
  /\ host \in {"up", "down", "queue"}
  /\ stops \in 0 .. MaxStops /\ crashes \in 0 .. MaxCrashes

LEMMA TypeParts == TypeOK <=> RunsOK /\ RestOK
<1>1. ASSUME runs \in Seq(AnyRun)
      PROVE  (\A i \in DOMAIN runs : runs[i].at = "closing" <=> runs[i].result # "none")
             <=> runs \in Seq(RunRecord)
  BY <1>1 DEF RunRecord
<1>2. runs \in Seq(RunRecord) => runs \in Seq(AnyRun)
  BY DEF RunRecord
<1>3. QED
  BY <1>1, <1>2, Zenon DEF TypeOK, RunsOK, RestOK, AnyRun, Statuses

-----------------------------------------------------------------------------
(* Sequences of runs.                                                       *)

LEMMA Appended ==
  ASSUME NEW s \in Seq(RunRecord), NEW r \in RunRecord
  PROVE  /\ Append(s, r) \in Seq(RunRecord) /\ Len(Append(s, r)) = Len(s) + 1
         /\ \A i \in 1 .. Len(s) : Append(s, r)[i] = s[i]
         /\ Append(s, r)[Len(s) + 1] = r
  OBVIOUS

LEMMA Replaced ==
  ASSUME NEW s \in Seq(RunRecord), NEW i \in DOMAIN s, NEW r \in RunRecord
  PROVE  /\ [s EXCEPT ![i] = r] \in Seq(RunRecord)
         /\ Len([s EXCEPT ![i] = r]) = Len(s)
         /\ DOMAIN [s EXCEPT ![i] = r] = DOMAIN s
  OBVIOUS

LEMMA LatchedStatus ==
  ASSUME NEW from \in Statuses, NEW to \in Statuses
  PROVE  Latched(from, to) \in Statuses
  BY DEF Latched

LEMMA FreshUnused == Unused # {} => Fresh \in Unused
  BY DEF Fresh

LEMMA RunsDispatched ==
  ASSUME RunsOK, NEW from \in Statuses, AnyDispatch(from)
  PROVE  /\ runs' \in Seq(RunRecord) /\ Len(runs') <= MaxRuns /\ Len(runs) <= Len(runs')
         /\ status' \in Statuses /\ heard' \in Heard
         /\ InFlight' # {} \/ heard' \in {"user", "row", "log"}
         /\ status' \in {from, Latched(from, "running")}
         /\ Len(runs') > Len(runs) \/ status' = from
<1> DEFINE new == [at |-> "preparing", turn |-> "none", result |-> "none"]
<1>1. new \in RunRecord
  BY DEF RunRecord, AnyRun
<1>2. runs \in Seq(RunRecord) /\ Len(runs) \in Nat /\ Len(runs) <= MaxRuns
  BY DEF RunsOK
<1>3. CASE Dispatched(from)
  <2>1. runs' = Append(runs, new) /\ Len(runs) < MaxRuns
    BY <1>3 DEF Dispatched
  <2>2. /\ runs' \in Seq(RunRecord) /\ Len(runs') = Len(runs) + 1
        /\ runs'[Len(runs) + 1] = new
    BY <1>1, <1>2, <2>1, Appended
  <2>3. Len(runs) + 1 \in DOMAIN runs'
    BY <1>2, <2>2
  <2>4. InFlight' # {}
    BY <2>2, <2>3 DEF InFlight
  <2>5. Latched(from, "running") \in Statuses
    BY LatchedStatus DEF Statuses
  <2>6. status' = Latched(from, "running") /\ heard' = "sent"
    BY <1>3 DEF Dispatched
  <2>7. Len(runs') <= MaxRuns /\ Len(runs) <= Len(runs') /\ Len(runs') > Len(runs)
    BY <1>2, <2>1, <2>2, BoundAssumption
  <2>8. heard' \in Heard
    BY <2>6 DEF Heard
  <2>9. /\ status' \in Statuses /\ status' \in {from, Latched(from, "running")}
        /\ Len(runs') > Len(runs) \/ status' = from
    BY <2>5, <2>6, <2>7
  <2>10. QED
    BY <2>2, <2>4, <2>7, <2>8, <2>9, Zenon
<1>4. CASE \E who \in {"user", "row", "log"} : NotDispatched(from, who)
  <2>1. runs' = runs /\ status' = from /\ heard' \in {"user", "row", "log"}
    BY <1>4 DEF NotDispatched
  <2>3. heard' \in Heard
    BY <2>1 DEF Heard
  <2>2. runs' \in Seq(RunRecord) /\ Len(runs') <= MaxRuns /\ Len(runs) <= Len(runs')
    BY <1>2, <2>1
  <2>4. QED
    BY <2>1, <2>2, <2>3, Zenon
<1>5. QED
  BY <1>3, <1>4 DEF AnyDispatch

LEMMA RunsDie ==
  ASSUME RunsOK, RestOK, Die
  PROVE  /\ runs' \in Seq(RunRecord) /\ Len(runs') = Len(runs)
         /\ message' = FALSE /\ stop' = Idle /\ host' = "down" /\ crashes' \in 0 .. MaxCrashes
         /\ heard' \in Heard
<1> DEFINE one(i) == IF i \in InFlight THEN [runs[i] EXCEPT !.at = "lost", !.result = "none"]
                     ELSE runs[i]
<1>1. runs \in Seq(RunRecord) /\ Len(runs) \in Nat /\ DOMAIN runs = 1 .. Len(runs)
  BY DEF RunsOK
<1>2. ASSUME NEW i \in DOMAIN runs PROVE one(i) \in RunRecord
  <2>1. runs[i] \in RunRecord
    BY <1>1
  <2>2. runs[i] \in AnyRun /\ (runs[i].at = "closing" <=> runs[i].result # "none")
    BY <2>1 DEF RunRecord
  <2>3. [[runs[i] EXCEPT !.at = "lost"] EXCEPT !.result = "none"] \in RunRecord
    BY <2>2 DEF RunRecord, AnyRun
  <2>4. QED
    BY <2>1, <2>3
<1>3. runs' = [i \in 1 .. Len(runs) |-> one(i)]
  BY <1>1 DEF Die
<1>4. runs' \in Seq(RunRecord) /\ Len(runs') = Len(runs)
  <2> HIDE DEF one
  <2>1. runs' \in [1 .. Len(runs) -> RunRecord]
    BY <1>1, <1>2, <1>3, Zenon
  <2>2. QED
    BY <1>1, <2>1
<1>5. crashes \in 0 .. MaxCrashes
  BY Zenon DEF RestOK
<1>6. crashes' \in 0 .. MaxCrashes
  <2>1. crashes < MaxCrashes /\ crashes' = crashes + 1
    BY DEF Die
  <2>2. QED
    BY <1>5, <2>1, BoundAssumption
<1>7. message' = FALSE /\ stop' = Idle /\ host' = "down" /\ heard' \in Heard
  <2>1. message' = FALSE /\ stop' = Idle /\ host' = "down" /\ heard' = "sent"
    BY Zenon DEF Die
  <2>2. QED
    BY <2>1, Zenon DEF Heard
<1>8. QED
  BY <1>4, <1>6, <1>7, Zenon

\* What a step on one run leaves of RunsOK.
LEMMA RunsEdited ==
  ASSUME RunsOK, NEW i \in DOMAIN runs, NEW r \in RunRecord,
         runs' = [runs EXCEPT ![i] = r], active' \in {active, i},
         stop' \in {stop, Idle}, asks' \in {asks, asks \cup {i}}
  PROVE  RunsOK'
<1>1. runs \in Seq(RunRecord) /\ Len(runs) \in Nat /\ DOMAIN runs = 1 .. Len(runs)
  BY DEF RunsOK
<1>2. runs' \in Seq(RunRecord) /\ Len(runs') = Len(runs) /\ DOMAIN runs' = DOMAIN runs
  BY <1>1, Replaced
<1>3. QED
  BY <1>1, <1>2 DEF RunsOK, Idle

\* What a step that appends runs, or touches none, leaves of RunsOK.
LEMMA RunsKept ==
  ASSUME RunsOK, runs' \in Seq(RunRecord), Len(runs) <= Len(runs'), Len(runs') <= MaxRuns,
         active' = active, asks' \subseteq asks,
         stop' \in {stop, Idle, [at |-> "look", turn |-> 0]}
  PROVE  RunsOK'
<1>1. /\ Len(runs) \in Nat /\ Len(runs') \in Nat
      /\ DOMAIN runs = 1 .. Len(runs) /\ DOMAIN runs' = 1 .. Len(runs')
  BY DEF RunsOK
<1>2. asks' \subseteq DOMAIN runs' /\ active' \in 0 .. Len(runs')
  BY <1>1 DEF RunsOK
<1>3. stop' \in [at : {"idle", "look", "cancel"}, turn : 0 .. Len(runs')]
  BY <1>1 DEF RunsOK, Idle
<1>4. QED
  BY <1>2, <1>3 DEF RunsOK

-----------------------------------------------------------------------------
(* Type correctness.                                                        *)

LEMMA Written ==
  ASSUME RestOK, NEW to \in Statuses, Write(to)
  PROVE  status' \in Statuses
<1>1. status \in Statuses
  BY Zenon DEF RestOK
<1>2. QED
  BY <1>1, LatchedStatus DEF Write

\* A step that leaves the queue alone.
LEMMA RestKept ==
  ASSUME RestOK, UNCHANGED queue, status' \in Statuses, heard' \in Heard,
         message' \in BOOLEAN, host' \in {"up", "down", "queue"},
         stops' \in 0 .. MaxStops, crashes' \in 0 .. MaxCrashes
  PROVE  RestOK'
<1>1. comp' = comp /\ tries' = tries
  BY DEF queue
<1>2. QED
  BY <1>1, Zenon DEF RestOK

LEMMA RestParts ==
  ASSUME RestOK
  PROVE  /\ status \in Statuses /\ heard \in Heard /\ message \in BOOLEAN
         /\ host \in {"up", "down", "queue"}
         /\ stops \in 0 .. MaxStops /\ crashes \in 0 .. MaxCrashes
         /\ comp \in [Task -> {"none", "pending", "running", "completed", "failed"}]
  BY Zenon DEF RestOK

\* The user's steps that dispatch.
LEMMA UserDispatches ==
  ASSUME RunsOK, RestOK, StartGoal \/ Resume \/ MessageDispatched
  PROVE  RunsOK' /\ RestOK'
<1>1. PICK from \in Statuses : AnyDispatch(from)
  <2>1. status \in Statuses /\ "pending" \in Statuses
    BY RestParts DEF Statuses
  <2>2. QED
    BY <2>1 DEF StartGoal, Resume, MessageDispatched, Dispatch, AnyDispatch
<1>2. /\ runs' \in Seq(RunRecord) /\ Len(runs') <= MaxRuns /\ Len(runs) <= Len(runs')
      /\ status' \in Statuses /\ heard' \in Heard
  BY <1>1, RunsDispatched
<1>3. /\ UNCHANGED <<active, stop, asks, host, stops, crashes>> /\ UNCHANGED queue
      /\ message' = message \/ message' = FALSE
  BY DEF StartGoal, Resume, MessageDispatched, user, queue, count
<1>4. RunsOK'
  BY <1>2, <1>3, RunsKept
<1>5. message' \in BOOLEAN
  BY <1>3, RestParts, Zenon
<1>6. QED
  BY <1>2, <1>3, <1>4, <1>5, RestParts, RestKept, Zenon

LEMMA ApproveTyped ==
  ASSUME RunsOK, RestOK, NEW i \in asks, Approve(i)
  PROVE  RunsOK' /\ RestOK'
<1>1. asks' \subseteq asks /\ UNCHANGED <<active, stops>> /\ UNCHANGED queue
  BY DEF Approve, queue
<1>2. "running" \in Statuses /\ Latched(status, "running") \in Statuses
  <2>1. status \in Statuses
    BY RestParts, Zenon
  <2>2. QED
    BY <2>1, LatchedStatus DEF Statuses
<1>3. CASE Dispatch(Latched(status, "running")) /\ UNCHANGED <<message, stop, host, crashes>>
  <2>1. /\ runs' \in Seq(RunRecord) /\ Len(runs') <= MaxRuns /\ Len(runs) <= Len(runs')
        /\ status' \in Statuses /\ heard' \in Heard
    BY <1>2, <1>3, RunsDispatched DEF Dispatch, AnyDispatch
  <2>2. RunsOK'
    BY <1>1, <1>3, <2>1, RunsKept
  <2>3. QED
    BY <1>1, <1>3, <2>1, <2>2, RestParts, RestKept, Zenon
<1>4. CASE Write("running") /\ Die
  <2>1. /\ runs' \in Seq(RunRecord) /\ Len(runs') = Len(runs)
        /\ message' = FALSE /\ stop' = Idle /\ host' = "down" /\ crashes' \in 0 .. MaxCrashes
        /\ heard' \in Heard
    BY <1>4, RunsDie
  <2>2. status' \in Statuses
    BY <1>2, <1>4, Written
  <2>3. RunsOK'
    <3>1. Len(runs) \in Nat /\ Len(runs) <= MaxRuns
      BY DEF RunsOK
    <3>2. Len(runs) <= Len(runs') /\ Len(runs') <= MaxRuns
      BY <2>1, <3>1, BoundAssumption
    <3>3. QED
      BY <1>1, <2>1, <3>2, RunsKept
  <2>4. QED
    BY <1>1, <1>4, <2>1, <2>2, <2>3, RestParts, RestKept, Zenon
<1>5. QED
  BY <1>3, <1>4 DEF Approve

\* The user's steps that only write, and the watchdog.
LEMMA PlainWrites ==
  ASSUME RunsOK, RestOK,
         \/ Message \/ Stop \/ SoftDelete \/ PauseGoal \/ Patch \/ Watchdog
         \/ \E i \in asks : Reject(i)
  PROVE  RunsOK' /\ RestOK'
<1>1. /\ runs' = runs /\ active' = active /\ UNCHANGED queue
      /\ heard' \in {heard, "user"} /\ host' = host /\ crashes' = crashes
  BY DEF Message, Stop, SoftDelete, PauseGoal, Patch, Watchdog, Reject, core, queue, user, count
<1>2. asks' \subseteq asks
  BY DEF Message, Stop, SoftDelete, PauseGoal, Patch, Watchdog, Reject, user
<1>3. stop' \in {stop, Idle, [at |-> "look", turn |-> 0]}
  BY DEF Message, Stop, SoftDelete, PauseGoal, Patch, Watchdog, Reject, user
<1>4. RunsOK'
  <2>1. runs \in Seq(RunRecord) /\ Len(runs) \in Nat /\ Len(runs) <= MaxRuns
    BY DEF RunsOK
  <2>2. runs' \in Seq(RunRecord) /\ Len(runs) <= Len(runs') /\ Len(runs') <= MaxRuns
    BY <1>1, <2>1
  <2>3. QED
    BY <1>1, <1>2, <1>3, <2>2, RunsKept
<1>5. status' \in Statuses
  <2>1. \/ status' = "running"
        \/ \E to \in Statuses : Write(to)
    <3>1. Message => status' = "running"
      BY DEF Message
    <3>2. Stop \/ SoftDelete => Write("cancelled")
      BY DEF Stop, SoftDelete
    <3>3. PauseGoal => Write("awaiting_approval")
      BY DEF PauseGoal
    <3>4. Watchdog \/ (\E i \in asks : Reject(i)) => Write("failed")
      BY DEF Watchdog, Reject
    <3>5. Patch => \E to \in Statuses : Write(to)
      BY DEF Patch
    <3>6. {"cancelled", "awaiting_approval", "failed"} \subseteq Statuses
      BY DEF Statuses, Terminal
    <3>7. Stop \/ SoftDelete \/ PauseGoal \/ Patch \/ Watchdog \/ (\E i \in asks : Reject(i))
          => \E to \in Statuses : Write(to)
      BY <3>2, <3>3, <3>4, <3>5, <3>6
    <3>8. QED
      BY <3>1, <3>7, Zenon
  <2>2. "running" \in Statuses
    BY DEF Statuses
  <2>3. QED
    BY <2>1, <2>2, Written
<1>6. message' \in BOOLEAN
  <2>1. message' = TRUE \/ message' = message
    BY DEF Message, Stop, SoftDelete, PauseGoal, Patch, Watchdog, Reject, user
  <2>2. QED
    BY <2>1, RestParts, Zenon
<1>7. stops' \in 0 .. MaxStops
  <2>1. \/ stops' = stops
        \/ stops < MaxStops /\ stops' = stops + 1
    <3>1. Stop \/ SoftDelete \/ PauseGoal \/ Patch => stops < MaxStops /\ stops' = stops + 1
      BY DEF Stop, SoftDelete, PauseGoal, Patch
    <3>2. Message \/ Watchdog \/ (\E i \in asks : Reject(i)) => stops' = stops
      BY DEF Message, Watchdog, Reject, count
    <3>3. CASE Stop \/ SoftDelete \/ PauseGoal \/ Patch
      BY <3>1, <3>3
    <3>4. CASE Message \/ Watchdog \/ (\E i \in asks : Reject(i))
      BY <3>2, <3>4
    <3>5. QED
      BY <3>3, <3>4, Zenon
  <2>2. stops \in 0 .. MaxStops
    BY RestParts, Zenon
  <2>3. QED
    BY <2>1, <2>2, BoundAssumption
<1>9. heard' \in Heard
  <2>1. heard \in Heard /\ "user" \in Heard
    BY RestParts DEF Heard
  <2>2. QED
    BY <1>1, <2>1
<1>8. QED
  BY <1>1, <1>9, <1>4, <1>5, <1>6, <1>7, RestParts, RestKept, Zenon

\* A request to stop on its way to the core.
LEMMA StopTyped ==
  ASSUME RunsOK, RestOK, StopLook \/ StopCancel
  PROVE  RunsOK' /\ RestOK'
<1>1. /\ UNCHANGED <<status, heard, message, asks, host, stops, crashes>> /\ UNCHANGED queue
  BY DEF StopLook, StopCancel, queue, count
<1>2. RestOK'
  BY <1>1, RestParts, RestKept, Zenon
<1>3. /\ runs \in Seq(RunRecord) /\ Len(runs) \in Nat /\ DOMAIN runs = 1 .. Len(runs)
      /\ stop \in [at : {"idle", "look", "cancel"}, turn : 0 .. Len(runs)]
      /\ active \in 0 .. Len(runs)
  BY DEF RunsOK
<1>4. CASE UNCHANGED core
  <2>1. stop' \in [at : {"idle", "look", "cancel"}, turn : 0 .. Len(runs)]
    BY <1>3 DEF StopLook, StopCancel, Idle
  <2>2. QED
    BY <1>1, <1>2, <1>4, <2>1 DEF RunsOK, core
<1>5. CASE ~ UNCHANGED core
  <2>1. /\ stop' = Idle /\ active' = stop.turn /\ runs[stop.turn].turn = "live"
        /\ runs' = [runs EXCEPT ![stop.turn].turn = "cancelled"]
    BY <1>5 DEF StopLook, StopCancel, core
  <2>2. CASE stop.turn = 0
    <3>1. runs' = runs
      BY <1>3, <2>1, <2>2
    <3>2. QED
      BY <1>1, <1>2, <2>1, <2>2, <3>1 DEF RunsOK, Idle
  <2>3. CASE stop.turn # 0
    <3>1. stop.turn \in DOMAIN runs
      BY <1>3, <2>3
    <3>2. runs[stop.turn] \in RunRecord
      BY <1>3, <3>1
    <3>3. [runs[stop.turn] EXCEPT !.turn = "cancelled"] \in RunRecord
      BY <3>2 DEF RunRecord, AnyRun
    <3>4. QED
      BY <1>1, <1>2, <2>1, <3>1, <3>3, RunsEdited
  <2>4. QED
    BY <2>2, <2>3
<1>6. QED
  BY <1>4, <1>5

\* The orchestrator's runs and the core.
LEMMA RunTyped ==
  ASSUME RunsOK, RestOK, NEW i \in DOMAIN runs, Run(i) \/ TurnWrites(i)
  PROVE  RunsOK' /\ RestOK'
<1> DEFINE old == runs[i]
<1>1. runs \in Seq(RunRecord) /\ old \in RunRecord
  BY DEF RunsOK
<1>0. old \in AnyRun /\ (old.at = "closing" <=> old.result # "none")
  BY <1>1 DEF RunRecord
<1>2. /\ UNCHANGED <<message, stop, host, stops, crashes>> /\ UNCHANGED queue
      /\ active' \in {active, i}
  BY Zenon DEF Run, StartTurn, Observe, GiveUp, Close, ProjectHitl, TurnWrites, user, queue, count
<1>9. heard' \in Heard
  <2>1. heard' = heard \/ heard' = "nobody"
    BY Zenon DEF Run, StartTurn, Observe, GiveUp, Close, ProjectHitl, TurnWrites
  <2>2. heard \in Heard /\ "nobody" \in Heard
    BY RestParts DEF Heard
  <2>3. QED
    BY <2>1, <2>2
<1>3. asks' \in {asks, asks \cup {i}}
  BY Zenon DEF Run, StartTurn, Observe, GiveUp, Close, ProjectHitl, TurnWrites, user
<1>4. ASSUME NEW result \in Ends PROVE Closes(i, result) \in RunRecord
  BY <1>0 DEF Closes, RunRecord, AnyRun, Ends
<1>5. PICK r \in RunRecord : runs' = [runs EXCEPT ![i] = r]
  <2>1. CASE StartTurn(i)
    <3>1. [[old EXCEPT !.at = "waiting"] EXCEPT !.turn = "live"] \in RunRecord
      <4>1. old.at = "preparing"
        BY <2>1 DEF StartTurn
      <4>2. QED
        BY <1>0, <4>1 DEF RunRecord, AnyRun
    <3>2. CASE runs' = [runs EXCEPT ![i].at = "waiting", ![i].turn = "live"]
      <4>1. runs' = [runs EXCEPT ![i] = [[old EXCEPT !.at = "waiting"] EXCEPT !.turn = "live"]]
        BY <1>1, <3>2
      <4>2. QED
        BY <3>1, <4>1
    <3>3. CASE runs' = [runs EXCEPT ![i] = Closes(i, "failed")]
      BY <1>4, <3>3 DEF Ends
    <3>4. QED
      BY <2>1, <3>2, <3>3 DEF StartTurn
  <2>2. CASE Observe(i)
    <3>1. PICK result \in Ends : runs' = [runs EXCEPT ![i] = Closes(i, result)]
      BY <2>2 DEF Observe, Ends
    <3>2. QED
      BY <1>4, <3>1
  <2>3. CASE GiveUp(i)
    <3>1. PICK result \in {"partial", "failed"} :
            \/ runs' = [runs EXCEPT ![i] = [Closes(i, result) EXCEPT !.turn = "ended"]]
            \/ runs' = [runs EXCEPT ![i] = Closes(i, result)]
      BY <2>3 DEF GiveUp
    <3>2. Closes(i, result) \in RunRecord
      BY <1>4, <3>1 DEF Ends
    <3>3. [Closes(i, result) EXCEPT !.turn = "ended"] \in RunRecord
      BY <3>2 DEF RunRecord, AnyRun
    <3>4. QED
      BY <3>1, <3>2, <3>3
  <2>4. CASE Close(i)
    <3>1. [[old EXCEPT !.at = "over"] EXCEPT !.result = "none"] \in RunRecord
      BY <1>0 DEF RunRecord, AnyRun
    <3>2. runs' = [runs EXCEPT ![i] = [[old EXCEPT !.at = "over"] EXCEPT !.result = "none"]]
      BY <1>1, <2>4 DEF Close
    <3>3. QED
      BY <3>1, <3>2
  <2>5. CASE TurnWrites(i)
    <3>1. PICK now \in {"live", "ended"} : runs' = [runs EXCEPT ![i].turn = now]
      BY <2>5 DEF TurnWrites
    <3>2. [old EXCEPT !.turn = now] \in RunRecord
      BY <1>0, <3>1 DEF RunRecord, AnyRun
    <3>3. runs' = [runs EXCEPT ![i] = [old EXCEPT !.turn = now]]
      BY <1>1, <3>1
    <3>4. QED
      BY <3>2, <3>3
  <2>6. QED
    BY <2>1, <2>2, <2>3, <2>4, <2>5 DEF Run
<1>6. RunsOK'
  BY <1>2, <1>3, <1>5, RunsEdited
<1>7. status' \in Statuses
  <2>1. CASE Close(i)
    <3>1. old.at = "closing"
      BY <2>1 DEF Close
    <3>2. old.result \in Ends
      BY <1>1, <3>1 DEF RunRecord, AnyRun
    <3>3. \/ Write("awaiting_approval") \/ status' = status
          \/ old.result # "hitl" /\ Write(old.result)
      BY <2>1 DEF Close, ProjectHitl
    <3>4. CASE Write("awaiting_approval")
      BY <3>4, Written DEF Statuses
    <3>5. CASE old.result # "hitl" /\ Write(old.result)
      <4>1. old.result \in Statuses
        BY <3>2, <3>5 DEF Ends, Statuses, Terminal
      <4>2. QED
        BY <3>5, <4>1, Written
    <3>6. CASE status' = status
      BY <3>6, RestParts, Zenon
    <3>7. QED
      BY <3>3, <3>4, <3>5, <3>6
  <2>2. CASE ~ Close(i)
    <3>1. status' = status
      BY <2>2, Zenon DEF Run, StartTurn, Observe, GiveUp, TurnWrites
    <3>2. QED
      BY <3>1, RestParts, Zenon
  <2>3. QED
    BY <2>1, <2>2
<1>8. QED
  BY <1>2, <1>6, <1>7, <1>9, RestParts, RestKept, Zenon

\* The queue, the crash and the restart.
LEMMA RestOfQueue ==
  ASSUME RestOK, status' \in Statuses, heard' \in Heard, message' \in BOOLEAN,
         host' \in {"up", "down", "queue"},
         stops' \in 0 .. MaxStops, crashes' \in 0 .. MaxCrashes,
         comp' \in [Task -> {"none", "pending", "running", "completed", "failed"}],
         tries' \in [Task -> 0 .. MaxTries],
         \A t \in Task : comp'[t] = "failed" <=> tries'[t] = MaxTries
  PROVE  RestOK'
  BY Zenon DEF RestOK

LEMMA EnqueuedTyped ==
  ASSUME RestOK, Enqueued
  PROVE  /\ comp' \in [Task -> {"none", "pending", "running", "completed", "failed"}]
         /\ \A t \in Task : comp'[t] = "failed" <=> comp[t] = "failed"
<1>1. comp \in [Task -> {"none", "pending", "running", "completed", "failed"}]
  BY Zenon DEF RestOK
<1>2. CASE UNCHANGED comp
  BY <1>1, <1>2
<1>3. CASE Unused # {} /\ comp' = [comp EXCEPT ![Fresh] = "pending"]
  <2>1. Fresh \in Task /\ comp[Fresh] = "none"
    BY <1>3, FreshUnused DEF Unused
  <2>2. QED
    BY <1>1, <1>3, <2>1
<1>4. QED
  BY <1>2, <1>3 DEF Enqueued

LEMMA CompensateTyped ==
  ASSUME RunsOK, RestOK, NEW t \in Task, Compensate(t)
  PROVE  RunsOK' /\ RestOK'
<1>1. /\ comp \in [Task -> {"none", "pending", "running", "completed", "failed"}]
      /\ tries \in [Task -> 0 .. MaxTries]
      /\ \A u \in Task : comp[u] = "failed" <=> tries[u] = MaxTries
  BY Zenon DEF RestOK
<1>2. UNCHANGED <<active, asks, stops>> /\ comp[t] = "pending" /\ tries[t] < MaxTries
  <2>1. UNCHANGED <<active, asks, stops>> /\ comp[t] = "pending"
    BY DEF Compensate
  <2>2. tries[t] # MaxTries /\ tries[t] \in 0 .. MaxTries
    BY <1>1, <2>1
  <2>3. QED
    BY <2>1, <2>2, BoundAssumption
<1>3. "pending" \in Statuses
  BY DEF Statuses
<1>4. ASSUME AnyDispatch("pending"), UNCHANGED <<message, stop, crashes>>, host' = "up"
      PROVE  /\ RunsOK' /\ status' \in Statuses /\ heard' \in Heard /\ message' \in BOOLEAN
             /\ host' \in {"up", "down", "queue"}
             /\ stops' \in 0 .. MaxStops /\ crashes' \in 0 .. MaxCrashes
  <2>1. /\ runs' \in Seq(RunRecord) /\ Len(runs') <= MaxRuns /\ Len(runs) <= Len(runs')
        /\ status' \in Statuses /\ heard' \in Heard
    BY <1>3, <1>4, RunsDispatched
  <2>2. RunsOK'
    BY <1>2, <1>4, <2>1, RunsKept
  <2>3. QED
    BY <1>2, <1>4, <2>1, <2>2, RestParts, Zenon
<1>5. CASE /\ Dispatched("pending") /\ comp' = [comp EXCEPT ![t] = "completed"]
           /\ host' = "up" /\ UNCHANGED <<message, stop, tries, crashes>>
  <2>1. /\ comp' \in [Task -> {"none", "pending", "running", "completed", "failed"}]
        /\ \A u \in Task : comp'[u] = "failed" <=> tries'[u] = MaxTries
    BY <1>1, <1>2, <1>5
  <2>2. QED
    BY <1>1, <1>4, <1>5, <2>1, RestOfQueue, Zenon DEF AnyDispatch
<1>6. CASE /\ NotDispatched("pending", "row") /\ tries' = [tries EXCEPT ![t] = @ + 1]
           /\ comp' = [comp EXCEPT ![t] = AfterFailure(tries[t] + 1)]
           /\ host' = "up" /\ UNCHANGED <<message, stop, crashes>>
  <2>1. tries[t] \in 0 .. MaxTries /\ tries[t] + 1 \in 0 .. MaxTries
    BY <1>1, <1>2, BoundAssumption
  <2>2. /\ AfterFailure(tries[t] + 1) \in {"failed", "pending"}
        /\ AfterFailure(tries[t] + 1) = "failed" <=> tries[t] + 1 = MaxTries
    BY <2>1, BoundAssumption DEF AfterFailure
  <2>3. /\ comp' \in [Task -> {"none", "pending", "running", "completed", "failed"}]
        /\ tries' \in [Task -> 0 .. MaxTries]
    BY <1>1, <1>6, <2>1, <2>2
  <2>4. \A u \in Task : comp'[u] = "failed" <=> tries'[u] = MaxTries
    BY <1>1, <1>6, <2>2
  <2>5. AnyDispatch("pending")
    BY <1>6 DEF AnyDispatch
  <2>6. QED
    BY <1>4, <1>6, <2>3, <2>4, <2>5, RestOfQueue, Zenon
<1>7. CASE /\ Die /\ comp' = [comp EXCEPT ![t] = "running"]
           /\ status' \in {status, "pending"} /\ UNCHANGED tries
  <2>1. /\ runs' \in Seq(RunRecord) /\ Len(runs') = Len(runs)
        /\ message' = FALSE /\ stop' = Idle /\ host' = "down" /\ crashes' \in 0 .. MaxCrashes
        /\ heard' \in Heard
    BY <1>7, RunsDie
  <2>2. Len(runs) <= Len(runs') /\ Len(runs') <= MaxRuns
    BY <2>1 DEF RunsOK
  <2>3. RunsOK'
    BY <1>2, <2>1, <2>2, RunsKept
  <2>4. /\ comp' \in [Task -> {"none", "pending", "running", "completed", "failed"}]
        /\ \A u \in Task : comp'[u] = "failed" <=> tries'[u] = MaxTries
    BY <1>1, <1>2, <1>7
  <2>5. status' \in Statuses
    BY <1>3, <1>7, RestParts, Zenon
  <2>6. QED
    BY <1>1, <1>2, <1>7, <2>1, <2>3, <2>4, <2>5, RestParts, RestOfQueue, Zenon
<1>8. QED
  BY <1>5, <1>6, <1>7 DEF Compensate

LEMMA RestartTyped ==
  ASSUME RunsOK, RestOK, Restart \/ NotDue \/ Enqueue \/ Crash
  PROVE  RunsOK' /\ RestOK'
<1>1. /\ Len(runs) \in Nat /\ Len(runs) <= MaxRuns /\ runs \in Seq(RunRecord)
      /\ tries \in [Task -> 0 .. MaxTries]
      /\ comp \in [Task -> {"none", "pending", "running", "completed", "failed"}]
      /\ \A u \in Task : comp[u] = "failed" <=> tries[u] = MaxTries
  <2>1. Len(runs) \in Nat /\ Len(runs) <= MaxRuns /\ runs \in Seq(RunRecord)
    BY DEF RunsOK
  <2>2. /\ tries \in [Task -> 0 .. MaxTries]
        /\ comp \in [Task -> {"none", "pending", "running", "completed", "failed"}]
        /\ \A u \in Task : comp[u] = "failed" <=> tries[u] = MaxTries
    BY Zenon DEF RestOK
  <2>3. QED
    BY <2>1, <2>2
<1>2. active' = active /\ asks' = asks /\ tries' = tries /\ stops' = stops
  BY DEF Restart, NotDue, Enqueue, Crash, core, user, queue, count
<1>3. CASE Crash
  <2>1. Die /\ status' = status /\ UNCHANGED queue
    BY <1>3 DEF Crash, queue
  <2>2. /\ runs' \in Seq(RunRecord) /\ Len(runs') = Len(runs)
        /\ message' = FALSE /\ stop' = Idle /\ host' = "down" /\ crashes' \in 0 .. MaxCrashes
        /\ heard' \in Heard
    BY <2>1, RunsDie
  <2>3. RunsOK'
    BY <1>1, <1>2, <2>2, RunsKept
  <2>4. QED
    BY <1>2, <2>1, <2>2, <2>3, RestParts, RestKept, Zenon
<1>4. CASE Restart \/ NotDue \/ Enqueue
  <2>1. UNCHANGED <<message, stop, crashes>> /\ host' \in {host, "up", "queue"}
    BY <1>4 DEF Restart, NotDue, Enqueue, core, user, queue, count
  <2>2. CASE runs' = runs /\ status' \in {status, "pending"} /\ UNCHANGED heard
    <3>1. RunsOK'
      BY <1>1, <1>2, <2>1, <2>2, RunsKept
    <3>2. /\ comp' \in [Task -> {"none", "pending", "running", "completed", "failed"}]
          /\ \A u \in Task : comp'[u] = "failed" <=> comp[u] = "failed"
      <4>2. UNCHANGED comp \/ Enqueued
        BY <1>4 DEF Restart, NotDue, Enqueue, queue
      <4>3. QED
        BY <1>1, <4>2, EnqueuedTyped
    <3>3. "pending" \in Statuses
      BY DEF Statuses
    <3>4. QED
      BY <1>1, <1>2, <2>1, <2>2, <3>1, <3>2, <3>3, RestParts, RestOfQueue, Zenon
  <2>3. CASE ~(runs' = runs /\ status' \in {status, "pending"} /\ UNCHANGED heard)
    <3>1. AnyDispatch(status) /\ UNCHANGED comp
      BY <1>4, <2>3 DEF Restart, NotDue, Enqueue, core, AnyDispatch
    <3>2. status \in Statuses
      BY RestParts, Zenon
    <3>3. /\ runs' \in Seq(RunRecord) /\ Len(runs') <= MaxRuns /\ Len(runs) <= Len(runs')
          /\ status' \in Statuses /\ heard' \in Heard
      BY <3>1, <3>2, RunsDispatched
    <3>4. RunsOK'
      BY <1>2, <2>1, <3>3, RunsKept
    <3>5. QED
      BY <1>2, <2>1, <3>1, <3>3, <3>4, RestParts, RestKept, Zenon DEF queue
  <2>4. QED
    BY <2>2, <2>3
<1>5. QED
  BY <1>3, <1>4

LEMMA NextType == RunsOK /\ RestOK /\ [Next]_vars => RunsOK' /\ RestOK'
<1> SUFFICES ASSUME RunsOK, RestOK, [Next]_vars PROVE RunsOK' /\ RestOK'
  OBVIOUS
<1>1. CASE StartGoal \/ Resume \/ MessageDispatched
  BY <1>1, UserDispatches
<1>2. CASE \E i \in asks : Approve(i)
  BY <1>2, ApproveTyped
<1>3. CASE \/ Message \/ Stop \/ SoftDelete \/ PauseGoal \/ Patch \/ Watchdog
           \/ \E i \in asks : Reject(i)
  BY <1>3, PlainWrites
<1>4. CASE StopLook \/ StopCancel
  BY <1>4, StopTyped
<1>5. CASE \E i \in DOMAIN runs : Run(i) \/ TurnWrites(i)
  BY <1>5, RunTyped
<1>6. CASE \E t \in Task : Compensate(t)
  BY <1>6, CompensateTyped
<1>7. CASE Restart \/ NotDue \/ Enqueue \/ Crash
  BY <1>7, RestartTyped
<1>8. CASE UNCHANGED vars
  BY <1>8 DEF vars, core, user, queue, count, RunsOK, RestOK
<1>9. QED
  BY <1>1, <1>2, <1>3, <1>4, <1>5, <1>6, <1>7, <1>8, Zenon DEF Next, UserSteps

LEMMA InitType == Init => RunsOK /\ RestOK
<1> SUFFICES ASSUME Init PROVE RunsOK /\ RestOK
  OBVIOUS
<1>1. RunsOK
  BY BoundAssumption DEF Init, RunsOK, Idle
<1>2. RestOK
  <2>1. /\ stops \in 0 .. MaxStops /\ crashes \in 0 .. MaxCrashes
        /\ \A t \in Task : comp[t] = "failed" <=> tries[t] = MaxTries
        /\ comp \in [Task -> {"none", "pending", "running", "completed", "failed"}]
        /\ tries \in [Task -> 0 .. MaxTries]
    BY BoundAssumption DEF Init
  <2>2. status \in Statuses
    BY DEF Init, Statuses
  <2>3. heard \in Heard /\ message = FALSE /\ host = "up"
    BY DEF Init, Heard
  <2>4. QED
    BY <2>1, <2>2, <2>3, Zenon DEF RestOK
<1>3. QED
  BY <1>1, <1>2

\* Every record of a run, a request and a task keeps its shape, in every state
\* that the writers of a workflow reach: a task fails exactly at its last try.
THEOREM TypeCorrect == Spec => []TypeOK
<1>1. QED
  BY InitType, NextType, TypeParts, PTL DEF Spec

-----------------------------------------------------------------------------
(* The safety properties of the runs.                                       *)

LEMMA OnePendingStep == RunsOK /\ RestOK /\ OnePendingRetry /\ [Next]_vars => OnePendingRetry'
<1> SUFFICES ASSUME RunsOK, RestOK, OnePendingRetry, [Next]_vars PROVE OnePendingRetry'
  OBVIOUS
<1>1. comp \in [Task -> {"none", "pending", "running", "completed", "failed"}]
  BY Zenon DEF RestOK
<1>2. ASSUME UNCHANGED comp PROVE OnePendingRetry'
  BY <1>2 DEF OnePendingRetry
<1>3. ASSUME Enqueued PROVE OnePendingRetry'
  <2>1. CASE Unused # {} /\ comp' = [comp EXCEPT ![Fresh] = "pending"]
             /\ ~ \E t \in Task : comp[t] = "pending"
    BY <1>1, <2>1 DEF OnePendingRetry
  <2>2. QED
    BY <1>2, <1>3, <2>1 DEF Enqueued
<1>4. ASSUME NEW t \in Task, Compensate(t) PROVE OnePendingRetry'
  <2>1. PICK s : comp' = [comp EXCEPT ![t] = s]
    BY <1>4 DEF Compensate
  <2>2. comp[t] = "pending"
    BY <1>4 DEF Compensate
  <2>3. QED
    BY <1>1, <2>1, <2>2 DEF OnePendingRetry
<1>5. ASSUME Restart \/ Enqueue PROVE OnePendingRetry'
  BY <1>2, <1>3, <1>5 DEF Restart, Enqueue
<1>6. ASSUME UNCHANGED vars PROVE OnePendingRetry'
  BY <1>2, <1>6 DEF vars, queue
<1>7. ASSUME UserSteps \/ MessageDispatched \/ StopLook \/ StopCancel \/ Watchdog \/ Crash \/ NotDue
      PROVE  UNCHANGED comp
  BY <1>7 DEF UserSteps, StartGoal, Message, Resume, Stop, SoftDelete, PauseGoal, Patch, Approve,
              Reject, MessageDispatched, StopLook, StopCancel, Watchdog, Crash, NotDue, queue
<1>8. ASSUME NEW i \in DOMAIN runs, Run(i) \/ TurnWrites(i) PROVE UNCHANGED comp
  BY <1>8 DEF Run, StartTurn, Observe, GiveUp, Close, ProjectHitl, TurnWrites, queue
<1>9. QED
  BY <1>2, <1>4, <1>5, <1>6, <1>7, <1>8, Zenon DEF Next

\* One reason for a retry is never in the queue twice, however the enqueues of
\* the routes, of the restarts and of the failed tries interleave.
THEOREM RetriesAreOne == Spec => []OnePendingRetry
<1>1. Init => OnePendingRetry
  BY DEF Init, OnePendingRetry
<1>2. QED
  BY <1>1, InitType, NextType, OnePendingStep, PTL DEF Spec

StopStep ==
  status = "cancelled" /\ status' # "cancelled" =>
    \/ Len(runs') > Len(runs)
    \/ status' = "pending" /\ host # "down"
    \/ message' /\ ~message

LEMMA StopLatches == RunsOK /\ [Next]_vars => StopStep
<1> SUFFICES ASSUME RunsOK, [Next]_vars, status = "cancelled", status' # "cancelled"
             PROVE  \/ Len(runs') > Len(runs)
                    \/ status' = "pending" /\ host # "down"
                    \/ message' /\ ~message
  BY Zenon DEF StopStep
<1>1. ASSUME NEW from, Dispatched(from) PROVE Len(runs') > Len(runs)
  <2>1. runs' = Append(runs, [at |-> "preparing", turn |-> "none", result |-> "none"])
    BY <1>1 DEF Dispatched
  <2>2. runs \in Seq(RunRecord) /\ Len(runs) \in Nat
    BY DEF RunsOK
  <2>3. Len(runs') = Len(runs) + 1
    BY <2>1, <2>2
  <2>4. QED
    BY <1>1, <2>2, <2>3 DEF Dispatched
<1>2. ASSUME Dispatch("cancelled") PROVE FALSE
  BY <1>2 DEF Dispatch, Dispatched, NotDispatched, Latched
<1>3. ASSUME NEW to \in Statuses \ {"pending"}, Write(to) PROVE FALSE
  BY <1>3 DEF Write, Latched
<1>4. CASE StartGoal
  BY <1>1, <1>4 DEF StartGoal, Dispatch, NotDispatched
<1>5. CASE Message
  BY <1>5 DEF Message
<1>6. CASE MessageDispatched
  BY <1>2, <1>6 DEF MessageDispatched
<1>7. CASE \E i \in asks : Approve(i)
  <2>1. Latched(status, "running") = "cancelled"
    BY DEF Latched
  <2>2. "running" \in Statuses \ {"pending"}
    BY DEF Statuses
  <2>3. QED
    BY <1>2, <1>3, <1>7, <2>1, <2>2 DEF Approve
<1>8. CASE Stop \/ SoftDelete \/ PauseGoal \/ Watchdog \/ \E i \in asks : Reject(i)
  BY <1>3, <1>8 DEF Stop, SoftDelete, PauseGoal, Watchdog, Reject, Statuses, Terminal
<1>9. CASE \E i \in DOMAIN runs : Run(i) \/ TurnWrites(i)
  <2>1. PICK i \in DOMAIN runs : Run(i) \/ TurnWrites(i)
    BY <1>9
  <2>2. runs[i].result # "pending"
    BY DEF RunsOK, RunRecord, AnyRun, Ends
  <2>3. ASSUME Close(i) PROVE FALSE
    BY <2>2, <2>3 DEF Close, ProjectHitl, Write, Latched
  <2>4. QED
    BY <2>1, <2>3 DEF Run, StartTurn, Observe, GiveUp, TurnWrites
<1>10. CASE \E t \in Task : Compensate(t)
  BY <1>1, <1>10 DEF Compensate, NotDispatched
<1>11. CASE Restart
  BY <1>11 DEF Restart, Restorable
<1>14. CASE Patch
  <2>1. PICK to \in Statuses : Write(to)
    BY <1>14 DEF Patch
  <2>2. to = "pending"
    BY <1>3, <2>1
  <2>3. QED
    BY <1>14, <2>1, <2>2 DEF Patch, Write, Latched
<1>12. CASE Resume \/ StopLook \/ StopCancel \/ Enqueue \/ Crash \/ NotDue \/ UNCHANGED vars
  BY <1>12 DEF Resume, StopLook, StopCancel, Enqueue, Crash, NotDue, vars
<1>13. QED
  BY <1>4, <1>5, <1>6, <1>7, <1>8, <1>9, <1>10, <1>11, <1>12, <1>14, Zenon
     DEF Next, UserSteps

\* The user's stop outlasts every late writer: whatever brings the workflow back
\* has started it anew, or is about to.
THEOREM StopIsLatched == Spec => StopLasts
<1>1. StopLasts <=> [][StopStep]_vars
  BY DEF StopLasts, StopStep
<1>2. RunsOK /\ [Next]_vars => [StopStep]_vars
  BY StopLatches
<1>3. QED
  BY <1>1, <1>2, InitType, NextType, PTL DEF Spec

-----------------------------------------------------------------------------
(* Nobody is left waiting for nothing.                                      *)

\* What answers for a workflow that says it is running, or about to.
Answered ==
  \/ InFlight # {} \/ message \/ \E t \in Task : comp[t] = "pending"
  \/ heard \in {"new", "user"}
  \/ heard = "row" /\ \E t \in Task : comp[t] = "failed"
  \/ heard \in {"log", "nobody"}

LEMMA DispatchAnswers ==
  ASSUME RunsOK, NEW from \in Statuses,
         Dispatched(from) \/ \E who \in {"user", "log"} : NotDispatched(from, who)
  PROVE  Answered'
<1>1. CASE Dispatched(from)
  <2>1. AnyDispatch(from) /\ heard' = "sent"
    BY <1>1 DEF AnyDispatch, Dispatched
  <2>2. InFlight' # {}
    BY <2>1, RunsDispatched
  <2>3. QED
    BY <2>2, Zenon DEF Answered
<1>2. CASE \E who \in {"user", "log"} : NotDispatched(from, who)
  <2>1. heard' \in {"user", "log"}
    BY <1>2 DEF NotDispatched
  <2>2. QED
    BY <2>1, Zenon DEF Answered
<1>3. QED
  BY <1>1, <1>2

\* Only a run's end takes a run from those in flight.
LEMMA StaysInFlight ==
  ASSUME RunsOK, InFlight # {}, NEW i \in DOMAIN runs, NEW r, runs' = [runs EXCEPT ![i] = r],
         r.at \in {"preparing", "waiting", "closing"}
  PROVE  InFlight' # {}
<1>1. runs \in Seq(RunRecord)
  BY DEF RunsOK
<1>2. i \in DOMAIN runs' /\ runs'[i] = r
  BY <1>1
<1>3. QED
  BY <1>2 DEF InFlight

LEMMA StaysAnswered ==
  ASSUME RunsOK, Answered, UNCHANGED comp, NEW i \in DOMAIN runs, NEW r,
         runs' = [runs EXCEPT ![i] = r], r.at \in {"preparing", "waiting", "closing"},
         UNCHANGED <<message, heard>>
  PROVE  Answered'
<1>1. InFlight # {} => InFlight' # {}
  BY StaysInFlight
<1>2. QED
  BY <1>1, Zenon DEF Answered

LEMMA StillAnswered ==
  ASSUME Answered, UNCHANGED <<runs, message, heard, comp>>
  PROVE  Answered'
  BY Zenon DEF Answered, InFlight

Limbo == host = "up" /\ status \in {"running", "pending"} => Answered

\* A step of a run, or of its turn, that does not end the run.
LEMMA RunAnswered ==
  ASSUME RunsOK, RestOK, Limbo, NEW i \in DOMAIN runs, Run(i) \/ TurnWrites(i)
  PROVE  Limbo'
<1> DEFINE old == runs[i]
<1>1. runs \in Seq(RunRecord) /\ old \in AnyRun
  BY DEF RunsOK, RunRecord
<1>2. CASE Close(i)
  <2>1. old.result \in Ends
    <3>1. old \in RunRecord /\ old.at = "closing"
      BY <1>1, <1>2 DEF Close, RunsOK
    <3>2. QED
      BY <3>1 DEF RunRecord, AnyRun
  <2>2. CASE \E to \in {"awaiting_approval", "completed", "partial", "failed"} : Write(to)
    BY <2>2 DEF Write, Latched, Limbo
  <2>3. CASE heard' = "nobody"
    BY <2>3, Zenon DEF Limbo, Answered
  <2>4. QED
    BY <1>2, <2>1, <2>2, <2>3 DEF Close, ProjectHitl, Ends
<1>3. CASE ~ Close(i)
  <2>1. UNCHANGED <<status, heard, message, host, comp>>
    BY <1>3, Zenon DEF Run, StartTurn, Observe, GiveUp, TurnWrites, user, queue
  <2>2. PICK r : runs' = [runs EXCEPT ![i] = r] /\ (r.at = old.at \/ r.at \in {"waiting", "closing"})
    <3>1. ASSUME NEW result PROVE Closes(i, result).at = "closing"
      BY <1>1 DEF Closes, AnyRun
    <3>2. CASE StartTurn(i)
      <4>1. CASE runs' = [runs EXCEPT ![i].at = "waiting", ![i].turn = "live"]
        <5>1. runs' = [runs EXCEPT ![i] = [[old EXCEPT !.at = "waiting"] EXCEPT !.turn = "live"]]
          BY <1>1, <4>1
        <5>2. [[old EXCEPT !.at = "waiting"] EXCEPT !.turn = "live"].at = "waiting"
          BY <1>1 DEF AnyRun
        <5>3. QED
          BY <5>1, <5>2
      <4>2. QED
        BY <3>1, <3>2, <4>1 DEF StartTurn
    <3>3. CASE Observe(i)
      BY <3>1, <3>3 DEF Observe
    <3>4. CASE GiveUp(i)
      <4>1. PICK result : \/ runs' = [runs EXCEPT ![i] = [Closes(i, result) EXCEPT !.turn = "ended"]]
                          \/ runs' = [runs EXCEPT ![i] = Closes(i, result)]
        BY <3>4 DEF GiveUp
      <4>2. [Closes(i, result) EXCEPT !.turn = "ended"].at = "closing"
        BY <1>1 DEF Closes, AnyRun
      <4>3. QED
        BY <3>1, <4>1, <4>2
    <3>5. CASE TurnWrites(i)
      <4>1. PICK now : runs' = [runs EXCEPT ![i].turn = now]
        BY <3>5 DEF TurnWrites
      <4>2. runs' = [runs EXCEPT ![i] = [old EXCEPT !.turn = now]]
        BY <1>1, <4>1
      <4>3. [old EXCEPT !.turn = now].at = old.at
        BY <1>1 DEF AnyRun
      <4>4. QED
        BY <4>2, <4>3
    <3>6. QED
      BY <1>3, <3>2, <3>3, <3>4, <3>5 DEF Run
  <2>3. CASE r.at \in {"waiting", "closing"}
    <3>1. Answered => Answered'
      BY <2>1, <2>2, <2>3, StaysAnswered
    <3>2. QED
      BY <2>1, <3>1, Zenon DEF Limbo
  <2>4. CASE r.at = old.at
    <3>1. InFlight' = InFlight
      <4>1. DOMAIN runs' = DOMAIN runs /\ \A j \in DOMAIN runs : runs'[j].at = runs[j].at
        BY <1>1, <2>2, <2>4
      <4>2. QED
        BY <4>1, Zenon DEF InFlight
    <3>2. Answered => Answered'
      BY <2>1, <3>1, Zenon DEF Answered
    <3>3. QED
      BY <2>1, <3>2, Zenon DEF Limbo
  <2>5. QED
    BY <2>2, <2>3, <2>4
<1>4. QED
  BY <1>2, <1>3

LEMMA LimboStep == RunsOK /\ RestOK /\ Limbo /\ [Next]_vars => Limbo'
<1> SUFFICES ASSUME RunsOK, RestOK, Limbo, [Next]_vars PROVE Limbo'
  OBVIOUS
<1>1. status \in Statuses /\ "pending" \in Statuses /\ Latched(status, "running") \in Statuses
  <2>1. status \in Statuses /\ "running" \in Statuses /\ "pending" \in Statuses
    BY RestParts DEF Statuses
  <2>2. QED
    BY <2>1, LatchedStatus
<1>2. ASSUME NEW from \in Statuses,
             Dispatched(from) \/ \E who \in {"user", "log"} : NotDispatched(from, who)
      PROVE  Limbo'
  <2>1. Answered'
    BY <1>2, DispatchAnswers
  <2>2. QED
    BY <2>1, Zenon DEF Limbo
<1>3. ASSUME NEW to \in Terminal \cup {"awaiting_approval"}, Write(to),
             UNCHANGED <<runs, message, heard, comp, host>>
      PROVE  Limbo'
  BY <1>3 DEF Write, Latched, Limbo, Terminal
<1>4. ASSUME UNCHANGED <<status, runs, message, heard, comp, host>> PROVE Limbo'
  <2>1. Answered => Answered'
    BY <1>4, StillAnswered
  <2>2. QED
    BY <1>4, <2>1, Zenon DEF Limbo
<1>5. CASE StartGoal \/ Resume
  BY <1>1, <1>2, <1>5 DEF StartGoal, Resume, Dispatch
<1>6. CASE Message
  BY <1>6, Zenon DEF Message, Limbo, Answered
<1>7. CASE MessageDispatched
  BY <1>1, <1>2, <1>7 DEF MessageDispatched, Dispatch
<1>8. CASE \E i \in asks : Approve(i)
  <2>1. ASSUME Die PROVE Limbo'
    BY <2>1, Zenon DEF Die, Limbo
  <2>2. QED
    BY <1>1, <1>2, <1>8, <2>1 DEF Approve, Dispatch
<1>9. CASE Stop \/ SoftDelete \/ PauseGoal \/ Watchdog \/ \E i \in asks : Reject(i)
  <2>1. UNCHANGED <<runs, message, heard, comp, host>>
    BY <1>9 DEF Stop, SoftDelete, PauseGoal, Watchdog, Reject, core, queue, user
  <2>2. PICK to \in Terminal \cup {"awaiting_approval"} : Write(to)
    <3>1. Write("cancelled") \/ Write("awaiting_approval") \/ Write("failed")
      BY <1>9, Zenon DEF Stop, SoftDelete, PauseGoal, Watchdog, Reject
    <3>2. QED
      BY <3>1 DEF Terminal
  <2>3. QED
    BY <1>3, <2>1, <2>2
<1>10. CASE StopLook
  BY <1>4, <1>10 DEF StopLook, core, queue
<1>11. CASE StopCancel
  <2>1. UNCHANGED <<status, message, heard, comp, host>>
    BY <1>11 DEF StopCancel, queue
  <2>2. DOMAIN runs' = DOMAIN runs /\ \A j \in DOMAIN runs : runs'[j].at = runs[j].at
    <3>1. runs \in Seq(AnyRun)
      BY DEF RunsOK, RunRecord
    <3>2. CASE runs' = [runs EXCEPT ![stop.turn].turn = "cancelled"]
      BY <3>1, <3>2 DEF AnyRun
    <3>3. QED
      BY <1>11, <3>2 DEF StopCancel, core
  <2>3. InFlight' = InFlight
    BY <2>2, Zenon DEF InFlight
  <2>4. QED
    BY <2>1, <2>3, Zenon DEF Limbo, Answered
<1>12. CASE \E i \in DOMAIN runs : Run(i) \/ TurnWrites(i)
  BY <1>12, RunAnswered
<1>13. CASE Enqueue
  <2>1. UNCHANGED <<status, runs, message, heard, host>> /\ Enqueued
    BY <1>13 DEF Enqueue, core, user
  <2>2. comp \in [Task -> {"none", "pending", "running", "completed", "failed"}]
    BY RestParts, Zenon
  <2>3. \E t \in Task : comp'[t] = "pending"
    <3>1. CASE Unused # {} /\ comp' = [comp EXCEPT ![Fresh] = "pending"]
      BY <2>2, <3>1, FreshUnused DEF Unused
    <3>2. QED
      BY <2>1, <3>1 DEF Enqueued
  <2>4. QED
    BY <2>3, Zenon DEF Limbo, Answered
<1>14. CASE \E t \in Task : Compensate(t)
  <2>1. ASSUME Die PROVE Limbo'
    BY <2>1, Zenon DEF Die, Limbo
  <2>2. PICK t \in Task : Compensate(t)
    BY <1>14
  <2>3. ASSUME NotDispatched("pending", "row"), comp' = [comp EXCEPT ![t] = AfterFailure(tries[t] + 1)]
        PROVE  Limbo'
    <3>1. comp'[t] \in {"failed", "pending"}
      <4>1. comp \in [Task -> {"none", "pending", "running", "completed", "failed"}]
        BY RestParts, Zenon
      <4>2. QED
        BY <2>3, <4>1 DEF AfterFailure
    <3>2. heard' = "row"
      BY <2>3 DEF NotDispatched
    <3>3. QED
      BY <3>1, <3>2 DEF Limbo, Answered
  <2>4. QED
    BY <1>1, <1>2, <2>1, <2>2, <2>3 DEF Compensate
<1>15. CASE Crash
  BY <1>15, Zenon DEF Crash, Die, Limbo
<1>16. CASE Restart
  <2>1. CASE ~Restorable /\ status' = status
    BY <2>1 DEF Restorable, Limbo
  <2>2. CASE host' = "queue"
    BY <2>2 DEF Limbo
  <2>3. QED
    BY <1>1, <1>2, <1>16, <2>1, <2>2 DEF Restart
<1>17. CASE NotDue
  <2>1. \E t \in Task : comp'[t] = "pending"
    BY <1>17 DEF NotDue, queue
  <2>2. QED
    BY <2>1, Zenon DEF Limbo, Answered
<1>20. CASE Patch
  <2>1. heard' = "user"
    BY <1>20 DEF Patch
  <2>2. QED
    BY <2>1, Zenon DEF Limbo, Answered
<1>18. CASE UNCHANGED vars
  BY <1>4, <1>18 DEF vars, core, user, queue, count
<1>19. QED
  BY <1>5, <1>6, <1>7, <1>8, <1>9, <1>10, <1>11, <1>12, <1>13, <1>14, <1>15, <1>16, <1>17, <1>18, <1>20,
     Zenon DEF Next, UserSteps

\* A workflow that says it is running, or about to, is worked on, is to be, or is
\* left for one of the causes that are named: the user's own request, a row of
\* the queue that is used up, a dispatch of the restart that was only logged, an
\* approval nobody was asked for.  A crash between two writes is never the cause.
THEOREM LimboHasACause == Spec => []LimboAccounted
<1>1. Init => Limbo
  BY Zenon DEF Init, Limbo, Answered
<1>2. Limbo <=> LimboAccounted
  BY DEF Limbo, Answered, LimboAccounted
<1>3. QED
  BY <1>1, <1>2, InitType, NextType, LimboStep, PTL DEF Spec

=============================================================================
