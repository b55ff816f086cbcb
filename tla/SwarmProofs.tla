---------------------------- MODULE SwarmProofs ----------------------------
(***************************************************************************)
(* Proofs about the two state machines of a swarm: the wave loop and the   *)
(* attempt loops of SwarmRun, and the maps of TaskCoordinator.             *)
(*                                                                         *)
(* SwarmRun, for every set of subtasks, every dependency map, every retry  *)
(* budget and any number of cancels: the type invariant, that dependencies *)
(* come first, the failure gate, that a stop in time is final, and that    *)
(* everybody is reported, as often as the code says.                       *)
(*                                                                         *)
(* DependenciesFirst is not inductive: that a wave may be launched was     *)
(* decided an iteration step earlier (WaveSound), and that decision is     *)
(* right because the wave loop loses no subtask (Partition): in a wave     *)
(* with nothing ready and nothing failed out, every dependency that is     *)
(* neither met nor failed is unknown or is itself blocked, so all that is  *)
(* blocked is stuck.                                                       *)
(*                                                                         *)
(* TaskCoordinator, for any tasks, agents and callers: its maps keep their *)
(* shapes, a terminal task stays what it is, and the load of an agent is   *)
(* the work it has, unless an assign_task crossed an unassign_task.        *)
(***************************************************************************)
EXTENDS SwarmRun, TaskCoordinator, FiniteSetTheorems, TLAPS

(***************************************************************************)
(* SwarmRun                                                                *)
(***************************************************************************)
Open == {s \in Subtasks : raw[s] = "none"}

(* Between waves the subtasks without a result remain; during a wave they  *)
(* remain or are in it.                                                    *)
Partition == /\ phase = "top" => remaining = Open
             /\ phase \in {"launch", "wave"} => wave \subseteq Open /\ remaining = Open \ wave

(* What a classified wave may contain.                                     *)
WaveSound ==
    phase = "launch" =>
        \A s \in wave : /\ s \in Stuck \/ deps[s] \subseteq completed
                        /\ deps[s] \cap failed = {}

(* An attempt loop that has begun counts from one, and only erases a       *)
(* cancel to retry while the budget lasts.                                 *)
Counted == \A s \in Subtasks : /\ pc[s] # "idle" => attempt[s] > 0
                               /\ pc[s] = "erase" => attempt[s] < MaxAttempts

Inv == TypeOK /\ Partition /\ WaveSound /\ Counted /\ DependenciesFirst

-----------------------------------------------------------------------------
(* The wave loop's first iterations have a finite guard.                   *)
LEMMA CardinalityNat == Cardinality(Subtasks) \in Nat
BY SubtasksAssumption, FS_CardinalityType

(* The fallback of the wave loop only ever runs stuck subtasks.            *)
LEMMA FallbackIsStuck ==
    ASSUME TypeOK, remaining = Open, Ready \cup FailedOut = {}
    PROVE  remaining \subseteq Stuck
<1>1. remaining \in SUBSET Subtasks
  BY DEF TypeOK
<1>2. ASSUME NEW u \in remaining PROVE ~(deps[u] \subseteq Subtasks \ remaining)
  <2>1. u \notin FailedOut /\ u \notin Ready
    BY DEF Ready, FailedOut
  <2>2. deps[u] \cap failed = {} /\ ~(deps[u] \subseteq completed)
    BY <1>2, <2>1 DEF Ready, FailedOut
  <2>3. PICK d \in deps[u] : d \notin completed /\ d \notin failed
    BY <2>2
  <2>4. d \notin Subtasks \/ d \in Open
    BY <2>3 DEF completed, failed, Open, TypeOK
  <2>5. QED
    BY <2>3, <2>4
<1>3. QED
  BY <1>1, <1>2 DEF Stuck

(* Before the first wave every subtask is remaining and none has run.      *)
LEMMA InitInv == Init => Inv
<1> SUFFICES ASSUME Init PROVE Inv
  OBVIOUS
<1>1. TypeOK
  BY CardinalityNat, LimitsAssumption
  DEF Init, TypeOK, Phases, Locations, NoCancel, Reasons, Told
<1>2. Partition /\ WaveSound /\ Counted /\ DependenciesFirst
  BY DEF Init, Partition, WaveSound, Counted, DependenciesFirst, Open
<1>3. QED
  BY <1>1, <1>2 DEF Inv

-----------------------------------------------------------------------------
(* Counting one more event keeps the shape of the counts.                  *)
LEMMA SendTypes ==
    ASSUME TypeOK, NEW S, SendFailed(S)
    PROVE  reported' \in [Subtasks -> [completed : Nat, failed : Nat]]
<1>1. ASSUME NEW r \in [completed : Nat, failed : Nat]
      PROVE  [r EXCEPT !.failed = @ + 1] \in [completed : Nat, failed : Nat]
  OBVIOUS
<1>2. \A s \in Subtasks : reported[s] \in [completed : Nat, failed : Nat]
  BY DEF TypeOK
<1>3. QED
  BY <1>1, <1>2 DEF SendFailed

(* Every action keeps the shapes; the budget bounds the attempts because   *)
(* a retry starts below it.                                                *)
LEMMA TypeNext == Inv /\ [Next]_vars => TypeOK'
<1> SUFFICES ASSUME Inv, [Next]_vars PROVE TypeOK'
  OBVIOUS
<1> USE LimitsAssumption, CardinalityNat DEF Inv, TypeOK
<1>1. CASE Classify
  BY <1>1, SendTypes DEF Classify, LoopOpen, Phases, Ready, Blocked, FailedOut, loop, table
<1>2. CASE Launch
  BY <1>2 DEF Launch, Phases, Locations, plan, table
<1>3. CASE Join
  BY <1>3 DEF Join, Result, Phases, loop, table
<1>4. CASE WavesEnd
  BY <1>4 DEF WavesEnd, Phases, plan, loop, table
<1>5. CASE Report
  BY <1>5 DEF Report, Phases, loop, table
<1>6. CASE DeadlineAtTop
  BY <1>6, SendTypes DEF DeadlineAtTop, LoopOpen, Break, Phases, loop, table
<1>7. CASE HandoffPoint
  BY <1>7 DEF HandoffPoint, LoopOpen, Break, Phases, loop, table
<1>8. CASE DeadlineAtLaunch
  BY <1>8, SendTypes DEF DeadlineAtLaunch, Break, Phases, loop, table
<1>9. CASE DeadlineInWave
  BY <1>9, SendTypes DEF DeadlineInWave, Break, Phases, Locations, table
<1>10. ASSUME NEW s \in Subtasks, Begin(s) PROVE TypeOK'
  BY <1>10 DEF Begin, Goto, Locations, plan, table
<1>11. ASSUME NEW s \in Subtasks, TurnReturns(s) PROVE TypeOK'
  BY <1>11 DEF TurnReturns, Goto, Locations, plan, table
<1>12. ASSUME NEW s \in Subtasks, Panic(s) PROVE TypeOK'
  BY <1>12 DEF Panic, Goto, Locations, plan, table
<1>13. ASSUME NEW s \in Subtasks, Clean(s) PROVE TypeOK'
  BY <1>13 DEF Clean, Goto, NoCancel, Reasons, Locations, plan
<1>14. ASSUME NEW s \in Subtasks, GiveBack(s) PROVE TypeOK'
  BY <1>14 DEF GiveBack, Goto, Locations, plan, table
<1>15. ASSUME NEW s \in Subtasks, Retry(s) PROVE TypeOK'
  BY <1>15 DEF Retry, Final, Goto, Locations, plan, table
<1>16. ASSUME NEW s \in Subtasks, ReadWatchdog(s) PROVE TypeOK'
  BY <1>16 DEF ReadWatchdog, Goto, Locations, plan, table
<1>17. ASSUME NEW s \in Subtasks, Erase(s) PROVE TypeOK'
  BY <1>17 DEF Erase, Goto, Counted, NoCancel, Reasons, Locations, plan
<1>18. ASSUME NEW s \in Subtasks, UserCancel(s) PROVE TypeOK'
  BY <1>18 DEF UserCancel, Fire, Reasons, plan, loop
<1>19. ASSUME NEW s \in Subtasks, WatchdogCancel(s) PROVE TypeOK'
  BY <1>19 DEF WatchdogCancel, Fire, Reasons, plan, loop
<1>20. CASE UNCHANGED vars
  BY <1>20 DEF vars, plan, loop, table
<1>21. QED
  BY <1>1, <1>2, <1>3, <1>4, <1>5, <1>6, <1>7, <1>8, <1>9, <1>10, <1>11,
     <1>12, <1>13, <1>14, <1>15, <1>16, <1>17, <1>18, <1>19, <1>20
  DEF Next, WaveLoop, BreakOff, Dispatch, Done

(* A step of an attempt loop or of a canceller leaves the plan alone; it   *)
(* begins no attempt of a subtask that has not been launched.              *)
LEMMA DispatchNext ==
    ASSUME Inv, NEW s \in Subtasks, Dispatch(s) \/ UserCancel(s) \/ WatchdogCancel(s)
    PROVE  /\ UNCHANGED <<plan, phase>>
           /\ Counted'
           /\ \A t \in Subtasks : attempt'[t] > 0 <=> attempt[t] > 0
<1> USE LimitsAssumption DEF Inv, TypeOK, Counted, Locations
<1>1. CASE Begin(s)
  BY <1>1 DEF Begin, Goto
<1>2. CASE TurnReturns(s)
  BY <1>2 DEF TurnReturns, Goto
<1>3. CASE Panic(s)
  BY <1>3 DEF Panic, Goto
<1>4. CASE Clean(s)
  BY <1>4 DEF Clean, Goto
<1>5. CASE GiveBack(s)
  BY <1>5 DEF GiveBack, Goto
<1>6. CASE Retry(s)
  BY <1>6 DEF Retry, Goto
<1>7. CASE ReadWatchdog(s)
  BY <1>7 DEF ReadWatchdog, Final, Goto
<1>8. CASE Erase(s)
  BY <1>8 DEF Erase, Goto
<1>9. CASE UserCancel(s) \/ WatchdogCancel(s)
  BY <1>9 DEF UserCancel, WatchdogCancel, Fire, loop
<1>10. QED
  BY <1>1, <1>2, <1>3, <1>4, <1>5, <1>6, <1>7, <1>8, <1>9 DEF Dispatch

(* Stuck is a matter of the plan alone.                                    *)
LEMMA StuckStays ==
    ASSUME deps' = deps
    PROVE  Stuck' = Stuck
BY DEF Stuck

(* The classification: what is failed out gets its result, and what goes   *)
(* into the wave is ready, or stuck.                                       *)
LEMMA ClassifyNext ==
    ASSUME Inv, Classify
    PROVE  Partition' /\ WaveSound' /\ Counted' /\ DependenciesFirst'
<1>1. remaining = Open
  BY DEF Inv, Partition, Classify, LoopOpen
<1>2. UNCHANGED <<deps, pc, attempt>> /\ Stuck' = Stuck
  BY StuckStays DEF Classify, loop
<1>3. raw' = [t \in Subtasks |-> IF t \in FailedOut THEN "err" ELSE raw[t]]
  BY DEF Classify
<1>4. completed' = completed /\ failed' = failed \cup FailedOut /\ Open' = Open \ FailedOut
  BY <1>1, <1>3 DEF completed, failed, Open, FailedOut
<1>5. Counted' /\ DependenciesFirst'
  BY <1>2, <1>4 DEF Inv, Counted, DependenciesFirst
<1>6. CASE Ready \cup FailedOut = {}
  <2>1. wave' = remaining /\ remaining' = {} /\ phase' = "launch" /\ failed' = failed
    BY <1>4, <1>6 DEF Classify, Blocked
  <2>2. remaining \subseteq Stuck
    BY <1>1, <1>6, FallbackIsStuck DEF Inv
  <2>3. \A t \in remaining : deps[t] \cap failed = {}
    BY <1>6 DEF FailedOut
  <2>4. WaveSound'
    BY <1>2, <2>1, <2>2, <2>3 DEF WaveSound
  <2>5. Partition'
    BY <1>1, <1>4, <1>6, <2>1 DEF Partition
  <2>6. QED
    BY <1>5, <2>4, <2>5
<1>7. CASE Ready \cup FailedOut # {}
  <2>1. wave' = Ready /\ remaining' = Blocked /\ phase' = "launch"
    BY <1>7 DEF Classify
  <2>2. \A t \in Ready : deps[t] \subseteq completed /\ deps[t] \cap failed = {}
    BY DEF Ready, FailedOut
  <2>3. completed \cap FailedOut = {}
    BY <1>1 DEF completed, FailedOut, Open
  <2>4. WaveSound'
    BY <1>2, <1>4, <2>1, <2>2, <2>3 DEF WaveSound
  <2>5. Ready \subseteq Open \ FailedOut /\ Blocked = (Open \ FailedOut) \ Ready
    BY <1>1 DEF Ready, Blocked
  <2>6. Partition'
    BY <1>4, <2>1, <2>5 DEF Partition
  <2>7. QED
    BY <1>5, <2>4, <2>6
<1>8. QED
  BY <1>6, <1>7

(* Dispatching the wave starts only subtasks that may start.               *)
LEMMA LaunchNext ==
    ASSUME Inv, Launch
    PROVE  Partition' /\ WaveSound' /\ Counted' /\ DependenciesFirst'
<1>1. UNCHANGED <<deps, raw, wave, remaining>> /\ phase = "launch" /\ phase' = "wave"
  BY DEF Launch, plan
<1>2. Stuck' = Stuck /\ completed' = completed /\ failed' = failed /\ Open' = Open
  BY <1>1, StuckStays DEF completed, failed, Open
<1>3. Partition' /\ WaveSound'
  BY <1>1, <1>2 DEF Inv, Partition, WaveSound
<1>4. Counted'
  BY DEF Launch, Inv, Counted, TypeOK
<1>5. \A t \in Subtasks : attempt'[t] > 0 => attempt[t] > 0 \/ t \in wave
  BY DEF Launch
<1>6. DependenciesFirst'
  BY <1>1, <1>2, <1>5 DEF Inv, WaveSound, DependenciesFirst
<1>7. QED
  BY <1>3, <1>4, <1>6

(* Results come in: what was met stays met.                                *)
LEMMA JoinNext ==
    ASSUME Inv, Join
    PROVE  Partition' /\ WaveSound' /\ Counted' /\ DependenciesFirst'
<1>1. UNCHANGED <<deps, pc, attempt, remaining>> /\ phase' = "top" /\ Stuck' = Stuck
  BY StuckStays DEF Join, loop
<1>2. wave \subseteq Open /\ remaining = Open \ wave
  BY DEF Join, Inv, Partition
<1>3. raw' = [t \in Subtasks |-> IF t \in wave THEN Result(t) ELSE raw[t]]
  BY DEF Join
<1>4. completed \subseteq completed'
  BY <1>2, <1>3 DEF completed, Open
<1>5. Open' = Open \ wave
  BY <1>2, <1>3 DEF Open, Result
<1>6. Partition' /\ WaveSound' /\ Counted'
  BY <1>1, <1>2, <1>5 DEF Inv, Partition, WaveSound, Counted
<1>7. DependenciesFirst'
  BY <1>1, <1>4 DEF Inv, DependenciesFirst
<1>8. QED
  BY <1>6, <1>7

(* The end of the loop, by condition or break, and the report.             *)
LEMMA EndNext ==
    ASSUME Inv, WavesEnd \/ Report \/ BreakOff
    PROVE  Partition' /\ WaveSound' /\ Counted' /\ DependenciesFirst'
<1>1. UNCHANGED <<deps, raw, attempt>> /\ phase' \in {"report", "done"}
  BY DEF WavesEnd, Report, BreakOff, DeadlineAtTop, HandoffPoint, DeadlineAtLaunch,
         DeadlineInWave, Break, plan, loop
<1>2. \A t \in Subtasks : pc'[t] = pc[t] \/ pc'[t] = "idle"
  BY DEF WavesEnd, Report, BreakOff, DeadlineAtTop, HandoffPoint, DeadlineAtLaunch,
         DeadlineInWave, loop
<1>3. Stuck' = Stuck /\ completed' = completed
  BY <1>1, StuckStays DEF completed
<1>4. Counted'
  BY <1>1, <1>2 DEF Inv, Counted
<1>5. Partition' /\ WaveSound' /\ DependenciesFirst'
  BY <1>1, <1>3 DEF Inv, Partition, WaveSound, DependenciesFirst
<1>6. QED
  BY <1>4, <1>5

(* Every step of the wave loop and of the dispatches keeps it.             *)
LEMMA StepInv == Inv /\ [Next]_vars => Inv'
<1> SUFFICES ASSUME Inv, [Next]_vars PROVE Inv'
  OBVIOUS
<1>1. TypeOK'
  BY TypeNext
<1>2. CASE WaveLoop \/ BreakOff
  BY <1>1, <1>2, ClassifyNext, LaunchNext, JoinNext, EndNext DEF WaveLoop, Inv
<1>3. ASSUME NEW s \in Subtasks, Dispatch(s) \/ UserCancel(s) \/ WatchdogCancel(s)
      PROVE  Inv'
  <2>1. UNCHANGED <<deps, raw, wave, remaining, phase>> /\ Counted'
    BY <1>3, DispatchNext DEF plan
  <2>2. \A t \in Subtasks : attempt'[t] > 0 => attempt[t] > 0
    BY <1>3, DispatchNext
  <2>3. Stuck' = Stuck /\ completed' = completed /\ failed' = failed /\ Open' = Open
    BY <2>1, StuckStays DEF completed, failed, Open
  <2>4. Partition' /\ WaveSound' /\ DependenciesFirst'
    BY <2>1, <2>2, <2>3 DEF Inv, Partition, WaveSound, DependenciesFirst
  <2>5. QED
    BY <1>1, <2>1, <2>4 DEF Inv
<1>4. CASE UNCHANGED vars
  <2>1. UNCHANGED <<deps, raw, wave, remaining, phase, pc, attempt>>
    BY <1>4 DEF vars, plan, loop
  <2>2. Stuck' = Stuck /\ completed' = completed /\ failed' = failed /\ Open' = Open
    BY <2>1, StuckStays DEF completed, failed, Open
  <2>3. QED
    BY <1>1, <2>1, <2>2 DEF Inv, Partition, WaveSound, Counted, DependenciesFirst
<1>5. QED
  BY <1>2, <1>3, <1>4 DEF Next, Done

-----------------------------------------------------------------------------
(* The invariant holds of every run.                                       *)
THEOREM Invariance == Spec => []Inv
BY InitInv, StepInv, PTL DEF Spec

(* Every reachable state is well typed; in particular no dispatch exceeds  *)
(* its retry budget, however many cancels come from user and watchdog.     *)
THEOREM TypeCorrect == Spec => []TypeOK
<1>1. Inv => TypeOK
  BY DEF Inv
<1>2. QED
  BY <1>1, Invariance, PTL

(* A subtask whose dependencies can be met runs only after all of them     *)
(* have succeeded, whatever the plan and whatever goes wrong around it.    *)
THEOREM DependenciesComeFirst == Spec => []DependenciesFirst
<1>1. Inv => DependenciesFirst
  BY DEF Inv
<1>2. QED
  BY <1>1, Invariance, PTL

(* No dispatch starts after one of its dependencies has failed.            *)
THEOREM FailuresGate == Spec => FailureGate
<1> DEFINE Gate == \A s \in Subtasks : attempt[s] = 0 /\ attempt'[s] > 0 => deps[s] \cap failed = {}
<1>1. Inv /\ [Next]_vars => [Gate]_vars
  <2> SUFFICES ASSUME Inv, Next PROVE Gate
    BY DEF vars
  <2>1. CASE Launch
    <3>1. \A s \in Subtasks \ wave : attempt'[s] = attempt[s]
      BY <2>1 DEF Launch, Inv, TypeOK
    <3>2. \A s \in wave : deps[s] \cap failed = {}
      BY <2>1 DEF Launch, Inv, WaveSound
    <3>3. QED
      BY <3>1, <3>2
  <2>2. CASE (WaveLoop /\ ~Launch) \/ BreakOff \/ Done
    <3>1. attempt' = attempt
      BY <2>2 DEF WaveLoop, Classify, Join, WavesEnd, Report, BreakOff, DeadlineAtTop,
                  HandoffPoint, DeadlineAtLaunch, DeadlineInWave, Done, vars, loop
    <3>2. QED
      BY <3>1
  <2>3. ASSUME NEW s \in Subtasks, Dispatch(s) \/ UserCancel(s) \/ WatchdogCancel(s)
        PROVE  Gate
    BY <2>3, DispatchNext DEF Inv, TypeOK
  <2>4. QED
    BY <2>1, <2>2, <2>3 DEF Next
<1>2. QED
  BY <1>1, Invariance, PTL DEF Spec, FailureGate

-----------------------------------------------------------------------------
(* A stop in time survives until it is judged: the attempt it reached read *)
(* an older epoch, so the scoped clear spares it, and nothing else clears  *)
(* the entry on the way.  A subtask that waits for its wave has no stop.   *)
StopHeld ==
    \A s \in Subtasks :
        /\ pc[s] \in {"running", "clean"} => observed[s] <= cancels[s].epoch
        /\ attempt[s] = 0 => stop[s] = "none"
        /\ stop[s] = "in_time" =>
               /\ pc[s] \notin {"setup", "erase"}
               /\ pc[s] \in {"running", "clean", "judge"} => cancels[s].reason = "user"
               /\ pc[s] \in {"running", "clean"} => observed[s] < cancels[s].epoch

(* Subtasks are launched once.                                             *)
Fresh == /\ phase \in {"top", "launch"} => \A s \in Open : attempt[s] = 0
         /\ phase = "wave" => \A s \in remaining : attempt[s] = 0

(* Every step of the attempt loops and of the cancel table keeps it.       *)
LEMMA FreshNext == Inv /\ Fresh /\ [Next]_vars => Fresh'
<1> SUFFICES ASSUME Inv, Fresh, [Next]_vars PROVE Fresh'
  OBVIOUS
<1>1. CASE Classify
  <2>1. UNCHANGED attempt /\ phase = "top" /\ phase' = "launch"
    BY <1>1 DEF Classify, LoopOpen, loop
  <2>2. Open' \subseteq Open
    BY <1>1 DEF Classify, Open
  <2>3. QED
    BY <2>1, <2>2 DEF Fresh
<1>2. CASE Launch
  <2>1. phase = "launch" /\ phase' = "wave" /\ remaining' = remaining
    BY <1>2 DEF Launch, plan
  <2>2. remaining = Open \ wave
    BY <2>1 DEF Inv, Partition
  <2>3. \A s \in remaining : attempt'[s] = attempt[s]
    BY <1>2, <2>2 DEF Launch, Open
  <2>4. QED
    BY <2>1, <2>2, <2>3 DEF Fresh
<1>3. CASE Join
  <2>1. UNCHANGED attempt /\ phase = "wave" /\ phase' = "top" /\ UNCHANGED remaining
    BY <1>3 DEF Join, loop
  <2>2. Partition'
    BY <1>3, JoinNext
  <2>3. QED
    BY <2>1, <2>2 DEF Fresh, Partition
<1>4. CASE WavesEnd \/ Report \/ BreakOff
  <2>1. phase' \in {"report", "done"}
    BY <1>4 DEF WavesEnd, Report, BreakOff, DeadlineAtTop, HandoffPoint, DeadlineAtLaunch,
                DeadlineInWave, Break
  <2>2. QED
    BY <2>1 DEF Fresh
<1>5. ASSUME NEW s \in Subtasks, Dispatch(s) \/ UserCancel(s) \/ WatchdogCancel(s)
      PROVE  Fresh'
  <2>1. UNCHANGED <<raw, remaining, phase>>
    BY <1>5, DispatchNext DEF plan
  <2>2. \A t \in Subtasks : attempt[t] = 0 => attempt'[t] = 0
    <3>1. attempt' \in [Subtasks -> Nat] /\ attempt \in [Subtasks -> Nat]
      BY LimitsAssumption, TypeNext DEF Inv, TypeOK
    <3>2. QED
      BY <1>5, <3>1, DispatchNext
  <2>3. remaining \subseteq Subtasks /\ Open' = Open /\ Open \subseteq Subtasks
    BY <2>1 DEF Inv, TypeOK, Open
  <2>4. QED
    BY <2>1, <2>2, <2>3 DEF Fresh
<1>6. CASE UNCHANGED vars
  BY <1>6 DEF vars, plan, loop, Fresh, Open
<1>7. QED
  BY <1>1, <1>2, <1>3, <1>4, <1>5, <1>6 DEF Next, WaveLoop, Done

(* No step begins an attempt of a subtask that was stopped in time.        *)
LEMMA StopNext ==
    ASSUME Inv, Fresh, StopHeld, [Next]_vars
    PROVE  /\ StopHeld'
           /\ \A t \in Subtasks : stop[t] = "in_time" => attempt'[t] = attempt[t]
<1> USE LimitsAssumption DEF Inv, TypeOK, StopHeld
<1>1. CASE Launch
  <2>1. wave \subseteq Open
    BY <1>1 DEF Launch, Partition
  <2>2. \A t \in wave : attempt[t] = 0
    BY <1>1, <2>1 DEF Launch, Fresh
  <2>3. QED
    BY <1>1, <2>2 DEF Launch, table
<1>2. CASE (WaveLoop /\ ~Launch) \/ BreakOff \/ Done \/ UNCHANGED vars
  <2>1. UNCHANGED <<attempt, observed, cancels, stop>>
    BY <1>2 DEF WaveLoop, Classify, Join, WavesEnd, Report, BreakOff, DeadlineAtTop,
                HandoffPoint, DeadlineAtLaunch, DeadlineInWave, Done, vars, loop, table
  <2>2. \A t \in Subtasks : pc'[t] = pc[t] \/ pc'[t] = "idle"
    BY <1>2 DEF WaveLoop, Classify, Join, WavesEnd, Report, BreakOff, DeadlineAtTop,
                HandoffPoint, DeadlineAtLaunch, DeadlineInWave, Done, vars, loop
  <2>3. QED
    BY <2>1, <2>2
<1>3. ASSUME NEW s \in Subtasks, Begin(s)
      PROVE  StopHeld' /\ attempt' = attempt
  BY <1>3 DEF Begin, Goto, table
<1>4. ASSUME NEW s \in Subtasks, TurnReturns(s) \/ Panic(s) \/ GiveBack(s)
      PROVE  StopHeld' /\ attempt' = attempt
  BY <1>4 DEF TurnReturns, Panic, GiveBack, Goto, table
<1>5. ASSUME NEW s \in Subtasks, Clean(s)
      PROVE  StopHeld' /\ attempt' = attempt
  BY <1>5 DEF Clean, Goto
<1>6. ASSUME NEW s \in Subtasks, ReadWatchdog(s)
      PROVE  StopHeld' /\ attempt' = attempt
  BY <1>6 DEF ReadWatchdog, Goto, table
<1>7. ASSUME NEW s \in Subtasks, Retry(s)
      PROVE  StopHeld' /\ \A t \in Subtasks : stop[t] = "in_time" => attempt'[t] = attempt[t]
  BY <1>7 DEF Retry, Goto, table
<1>8. ASSUME NEW s \in Subtasks, Erase(s)
      PROVE  StopHeld' /\ \A t \in Subtasks : stop[t] = "in_time" => attempt'[t] = attempt[t]
  BY <1>8 DEF Erase, Goto
<1>9. ASSUME NEW s \in Subtasks, UserCancel(s)
      PROVE  StopHeld' /\ attempt' = attempt
  BY <1>9 DEF UserCancel, Fire, Counted, Locations, loop
<1>10. ASSUME NEW s \in Subtasks, WatchdogCancel(s)
       PROVE  StopHeld' /\ attempt' = attempt
  BY <1>10 DEF WatchdogCancel, Fire, Counted, loop
<1>11. QED
  BY <1>1, <1>2, <1>3, <1>4, <1>5, <1>6, <1>7, <1>8, <1>9, <1>10 DEF Next, Dispatch

(* A user cancel that reached a running attempt and was not overwritten by *)
(* the watchdog is final: no attempt of that dispatch begins any more.     *)
THEOREM StopsAreFinal == Spec => StopIsFinal
<1> DEFINE Stopped == \A s \in Subtasks : stop[s] = "in_time" => attempt'[s] = attempt[s]
<1>1. Init => Inv /\ Fresh /\ StopHeld
  BY InitInv DEF Init, Fresh, StopHeld, Open
<1>2. Inv /\ Fresh /\ StopHeld /\ [Next]_vars => (Inv /\ Fresh /\ StopHeld)' /\ [Stopped]_vars
  BY StepInv, FreshNext, StopNext
<1>3. QED
  BY <1>1, <1>2, PTL DEF Spec, StopIsFinal

-----------------------------------------------------------------------------
(* The iteration guard outlasts the subtasks: an iteration costs one of    *)
(* guard and takes at least one subtask.                                   *)
GuardLasts == phase \in {"top", "launch", "wave"} => Cardinality(remaining) < guard

(* What a subtask with a result has been told before the final report.     *)
Before(s) == IF raw[s] = "err" /\ attempt[s] = 0 THEN Told(0, 1) ELSE Told(0, 0)

(* The wave loop has not been broken off while it runs; until the report   *)
(* nobody with a result has been told of it but the skipped subtasks, and  *)
(* of the others those that the loop was broken off for; then it is true.  *)
Announced ==
    /\ phase \in {"top", "launch", "wave"} =>
           cut = "none" /\ \A s \in Open : reported[s] = Told(0, 0)
    /\ phase # "done" => \A s \in Subtasks \ Open : reported[s] = Before(s)
    /\ phase = "report" =>
           \A s \in Open : \/ cut = "deadline" /\ reported[s] = Told(0, 1)
                           \/ cut = "late" /\ reported[s] \in {Told(0, 0), Told(0, 1)}
                           \/ cut = "overnight" /\ reported[s] = Told(0, 0)
    /\ Reported

(* One more failure.                                                       *)
LEMMA TellFailed ==
    /\ [Told(0, 0) EXCEPT !.failed = @ + 1] = Told(0, 1)
    /\ [Told(0, 1) EXCEPT !.failed = @ + 1] = Told(0, 2)
    /\ [Told(0, 0) EXCEPT !.completed = @ + 1] = Told(1, 0)
BY DEF Told

(* A classification takes a subtask, so the guard still outlasts the rest. *)
LEMMA GuardNext == Inv /\ GuardLasts /\ [Next]_vars => GuardLasts'
<1> SUFFICES ASSUME Inv, GuardLasts, [Next]_vars PROVE GuardLasts'
  OBVIOUS
<1>1. CASE Classify
  <2>1. IsFiniteSet(remaining) /\ guard \in Nat
    BY SubtasksAssumption, CardinalityNat, FS_Subset DEF Inv, TypeOK
  <2>2. Cardinality(remaining) < guard /\ guard' = guard - 1 /\ remaining # {}
    BY <1>1 DEF Classify, LoopOpen, GuardLasts
  <2>3. Cardinality(remaining) \in Nat /\ Cardinality(remaining) # 0
    BY <2>1, <2>2, FS_CardinalityType, FS_EmptySet
  <2>4. remaining' \in SUBSET remaining /\ remaining' # remaining
    BY <1>1, <2>2 DEF Classify, Blocked, Ready, FailedOut
  <2>5. Cardinality(remaining') < Cardinality(remaining)
    BY <2>1, <2>3, <2>4, FS_Subset, FS_CardinalityType
  <2>6. Cardinality(remaining') \in Nat
    BY <2>1, <2>4, FS_Subset, FS_CardinalityType
  <2>7. QED
    BY <2>1, <2>2, <2>3, <2>5, <2>6 DEF GuardLasts
<1>2. CASE Launch \/ Join
  BY <1>2 DEF Launch, Join, plan, GuardLasts
<1>3. CASE WavesEnd \/ Report \/ BreakOff
  <2>1. phase' \in {"report", "done"}
    BY <1>3 DEF WavesEnd, Report, BreakOff, DeadlineAtTop, HandoffPoint, DeadlineAtLaunch,
                DeadlineInWave, Break
  <2>2. QED
    BY <2>1 DEF GuardLasts
<1>4. ASSUME NEW s \in Subtasks, Dispatch(s) \/ UserCancel(s) \/ WatchdogCancel(s)
      PROVE  GuardLasts'
  BY <1>4, DispatchNext DEF plan, GuardLasts
<1>5. CASE UNCHANGED vars
  BY <1>5 DEF vars, plan, GuardLasts
<1>6. QED
  BY <1>1, <1>2, <1>3, <1>4, <1>5 DEF Next, WaveLoop, Done

(* The last events are sent: every result has its own.                     *)
LEMMA ReportNext ==
    ASSUME Inv, Announced, Report
    PROVE  Announced'
<1>1. phase = "report" /\ phase' = "done" /\ UNCHANGED <<raw, cut, attempt>>
  BY DEF Report, loop
<1>2. ASSUME NEW s \in Subtasks
      PROVE  /\ raw[s] = "ok" => reported'[s] = [reported[s] EXCEPT !.completed = @ + 1]
             /\ raw[s] = "err" => reported'[s] = [reported[s] EXCEPT !.failed = @ + 1]
             /\ raw[s] = "none" => reported'[s] = reported[s]
  BY DEF Report, completed, failed
<1>3. ASSUME NEW s \in Subtasks
      PROVE  /\ raw[s] = "ok" => reported'[s] = Told(1, 0)
             /\ raw[s] = "err" => reported'[s] = Told(0, IF attempt[s] = 0 THEN 2 ELSE 1)
             /\ raw[s] = "none" => \/ cut = "deadline" /\ reported'[s] = Told(0, 1)
                                   \/ cut = "late" /\ reported'[s] \in {Told(0, 0), Told(0, 1)}
                                   \/ cut = "overnight" /\ reported'[s] = Told(0, 0)
  <2>1. CASE raw[s] = "ok"
    <3>1. reported[s] = Told(0, 0)
      BY <1>1, <2>1 DEF Announced, Before, Open
    <3>2. QED
      BY <1>2, <2>1, <3>1, TellFailed
  <2>2. CASE raw[s] = "err"
    <3>1. reported[s] = IF attempt[s] = 0 THEN Told(0, 1) ELSE Told(0, 0)
      BY <1>1, <2>2 DEF Announced, Before, Open
    <3>2. QED
      BY <1>2, <2>2, <3>1, TellFailed
  <2>3. CASE raw[s] = "none"
    BY <1>1, <1>2, <2>3 DEF Announced, Open
  <2>4. QED
    BY <2>1, <2>2, <2>3 DEF Inv, TypeOK
<1>4. Reported'
  BY <1>1, <1>3 DEF Reported
<1>5. QED
  BY <1>1, <1>4 DEF Announced

(* A deadline tells a part of those without a result, once, and nobody     *)
(* else; the first of the two deadlines tells all of them.                 *)
LEMMA BreakNext ==
    ASSUME Announced, NEW S \in SUBSET Open, SendFailed(S),
           phase \in {"top", "launch", "wave"}, phase' = "report",
           raw' = raw, attempt' = attempt,
           cut' = "late" \/ (cut' = "deadline" /\ S = Open)
    PROVE  Announced'
<1>1. \A s \in Subtasks :
          reported'[s] = IF s \in S THEN [reported[s] EXCEPT !.failed = @ + 1] ELSE reported[s]
  BY DEF SendFailed
<1>2. \A s \in Open : reported[s] = Told(0, 0)
  BY DEF Announced
<1>3. \A s \in Subtasks : reported'[s] = IF s \in S THEN Told(0, 1) ELSE reported[s]
  BY <1>1, <1>2, TellFailed
<1>4. QED
  BY <1>2, <1>3 DEF Announced, Reported, Before, Open

(* No step announces what has not happened, or forgets to.                 *)
LEMMA AnnouncedNext ==
    Inv /\ Fresh /\ GuardLasts /\ Announced /\ [Next]_vars => Announced'
<1> SUFFICES ASSUME Inv, Fresh, GuardLasts, Announced, [Next]_vars PROVE Announced'
  OBVIOUS
<1>1. CASE Classify
  <2>1. phase = "top" /\ phase' = "launch" /\ cut' = cut /\ attempt' = attempt
    BY <1>1 DEF Classify, LoopOpen, loop
  <2>2. FailedOut \subseteq Open /\ \A s \in Open : attempt[s] = 0
    BY <2>1 DEF Inv, Partition, FailedOut, Fresh
  <2>3. \A s \in Subtasks :
            /\ raw'[s] = IF s \in FailedOut THEN "err" ELSE raw[s]
            /\ reported'[s] = IF s \in FailedOut THEN [reported[s] EXCEPT !.failed = @ + 1]
                                                ELSE reported[s]
    BY <1>1 DEF Classify, SendFailed
  <2>4. \A s \in FailedOut : reported'[s] = Told(0, 1) /\ raw'[s] = "err" /\ s \notin Open'
    BY <2>1, <2>2, <2>3, TellFailed DEF Announced, Open
  <2>5. \A s \in Subtasks \ FailedOut : reported'[s] = reported[s] /\ raw'[s] = raw[s]
    BY <2>3
  <2>6. Open' \subseteq Open
    BY <2>4, <2>5 DEF Open
  <2>7. \A s \in Open' : reported'[s] = Told(0, 0)
    BY <2>1, <2>4, <2>5, <2>6 DEF Announced, Open
  <2>8. \A s \in FailedOut : reported'[s] = Before(s)'
    BY <2>1, <2>2, <2>4 DEF Before, Open
  <2>9. \A s \in Subtasks \ Open' : reported'[s] = Before(s)'
    BY <2>1, <2>5, <2>8 DEF Announced, Before, Open
  <2>10. QED
    BY <2>1, <2>7, <2>9 DEF Announced, Reported
<1>2. CASE Launch
  <2>1. \A s \in Subtasks \ Open : attempt'[s] = attempt[s]
    BY <1>2 DEF Launch, Inv, Partition, TypeOK
  <2>2. QED
    BY <1>2, <2>1 DEF Launch, plan, Announced, Reported, Before, Open
<1>3. CASE Join
  <2>1. phase = "wave" /\ phase' = "top" /\ UNCHANGED <<cut, reported, attempt>>
    BY <1>3 DEF Join, loop
  <2>2. wave \subseteq Open /\ \A s \in wave : attempt[s] # 0
    BY <1>3, <2>1 DEF Join, Inv, Partition, Counted, Open
  <2>3. \A s \in Subtasks : raw'[s] = IF s \in wave THEN Result(s) ELSE raw[s]
    BY <1>3 DEF Join
  <2>4. QED
    BY <2>1, <2>2, <2>3 DEF Announced, Reported, Before, Open, Result
<1>4. CASE WavesEnd
  <2>1. phase = "top" /\ phase' = "report" /\ UNCHANGED <<cut, reported, raw, attempt>>
    BY <1>4 DEF WavesEnd, plan, loop
  <2>2. remaining = {}
    <3>1. IsFiniteSet(remaining) /\ guard \in Nat
      BY SubtasksAssumption, CardinalityNat, FS_Subset DEF Inv, TypeOK
    <3>2. Cardinality(remaining) \in Nat /\ Cardinality(remaining) < guard
      BY <2>1, <3>1, FS_CardinalityType DEF GuardLasts
    <3>3. QED
      BY <1>4, <3>1, <3>2 DEF WavesEnd
  <2>3. Open = {}
    BY <2>1, <2>2 DEF Inv, Partition
  <2>4. QED
    BY <2>1, <2>3 DEF Announced, Reported, Before, Open
<1>5. CASE Report
  BY <1>5, ReportNext
<1>6. CASE DeadlineAtTop
  <2>1. /\ phase = "top" /\ phase' = "report" /\ cut' = "deadline"
        /\ raw' = raw /\ attempt' = attempt
    BY <1>6 DEF DeadlineAtTop, LoopOpen, Break, loop
  <2>2. remaining = Open
    BY <2>1 DEF Inv, Partition
  <2>3. QED
    BY <1>6, <2>1, <2>2, BreakNext DEF DeadlineAtTop
<1>7. CASE HandoffPoint
  BY <1>7 DEF HandoffPoint, LoopOpen, Break, Announced, Reported, Before, Open, loop
<1>8. CASE DeadlineAtLaunch
  <2>1. /\ phase = "launch" /\ phase' = "report" /\ cut' = "late"
        /\ raw' = raw /\ attempt' = attempt
    BY <1>8 DEF DeadlineAtLaunch, Break, loop
  <2>2. wave \subseteq Open
    BY <2>1 DEF Inv, Partition
  <2>3. QED
    BY <1>8, <2>1, <2>2, BreakNext DEF DeadlineAtLaunch
<1>9. CASE DeadlineInWave
  <2>1. /\ phase = "wave" /\ phase' = "report" /\ cut' = "deadline"
        /\ raw' = raw /\ attempt' = attempt
    BY <1>9 DEF DeadlineInWave, Break
  <2>2. wave \cup remaining = Open
    BY <2>1 DEF Inv, Partition
  <2>3. QED
    BY <1>9, <2>1, <2>2, BreakNext DEF DeadlineInWave
<1>10. ASSUME NEW s \in Subtasks, Dispatch(s) \/ UserCancel(s) \/ WatchdogCancel(s)
       PROVE  Announced'
  <2>1. UNCHANGED <<plan, phase>> /\ \A t \in Subtasks : attempt'[t] = 0 <=> attempt[t] = 0
    <3>1. TypeOK'
      BY TypeNext
    <3>2. \A t \in Subtasks : attempt'[t] \in Nat /\ attempt[t] \in Nat
      BY <3>1, LimitsAssumption DEF Inv, TypeOK
    <3>3. QED
      BY <1>10, <3>2, DispatchNext
  <2>2. QED
    BY <2>1 DEF plan, Announced, Reported, Before, Open
<1>11. CASE UNCHANGED vars
  BY <1>11 DEF vars, plan, loop, Announced, Reported, Before, Open
<1>12. QED
  BY <1>1, <1>2, <1>3, <1>4, <1>5, <1>6, <1>7, <1>8, <1>9, <1>10, <1>11
  DEF Next, WaveLoop, BreakOff, Done

(* When the run returns, every result has been announced once, that of a   *)
(* skipped subtask twice; the iteration guard never cuts the waves short.  *)
THEOREM EverybodyIsReported == Spec => []Reported
<1>1. Init => Inv /\ Fresh /\ GuardLasts /\ Announced
  <2> SUFFICES ASSUME Init PROVE Fresh /\ GuardLasts /\ Announced
    BY InitInv
  <2>1. GuardLasts
    BY CardinalityNat DEF Init, GuardLasts
  <2>2. Fresh /\ Announced
    BY DEF Init, Fresh, Announced, Reported, Open
  <2>3. QED
    BY <2>1, <2>2
<1>2. Inv /\ Fresh /\ GuardLasts /\ Announced /\ [Next]_vars
          => (Inv /\ Fresh /\ GuardLasts /\ Announced)'
  BY StepInv, FreshNext, GuardNext, AnnouncedNext
<1>3. Announced => Reported
  BY DEF Announced
<1>4. QED
  BY <1>1, <1>2, <1>3, PTL DEF Spec
-----------------------------------------------------------------------------
(***************************************************************************)
(* TaskCoordinator                                                         *)
(***************************************************************************)
(* No agent, or one whose slots are mixed up anyway.                       *)
Written == crossed \cup {NoAgent}

(* A task somebody works on has its record, in both maps and for the same  *)
(* agent, and no unassign_task call is after that record - unless it was   *)
(* assigned across such a call, and then only mixed-up agents are named.   *)
RecordsAgree ==
    \A t \in Tasks : status[t] = "InProgress" =>
        /\ assignedTo[t] # NoAgent
        /\ \/ assignment[t] = assignedTo[t] /\ ~Moving(t)
           \/ assignedTo[t] \in crossed /\ assignment[t] \in Written

(* A task that waits to be assigned has no assignee.                       *)
WaitingIsUnassigned ==
    \A t \in Tasks : status[t] \in {"Absent", "Pending"} => assignedTo[t] = NoAgent

(* One unassign_task call runs per task, or they are after the record of a *)
(* mixed-up agent.                                                         *)
OneCallMoves ==
    \A c, d \in Callers :
        /\ step[c] \in {"lookup", "forget"}
        /\ step[d] \in {"lookup", "forget"}
        /\ job[c] = job[d]
        => c = d \/ assignment[job[c]] \in Written

(* The inductive invariant behind LoadMatchesWork.                         *)
Booked == /\ CoordTypeOK
          /\ RecordsAgree
          /\ WaitingIsUnassigned
          /\ OneCallMoves
          /\ LoadMatchesWork

-----------------------------------------------------------------------------
(* CoordInit establishes the shapes.                                       *)
LEMMA CoordTypeInit == CoordInit => CoordTypeOK
BY DEF CoordInit, CoordTypeOK, TaskStatus, Terminal, Steps

(* Every step keeps the shapes, whoever moves which task.                  *)
LEMMA CoordTypeStep == CoordTypeOK /\ [CoordNext]_coordVars => CoordTypeOK'
<1> SUFFICES ASSUME CoordTypeOK, [CoordNext]_coordVars PROVE CoordTypeOK'
    OBVIOUS
<1>1. CASE UNCHANGED coordVars
      BY <1>1 DEF CoordTypeOK, coordVars
<1>2. ASSUME NEW c \in Callers, FinishRelease(c) PROVE CoordTypeOK'
      BY <1>2 DEF CoordTypeOK, FinishRelease, Return, SatDec, Steps
<1>3. ASSUME NEW c \in Callers, UnassignRelease(c) PROVE CoordTypeOK'
  <2>1. load' \in [Agents -> Nat]
        BY <1>3 DEF CoordTypeOK, UnassignRelease, SatDec
  <2> QED BY <1>3, <2>1 DEF CoordTypeOK, UnassignRelease, Steps
<1>4. ASSUME NEW c \in Callers, UnassignForget(c) PROVE CoordTypeOK'
      BY <1>4 DEF CoordTypeOK, UnassignForget, Return, Steps
<1>5. ASSUME NEW c \in Callers, NEW t \in Tasks, RegisterTask(c, t) PROVE CoordTypeOK'
      BY <1>5 DEF CoordTypeOK, RegisterTask, TaskStatus, call
<1>6. ASSUME NEW c \in Callers, NEW t \in Tasks, NEW a \in Agents, AssignTask(c, t, a)
      PROVE  CoordTypeOK'
  <2>1. crossed' \subseteq Agents
        BY <1>6 DEF CoordTypeOK, AssignTask, MixedUp
  <2> QED BY <1>6, <2>1 DEF CoordTypeOK, AssignTask, TaskStatus, call
<1>7. ASSUME NEW c \in Callers, NEW t \in Tasks, NEW final \in Terminal,
             FinishTask(c, t, final)
      PROVE  CoordTypeOK'
      BY <1>7 DEF CoordTypeOK, FinishTask, Continue, TaskStatus, Steps, call
<1>8. ASSUME NEW c \in Callers, NEW t \in Tasks, UnassignTask(c, t) PROVE CoordTypeOK'
      BY <1>8 DEF CoordTypeOK, UnassignTask, Continue, TaskStatus, Steps
<1> QED BY <1>1, <1>2, <1>3, <1>4, <1>5, <1>6, <1>7, <1>8 DEF CoordNext

(* The coordinator's maps and running calls keep their shapes.             *)
THEOREM CoordinatorTypeCorrect == CoordSpec => []CoordTypeOK
<1>1. CoordInit => CoordTypeOK
      BY CoordTypeInit
<1>2. CoordTypeOK /\ [CoordNext]_coordVars => CoordTypeOK'
      BY CoordTypeStep
<1> QED BY <1>1, <1>2, PTL DEF CoordSpec

(* complete_task, fail_task, assign_task and unassign_task of any number   *)
(* of callers leave a finished task and the record of who did it alone.    *)
THEOREM FinishedStaysFinished == CoordSpec => TerminalIsTerminal
<1>1. ASSUME CoordTypeOK, [CoordNext]_coordVars, NEW t \in Tasks, status[t] \in Terminal
      PROVE  status'[t] = status[t] /\ assignedTo'[t] = assignedTo[t]
  <2>1. CASE UNCHANGED coordVars
        BY <2>1 DEF coordVars
  <2>2. ASSUME NEW c \in Callers,
               FinishRelease(c) \/ UnassignRelease(c) \/ UnassignForget(c)
        PROVE  status' = status /\ assignedTo' = assignedTo
        BY <2>2 DEF FinishRelease, UnassignRelease, UnassignForget
  <2>3. ASSUME NEW c \in Callers, NEW u \in Tasks, RegisterTask(c, u)
        PROVE  status'[t] = status[t] /\ assignedTo'[t] = assignedTo[t]
        BY <1>1, <2>3 DEF RegisterTask, CoordTypeOK, Terminal
  <2>4. ASSUME NEW c \in Callers, NEW u \in Tasks, NEW a \in Agents, AssignTask(c, u, a)
        PROVE  status'[t] = status[t] /\ assignedTo'[t] = assignedTo[t]
        BY <1>1, <2>4 DEF AssignTask, CoordTypeOK, Terminal
  <2>5. ASSUME NEW c \in Callers, NEW u \in Tasks, NEW final \in Terminal,
               FinishTask(c, u, final)
        PROVE  status'[t] = status[t] /\ assignedTo'[t] = assignedTo[t]
        BY <1>1, <2>5 DEF FinishTask, CoordTypeOK
  <2>6. ASSUME NEW c \in Callers, NEW u \in Tasks, UnassignTask(c, u)
        PROVE  status'[t] = status[t] /\ assignedTo'[t] = assignedTo[t]
        BY <1>1, <2>6 DEF UnassignTask, CoordTypeOK, Terminal
  <2> QED BY <1>1, <2>1, <2>2, <2>3, <2>4, <2>5, <2>6 DEF CoordNext
<1>2. CoordTypeOK /\ [CoordNext]_coordVars =>
          [\A t \in Tasks : status[t] \in Terminal =>
               status'[t] = status[t] /\ assignedTo'[t] = assignedTo[t]]_coordVars
      BY <1>1
<1> QED BY <1>2, CoordinatorTypeCorrect, PTL DEF CoordSpec, TerminalIsTerminal

-----------------------------------------------------------------------------
(* One more element of a finite set.                                       *)
LEMMA OneMore ==
    ASSUME NEW S, NEW x, IsFiniteSet(S), x \notin S
    PROVE  Cardinality(S \cup {x}) = Cardinality(S) + 1
BY FS_AddElement

(* One less, of a set that is not empty then.                              *)
LEMMA OneLess ==
    ASSUME NEW S, NEW x, IsFiniteSet(S), x \in S
    PROVE  /\ Cardinality(S) >= 1
           /\ Cardinality(S \ {x}) = Cardinality(S) - 1
<1>1. Cardinality(S \ {x}) = Cardinality(S) - 1
      BY FS_RemoveElement
<1>2. Cardinality(S) \in Nat /\ Cardinality(S \ {x}) \in Nat
      BY FS_RemoveElement, FS_CardinalityType
<1> QED BY <1>1, <1>2

(* What occupies an agent's slots is finite, so it can be counted.         *)
LEMMA SlotsAreCountable ==
    ASSUME NEW a
    PROVE  /\ IsFiniteSet(WorkingOn(a)) /\ IsFiniteSet(Releasing(a))
           /\ Cardinality(WorkingOn(a)) \in Nat
           /\ Cardinality(Releasing(a)) \in Nat
<1>1. WorkingOn(a) \in SUBSET Tasks /\ Releasing(a) \in SUBSET Callers
      BY DEF WorkingOn, Releasing
<1>2. IsFiniteSet(WorkingOn(a)) /\ IsFiniteSet(Releasing(a))
      BY <1>1, FiniteAssumption, FS_Subset
<1> QED BY <1>2, FS_CardinalityType

(* Initially there is no work and no load.                                 *)
LEMMA BookedInit == CoordInit => Booked
<1> SUFFICES ASSUME CoordInit PROVE Booked
    OBVIOUS
<1>1. CoordTypeOK
      BY CoordTypeInit
<1>2. RecordsAgree /\ WaitingIsUnassigned /\ OneCallMoves
      BY DEF CoordInit, RecordsAgree, WaitingIsUnassigned, OneCallMoves
<1>3. ASSUME NEW a \in Agents
      PROVE  load[a] = Cardinality(WorkingOn(a)) + Cardinality(Releasing(a))
  <2>1. WorkingOn(a) = {} /\ Releasing(a) = {}
        BY DEF CoordInit, WorkingOn, Releasing
  <2> QED BY <2>1, FS_EmptySet DEF CoordInit
<1> QED BY <1>1, <1>2, <1>3 DEF Booked, LoadMatchesWork

(* The maps agree on who works on what, but for the mixed-up agents.       *)
LEMMA RecordsStep ==
    ASSUME CoordTypeOK, RecordsAgree, WaitingIsUnassigned, OneCallMoves,
           [CoordNext]_coordVars
    PROVE  RecordsAgree' /\ WaitingIsUnassigned' /\ OneCallMoves'
<1> USE NoTaskAssumption, NoAgentAssumption
<1>1. CASE UNCHANGED coordVars
      BY <1>1 DEF coordVars, RecordsAgree, WaitingIsUnassigned, OneCallMoves, Moving, Written
<1>2. ASSUME NEW c \in Callers, FinishRelease(c)
      PROVE  RecordsAgree' /\ WaitingIsUnassigned' /\ OneCallMoves'
      BY <1>2 DEF FinishRelease, Return, CoordTypeOK, RecordsAgree, WaitingIsUnassigned,
                  OneCallMoves, Moving, Written
<1>3. ASSUME NEW c \in Callers, UnassignRelease(c)
      PROVE  RecordsAgree' /\ WaitingIsUnassigned' /\ OneCallMoves'
      BY <1>3 DEF UnassignRelease, CoordTypeOK, RecordsAgree, WaitingIsUnassigned,
                  OneCallMoves, Moving, Written
<1>4. ASSUME NEW c \in Callers, UnassignForget(c)
      PROVE  RecordsAgree' /\ WaitingIsUnassigned' /\ OneCallMoves'
      BY <1>4 DEF UnassignForget, Return, CoordTypeOK, RecordsAgree, WaitingIsUnassigned,
                  OneCallMoves, Moving, Written
<1>5. ASSUME NEW c \in Callers, NEW t \in Tasks, RegisterTask(c, t)
      PROVE  RecordsAgree' /\ WaitingIsUnassigned' /\ OneCallMoves'
      BY <1>5 DEF RegisterTask, CoordTypeOK, RecordsAgree, WaitingIsUnassigned,
                  OneCallMoves, Moving, Written, call
<1>6. ASSUME NEW c \in Callers, NEW t \in Tasks, NEW a \in Agents, AssignTask(c, t, a)
      PROVE  RecordsAgree' /\ WaitingIsUnassigned' /\ OneCallMoves'
  <2>1. /\ step' = step /\ job' = job
        /\ assignment' = [assignment EXCEPT ![t] = a]
        /\ assignedTo' = [assignedTo EXCEPT ![t] = a]
        /\ status' = [status EXCEPT ![t] = "InProgress"]
        BY <1>6 DEF AssignTask, call
  <2>2. Written \subseteq Written' /\ crossed \subseteq crossed'
        BY <1>6 DEF AssignTask, Written
  <2>3. Moving(t) => a \in crossed' /\ a \in Written'
        BY <1>6 DEF AssignTask, MixedUp, Written
  <2>4. RecordsAgree'
    <3> SUFFICES ASSUME NEW u \in Tasks, status'[u] = "InProgress"
                 PROVE  /\ assignedTo'[u] # NoAgent
                        /\ \/ assignment'[u] = assignedTo'[u] /\ ~Moving(u)'
                           \/ assignedTo'[u] \in crossed' /\ assignment'[u] \in Written'
        BY DEF RecordsAgree
    <3>1. Moving(u)' = Moving(u)
          BY <2>1 DEF Moving
    <3>2. CASE u = t
          BY <2>1, <2>3, <3>1, <3>2 DEF CoordTypeOK
    <3>3. CASE u # t
          BY <2>1, <2>2, <3>1, <3>3 DEF CoordTypeOK, RecordsAgree
    <3> QED BY <3>2, <3>3
  <2>5. WaitingIsUnassigned'
        BY <2>1 DEF WaitingIsUnassigned, CoordTypeOK
  <2>6. OneCallMoves'
        BY <2>1, <2>2, <2>3 DEF OneCallMoves, CoordTypeOK, Moving
  <2> QED BY <2>4, <2>5, <2>6
<1>7. ASSUME NEW c \in Callers, NEW t \in Tasks, NEW final \in Terminal,
             FinishTask(c, t, final)
      PROVE  RecordsAgree' /\ WaitingIsUnassigned' /\ OneCallMoves'
  <2>1. \A d \in Callers : step'[d] \in {"lookup", "forget"} =>
            step'[d] = step[d] /\ job'[d] = job[d]
        BY <1>7 DEF FinishTask, Continue, CoordTypeOK, call
  <2>2. \A u \in Tasks : status'[u] \in {"Absent", "Pending", "InProgress"} =>
            status'[u] = status[u]
        BY <1>7 DEF FinishTask, CoordTypeOK, Terminal
  <2>3. assignedTo' = assignedTo /\ assignment' = assignment
        BY <1>7 DEF FinishTask
  <2>4. crossed' = crossed
        BY <1>7 DEF FinishTask
  <2> QED BY <2>1, <2>2, <2>3, <2>4
      DEF RecordsAgree, WaitingIsUnassigned, OneCallMoves, Moving, Written
<1>8. ASSUME NEW c \in Callers, NEW t \in Tasks, UnassignTask(c, t)
      PROVE  RecordsAgree' /\ WaitingIsUnassigned' /\ OneCallMoves'
      BY <1>8 DEF UnassignTask, Continue, CoordTypeOK, RecordsAgree, WaitingIsUnassigned,
                  OneCallMoves, Moving, Written
<1> QED BY <1>1, <1>2, <1>3, <1>4, <1>5, <1>6, <1>7, <1>8 DEF CoordNext

(* Every step keeps the count: it moves a slot from the work to a call     *)
(* that gives it back, takes one, or gives one back.                       *)
LEMMA LoadStep ==
    ASSUME Booked, [CoordNext]_coordVars, NEW a \in Agents, a \notin crossed'
    PROVE  load'[a] = Cardinality(WorkingOn(a)') + Cardinality(Releasing(a)')
<1> DEFINE Balanced == load'[a] = Cardinality(WorkingOn(a)') + Cardinality(Releasing(a)')
<1>e. a \notin Written /\ a \notin crossed
  <2>1. crossed \subseteq crossed'
        BY DEF CoordNext, coordVars, FinishRelease, UnassignRelease, UnassignForget,
               RegisterTask, AssignTask, FinishTask, UnassignTask
  <2> QED BY <2>1, NoAgentAssumption DEF Written
<1>a. load[a] = Cardinality(WorkingOn(a)) + Cardinality(Releasing(a))
      BY <1>e DEF Booked, LoadMatchesWork
<1>b. /\ IsFiniteSet(WorkingOn(a)) /\ IsFiniteSet(Releasing(a))
      /\ Cardinality(WorkingOn(a)) \in Nat
      /\ Cardinality(Releasing(a)) \in Nat
      BY SlotsAreCountable
<1>c. a # NoAgent
      BY NoAgentAssumption
<1>d. CoordTypeOK
      BY DEF Booked
<1>1. CASE UNCHANGED coordVars
  <2>1. WorkingOn(a)' = WorkingOn(a) /\ Releasing(a)' = Releasing(a) /\ load' = load
        BY <1>1 DEF coordVars, WorkingOn, Releasing
  <2> QED BY <2>1, <1>a
<1>2. ASSUME NEW c \in Callers, FinishRelease(c) PROVE Balanced
  <2>1. WorkingOn(a)' = WorkingOn(a)
        BY <1>2 DEF FinishRelease, WorkingOn
  <2>2. CASE due[c] = a
    <3>1. c \in Releasing(a) /\ Releasing(a)' = Releasing(a) \ {c}
          BY <1>2, <1>d, <2>2 DEF FinishRelease, Return, Releasing, CoordTypeOK
    <3>2. load'[a] = SatDec(load[a])
          BY <1>2, <1>d, <2>2 DEF FinishRelease, CoordTypeOK
    <3> QED BY <2>1, <3>1, <3>2, <1>a, <1>b, OneLess DEF SatDec
  <2>3. CASE due[c] # a
    <3>1. Releasing(a)' = Releasing(a)
          BY <1>2, <1>d, <2>3 DEF FinishRelease, Return, Releasing, CoordTypeOK
    <3>2. load'[a] = load[a]
          BY <1>2, <1>d, <2>3 DEF FinishRelease, CoordTypeOK
    <3> QED BY <2>1, <3>1, <3>2, <1>a
  <2> QED BY <2>2, <2>3
<1>3. ASSUME NEW c \in Callers, UnassignRelease(c) PROVE Balanced
  <2>1. WorkingOn(a)' = WorkingOn(a)
        BY <1>3 DEF UnassignRelease, WorkingOn
  <2>2. CASE assignment[job[c]] = a
    <3>1. c \in Releasing(a) /\ Releasing(a)' = Releasing(a) \ {c}
          BY <1>3, <1>d, <2>2 DEF UnassignRelease, Releasing, CoordTypeOK
    <3>2. load'[a] = SatDec(load[a])
          BY <1>3, <1>c, <1>d, <2>2 DEF UnassignRelease, CoordTypeOK
    <3> QED BY <2>1, <3>1, <3>2, <1>a, <1>b, OneLess DEF SatDec
  <2>3. CASE assignment[job[c]] # a
    <3>1. Releasing(a)' = Releasing(a)
          BY <1>3, <1>d, <2>3 DEF UnassignRelease, Releasing, CoordTypeOK
    <3>2. load'[a] = load[a]
          BY <1>3, <1>d, <2>3 DEF UnassignRelease, CoordTypeOK
    <3> QED BY <2>1, <3>1, <3>2, <1>a
  <2> QED BY <2>2, <2>3
<1>4. ASSUME NEW c \in Callers, UnassignForget(c) PROVE Balanced
  <2>1. WorkingOn(a)' = WorkingOn(a) /\ load' = load
        BY <1>4 DEF UnassignForget, WorkingOn
  <2>2. \A d \in Releasing(a) : step[d] = "lookup" => job[d] # job[c]
        BY <1>4, <1>e DEF UnassignForget, Booked, OneCallMoves, Releasing
  <2>3. Releasing(a)' = Releasing(a)
        BY <1>4, <1>c, <1>d, <2>2 DEF UnassignForget, Return, Releasing, CoordTypeOK
  <2> QED BY <2>1, <2>3, <1>a
<1>5. ASSUME NEW c \in Callers, NEW t \in Tasks, RegisterTask(c, t) PROVE Balanced
  <2>1. WorkingOn(a)' = WorkingOn(a) /\ Releasing(a)' = Releasing(a) /\ load' = load
        BY <1>5, <1>d DEF RegisterTask, WorkingOn, Releasing, CoordTypeOK, call
  <2> QED BY <2>1, <1>a
<1>6. ASSUME NEW c \in Callers, NEW t \in Tasks, NEW b \in Agents, AssignTask(c, t, b)
      PROVE  Balanced
  <2>1. /\ b = a => \A d \in Callers : step[d] = "lookup" => job[d] # t
        /\ assignment[t] = a => \A d \in Callers : step[d] = "lookup" => job[d] # t
        BY <1>6 DEF AssignTask, MixedUp, Moving, Looking
  <2>2. Releasing(a)' = Releasing(a)
        BY <1>6, <1>d, <2>1 DEF AssignTask, Releasing, CoordTypeOK, call
  <2>3. t \notin WorkingOn(a)
        BY <1>6 DEF AssignTask, WorkingOn
  <2>4. CASE b = a
    <3>1. WorkingOn(a)' = WorkingOn(a) \cup {t}
          BY <1>6, <1>d, <2>4 DEF AssignTask, WorkingOn, CoordTypeOK
    <3>2. load'[a] = load[a] + 1
          BY <1>6, <1>d, <2>4 DEF AssignTask, CoordTypeOK
    <3> QED BY <2>2, <2>3, <3>1, <3>2, <1>a, <1>b, OneMore
  <2>5. CASE b # a
    <3>1. WorkingOn(a)' = WorkingOn(a)
          BY <1>6, <1>d, <2>3, <2>5 DEF AssignTask, WorkingOn, CoordTypeOK
    <3>2. load'[a] = load[a]
          BY <1>6, <1>d, <2>5 DEF AssignTask, CoordTypeOK
    <3> QED BY <2>2, <3>1, <3>2, <1>a
  <2> QED BY <2>4, <2>5
<1>7. ASSUME NEW c \in Callers, NEW t \in Tasks, NEW final \in Terminal,
             FinishTask(c, t, final)
      PROVE  Balanced
  <2>1. load' = load /\ c \notin Releasing(a) /\ assignment' = assignment
        BY <1>7 DEF FinishTask, Releasing
  <2>2. CASE t \in WorkingOn(a)
    <3>1. WorkingOn(a)' = WorkingOn(a) \ {t}
          BY <1>7, <1>d, <2>2 DEF FinishTask, WorkingOn, CoordTypeOK, Terminal
    <3>2. Continue(c, "release", t, a)
          BY <1>7, <1>c, <2>2 DEF FinishTask, WorkingOn
    <3>3. Releasing(a)' = Releasing(a) \cup {c}
          BY <3>2, <1>d, <2>1 DEF Continue, Releasing, CoordTypeOK
    <3> QED BY <2>1, <2>2, <3>1, <3>3, <1>a, <1>b, OneMore, OneLess
  <2>3. CASE t \notin WorkingOn(a)
    <3>1. WorkingOn(a)' = WorkingOn(a)
          BY <1>7, <1>d, <2>3 DEF FinishTask, WorkingOn, CoordTypeOK, Terminal
    <3>2. assignedTo[t] # a
      <4>1. status[t] \in {"Pending", "InProgress"}
            BY <1>7, <1>d DEF FinishTask, CoordTypeOK, TaskStatus
      <4> QED BY <4>1, <1>c, <2>3 DEF WorkingOn, Booked, WaitingIsUnassigned
    <3>3. Releasing(a)' = Releasing(a)
          BY <1>7, <1>d, <2>1, <3>2 DEF FinishTask, Continue, Releasing, CoordTypeOK, call
    <3> QED BY <2>1, <3>1, <3>3, <1>a
  <2> QED BY <2>2, <2>3
<1>8. ASSUME NEW c \in Callers, NEW t \in Tasks, UnassignTask(c, t) PROVE Balanced
  <2>1. load' = load /\ c \notin Releasing(a) /\ assignment' = assignment
        BY <1>8 DEF UnassignTask, Releasing
  <2>2. status[t] = "InProgress" /\ (assignment[t] = a <=> assignedTo[t] = a)
        BY <1>8, <1>e DEF UnassignTask, Booked, RecordsAgree
  <2>3. CASE t \in WorkingOn(a)
    <3>1. WorkingOn(a)' = WorkingOn(a) \ {t}
          BY <1>8, <1>c, <1>d, <2>3 DEF UnassignTask, WorkingOn, CoordTypeOK
    <3>2. Releasing(a)' = Releasing(a) \cup {c}
          BY <1>8, <1>d, <2>1, <2>2, <2>3
          DEF UnassignTask, Continue, WorkingOn, Releasing, CoordTypeOK
    <3>3. /\ Cardinality(WorkingOn(a)') = Cardinality(WorkingOn(a)) - 1
          /\ Cardinality(Releasing(a)') = Cardinality(Releasing(a)) + 1
          BY <2>1, <2>3, <3>1, <3>2, <1>b, OneMore, OneLess
    <3> QED BY <2>1, <3>3, <1>a, <1>b
  <2>4. CASE t \notin WorkingOn(a)
    <3>1. WorkingOn(a)' = WorkingOn(a)
          BY <1>8, <1>c, <1>d, <2>4 DEF UnassignTask, WorkingOn, CoordTypeOK
    <3>2. Releasing(a)' = Releasing(a)
          BY <1>8, <1>d, <2>1, <2>2, <2>4
          DEF UnassignTask, Continue, WorkingOn, Releasing, CoordTypeOK
    <3> QED BY <2>1, <3>1, <3>2, <1>a
  <2> QED BY <2>3, <2>4
<1> QED BY <1>1, <1>2, <1>3, <1>4, <1>5, <1>6, <1>7, <1>8 DEF CoordNext

(* Whatever the callers do and in whatever order, the load of an agent is  *)
(* its work unless a task was assigned across a running unassign_task of   *)
(* it, to this agent or away from it: no other decrement is lost, doubled  *)
(* or swallowed by saturating_sub.                                         *)
THEOREM LoadIsWork == CoordSpec => []LoadMatchesWork
<1>1. CoordInit => Booked
      BY BookedInit
<1>2. Booked /\ [CoordNext]_coordVars => Booked'
  <2> SUFFICES ASSUME Booked, [CoordNext]_coordVars PROVE Booked'
      OBVIOUS
  <2>1. CoordTypeOK'
        BY CoordTypeStep DEF Booked
  <2>2. RecordsAgree' /\ WaitingIsUnassigned' /\ OneCallMoves'
        BY RecordsStep DEF Booked
  <2>3. LoadMatchesWork'
        BY LoadStep DEF LoadMatchesWork
  <2> QED BY <2>1, <2>2, <2>3 DEF Booked
<1>3. Booked => LoadMatchesWork
      BY DEF Booked
<1> QED BY <1>1, <1>2, <1>3, PTL DEF CoordSpec
=============================================================================
