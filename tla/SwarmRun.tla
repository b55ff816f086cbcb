------------------------------ MODULE SwarmRun ------------------------------
(***************************************************************************)
(* kod-core/src/swarm_runner.rs: SwarmRunner::run after decomposition.     *)
(* Subtasks are dispatched in dependency waves; the wave loop waits for    *)
(* every dispatch of a wave.  A dispatch is an attempt loop around the     *)
(* engine's turn, retried at most agent_retries times.  Two other tasks    *)
(* meet it in the engine's cancel table: whoever cancels a dispatch (the   *)
(* serve method "cancel", shutdown), and the heartbeat watchdog, which     *)
(* cancels a silent dispatch so that it is retried.                        *)
(*                                                                         *)
(* A subtask is its own name, dispatch and transcript key.                 *)
(***************************************************************************)
EXTENDS Naturals, FiniteSets

CONSTANTS Subtasks,
          Graphs,       \* the dependency maps a plan may come with
          MaxAttempts,  \* 1 + agent_retries
          Deadline,     \* swarm_timeout_secs # 0
          Overnight,    \* the run has an overnight manifest
          MaxCancels    \* bound: cancels requested in a run

ASSUME SubtasksAssumption == IsFiniteSet(Subtasks)
ASSUME GraphsAssumption == \A g \in Graphs : DOMAIN g = Subtasks
ASSUME LimitsAssumption == MaxAttempts \in Nat \ {0} /\ MaxCancels \in Nat

VARIABLES deps,       \* subtask -> the names it depends on
          phase,      \* location of the wave loop
          guard,      \* wave-loop iterations left
          remaining,  \* subtasks not classified yet, or blocked
          wave,       \* `ready': the subtasks of the current wave
          raw,        \* subtask -> its result, once the wave loop has it
          reported,   \* subtask -> how often each terminal event was sent for it
          cut,        \* why the wave loop broke off
          pc,         \* subtask -> location of its attempt loop
          attempt,
          observed,   \* attempt_cancel_epoch
          outcome,    \* of the latest attempt
          cancels,    \* the engine's table: fire epoch and reason
          fired,      \* cancels requested so far
          stop        \* history: what became of the latest user cancel

plan == <<deps, guard, remaining, wave, raw, reported, cut>>
loop == <<pc, attempt, observed, outcome>>
table == <<cancels, fired, stop>>
vars == <<plan, phase, loop, table>>

(* "top"    the wave loop's condition and the checks of its first lines    *)
(* "launch" the wave is classified         "wave" its dispatches run       *)
(* "report" after the loop                 "done" the run has returned     *)
Phases == {"top", "launch", "wave", "report", "done"}

(* "idle"  not dispatched, or dropped with its wave                        *)
(* "setup" registered; the attempt has not read the cancel epoch           *)
(* "running" in the engine's turn                                          *)
(* "clean" the outcome is known; clear_cancel_through is next              *)
(* "judge" the outcome and the cancel reason are looked at                 *)
(* "erase" a watchdog reason was read; clear_cancel_for is next            *)
Locations == {"idle", "setup", "running", "clean", "judge", "erase", "returned"}

(* An absent entry has epoch 0: cancel_epoch_for.                          *)
NoCancel == [epoch |-> 0, reason |-> "none"]
Reasons == {"none", "user", "watchdog"}

completed == {s \in Subtasks : raw[s] = "ok"}
failed == {s \in Subtasks : raw[s] = "err"}

(* AgentCompleted sent c times, AgentFailed f times.                       *)
Told(c, f) == [completed |-> c, failed |-> f]

Init == /\ deps \in Graphs
        /\ phase = "top" /\ guard = Cardinality(Subtasks) + 1
        /\ remaining = Subtasks /\ wave = {}
        /\ raw = [s \in Subtasks |-> "none"]
        /\ reported = [s \in Subtasks |-> Told(0, 0)]
        /\ cut = "none"
        /\ pc = [s \in Subtasks |-> "idle"]
        /\ attempt = [s \in Subtasks |-> 0]
        /\ observed = [s \in Subtasks |-> 0]
        /\ outcome = [s \in Subtasks |-> "none"]
        /\ cancels = [s \in Subtasks |-> NoCancel]
        /\ fired = 0
        /\ stop = [s \in Subtasks |-> "none"]

-----------------------------------------------------------------------------
(* One more AgentFailed for every member of S.                             *)
SendFailed(S) ==
    reported' = [s \in Subtasks |-> IF s \in S THEN [reported[s] EXCEPT !.failed = @ + 1]
                                              ELSE reported[s]]

Break(why) == phase' = "report" /\ cut' = why

LoopOpen == phase = "top" /\ remaining # {} /\ guard > 0

(* The deadline has passed at the top of an iteration: report_run_timeout. *)
DeadlineAtTop ==
    /\ LoopOpen /\ Deadline
    /\ SendFailed(remaining) /\ Break("deadline")
    /\ UNCHANGED <<deps, guard, remaining, wave, raw, loop, table>>

(* The overnight manifest allows no new work.                              *)
HandoffPoint ==
    /\ LoopOpen /\ Overnight
    /\ Break("overnight")
    /\ UNCHANGED <<deps, guard, remaining, wave, raw, reported, loop, table>>

FailedOut == {s \in remaining : deps[s] \cap failed # {}}
Ready == {s \in remaining \ FailedOut : deps[s] \subseteq completed}
Blocked == remaining \ (FailedOut \cup Ready)

(* Mutant: a wave with nothing ready runs what is blocked, although the    *)
(* reason is a failure.                                                    *)
ClassifyBypass ==
    /\ LoopOpen
    /\ guard' = guard - 1
    /\ raw' = [s \in Subtasks |-> IF s \in FailedOut THEN "err" ELSE raw[s]]
    /\ SendFailed(FailedOut)
    /\ \/ Ready = {} /\ wave' = Blocked /\ remaining' = {}
       \/ Ready # {} /\ wave' = Ready /\ remaining' = Blocked
    /\ phase' = "launch"
    /\ UNCHANGED <<deps, cut, loop, table>>

(* Mutant: dependents of a subtask that merely ran are ready.              *)
ClassifyRan ==
    LET ran == {s \in remaining : deps[s] \cap Subtasks \subseteq completed \cup failed} IN
    /\ LoopOpen
    /\ guard' = guard - 1
    /\ \/ ran = {} /\ wave' = remaining /\ remaining' = {}
       \/ ran # {} /\ wave' = ran /\ remaining' = remaining \ ran
    /\ phase' = "launch"
    /\ UNCHANGED <<deps, raw, reported, cut, loop, table>>

(* One iteration: subtasks with a failed dependency fail too, the ready    *)
(* ones form the wave.  Only a wave with neither runs what is blocked.     *)
Classify ==
    /\ LoopOpen
    /\ guard' = guard - 1
    /\ raw' = [s \in Subtasks |-> IF s \in FailedOut THEN "err" ELSE raw[s]]
    /\ SendFailed(FailedOut)
    /\ \/ Ready \cup FailedOut = {} /\ wave' = Blocked /\ remaining' = {}
       \/ Ready \cup FailedOut # {} /\ wave' = Ready /\ remaining' = Blocked
    /\ phase' = "launch"
    /\ UNCHANGED <<deps, cut, loop, table>>

(* The dispatches of the wave are registered and start.                    *)
Launch ==
    /\ phase = "launch"
    /\ pc' = [s \in Subtasks |-> IF s \in wave THEN "setup" ELSE pc[s]]
    /\ attempt' = [s \in Subtasks |-> IF s \in wave THEN 1 ELSE attempt[s]]
    /\ phase' = "wave"
    /\ UNCHANGED <<plan, observed, outcome, table>>

(* The deadline passed after the check at the top.                         *)
DeadlineAtLaunch ==
    /\ phase = "launch" /\ Deadline
    /\ SendFailed(wave) /\ Break("late")
    /\ UNCHANGED <<deps, guard, remaining, wave, raw, loop, table>>

(* Mutant: whoever has not completed is reported, not the unfinished only. *)
DeadlineInWaveForAll ==
    /\ phase = "wave" /\ Deadline
    /\ SendFailed(Subtasks \ completed) /\ Break("deadline")
    /\ pc' = [s \in Subtasks |-> IF s \in wave THEN "idle" ELSE pc[s]]
    /\ UNCHANGED <<deps, guard, remaining, wave, raw, attempt, observed, outcome, table>>

(* The wave is dropped where it stands.                                    *)
DeadlineInWave ==
    /\ phase = "wave" /\ Deadline
    /\ SendFailed(wave \cup remaining) /\ Break("deadline")
    /\ pc' = [s \in Subtasks |-> IF s \in wave THEN "idle" ELSE pc[s]]
    /\ UNCHANGED <<deps, guard, remaining, wave, raw, attempt, observed, outcome, table>>

Result(s) == IF outcome[s] = "ok" THEN "ok" ELSE "err"

(* join_all returns; the results are recorded.                             *)
Join ==
    /\ phase = "wave" /\ \A s \in wave : pc[s] = "returned"
    /\ raw' = [s \in Subtasks |-> IF s \in wave THEN Result(s) ELSE raw[s]]
    /\ wave' = {} /\ phase' = "top"
    /\ UNCHANGED <<deps, guard, remaining, reported, cut, loop, table>>

WavesEnd ==
    /\ phase = "top" /\ ~(remaining # {} /\ guard > 0)
    /\ phase' = "report"
    /\ UNCHANGED <<plan, loop, table>>

(* An event for every result, the ones that were failed out included       *)
(* although they have had theirs; then the run returns.                    *)
Report ==
    /\ phase = "report"
    /\ reported' = [s \in Subtasks |->
           IF s \in completed THEN [reported[s] EXCEPT !.completed = @ + 1]
           ELSE IF s \in failed THEN [reported[s] EXCEPT !.failed = @ + 1]
           ELSE reported[s]]
    /\ phase' = "done"
    /\ UNCHANGED <<deps, guard, remaining, wave, raw, cut, loop, table>>

-----------------------------------------------------------------------------
Goto(s, l) == pc' = [pc EXCEPT ![s] = l]

(* The attempt reads the epoch it will clear through, and starts the turn. *)
Begin(s) ==
    /\ pc[s] = "setup"
    /\ observed' = [observed EXCEPT ![s] = cancels[s].epoch]
    /\ Goto(s, "running")
    /\ UNCHANGED <<plan, phase, attempt, outcome, table>>

(* The turn ends: with a reply, a transient error or timeout, or a         *)
(* permanent error (a cancel seen by the turn is one).                     *)
TurnReturns(s) ==
    /\ pc[s] = "running"
    /\ \E o \in {"ok", "retryable", "permanent"} : outcome' = [outcome EXCEPT ![s] = o]
    /\ Goto(s, "clean")
    /\ UNCHANGED <<plan, phase, attempt, observed, table>>

(* catch_unwind: the dispatch fails, and nothing is cleared.               *)
Panic(s) ==
    /\ pc[s] = "running"
    /\ outcome' = [outcome EXCEPT ![s] = "permanent"]
    /\ Goto(s, "returned")
    /\ UNCHANGED <<plan, phase, attempt, observed, table>>

(* Mutant: the clear is not scoped to the epoch of the attempt.            *)
CleanAll(s) ==
    /\ pc[s] = "clean"
    /\ cancels' = [cancels EXCEPT ![s] = NoCancel]
    /\ Goto(s, "judge")
    /\ UNCHANGED <<plan, phase, attempt, observed, outcome, fired, stop>>

(* clear_cancel_through                                                    *)
Clean(s) ==
    /\ pc[s] = "clean"
    /\ cancels' = [cancels EXCEPT ![s] = IF @.epoch <= observed[s] THEN NoCancel ELSE @]
    /\ Goto(s, "judge")
    /\ UNCHANGED <<plan, phase, attempt, observed, outcome, fired, stop>>

(* Mutant: the retry budget is off by one.                                 *)
FinalLate(s) == outcome[s] = "ok" \/ attempt[s] > MaxAttempts

Final(s) == outcome[s] = "ok" \/ attempt[s] >= MaxAttempts

(* A reply, a spent budget, a user cancel, or an error a retry cannot help *)
(* ends the dispatch.                                                      *)
GiveBack(s) ==
    /\ pc[s] = "judge"
    /\ \/ Final(s)
       \/ cancels[s].reason = "user"
       \/ cancels[s].reason = "none" /\ outcome[s] = "permanent"
    /\ Goto(s, "returned")
    /\ UNCHANGED <<plan, phase, attempt, observed, outcome, table>>

(* Mutant: the retry does not count as an attempt.                         *)
RetryFree(s) ==
    /\ pc[s] = "judge" /\ ~Final(s)
    /\ cancels[s].reason = "none" /\ outcome[s] = "retryable"
    /\ Goto(s, "setup")
    /\ UNCHANGED <<plan, phase, attempt, observed, outcome, table>>

(* A transient error without a cancel: the next attempt.                   *)
Retry(s) ==
    /\ pc[s] = "judge" /\ ~Final(s)
    /\ cancels[s].reason = "none" /\ outcome[s] = "retryable"
    /\ attempt' = [attempt EXCEPT ![s] = @ + 1]
    /\ Goto(s, "setup")
    /\ UNCHANGED <<plan, phase, observed, outcome, table>>

(* The watchdog's cancel is retried whatever the error ...                 *)
ReadWatchdog(s) ==
    /\ pc[s] = "judge" /\ ~Final(s)
    /\ cancels[s].reason = "watchdog"
    /\ Goto(s, "erase")
    /\ UNCHANGED <<plan, phase, attempt, observed, outcome, table>>

(* ... once clear_cancel_for has removed the entry, whatever it is now.    *)
Erase(s) ==
    /\ pc[s] = "erase"
    /\ cancels' = [cancels EXCEPT ![s] = NoCancel]
    /\ attempt' = [attempt EXCEPT ![s] = @ + 1]
    /\ Goto(s, "setup")
    /\ UNCHANGED <<plan, phase, observed, outcome, fired, stop>>

(* request_cancel_with_reason.  (A cancel of a dispatch that has returned  *)
(* leaves an entry nobody reads: its key is not used again.)               *)
Fire(s, reason) ==
    /\ fired < MaxCancels /\ fired' = fired + 1
    /\ cancels' = [cancels EXCEPT ![s] = [epoch |-> @.epoch + 1, reason |-> reason]]
    /\ UNCHANGED <<plan, phase, loop>>

(* The stop is remembered when an attempt is there to be stopped.          *)
UserCancel(s) ==
    /\ phase # "done" /\ pc[s] # "returned" /\ Fire(s, "user")
    /\ stop' = [stop EXCEPT ![s] = CASE pc[s] \in {"running", "clean", "judge"} -> "in_time"
                                     [] pc[s] = "erase" -> "late"
                                     [] OTHER -> @]

(* The watchdog finds the pool agent of a registered dispatch silent.      *)
WatchdogCancel(s) ==
    /\ pc[s] \notin {"idle", "returned"} /\ Fire(s, "watchdog")
    /\ stop' = [stop EXCEPT ![s] = IF @ = "in_time" THEN "overruled" ELSE @]

-----------------------------------------------------------------------------
WaveLoop == Classify \/ Launch \/ Join \/ WavesEnd \/ Report

BreakOff == DeadlineAtTop \/ HandoffPoint \/ DeadlineAtLaunch \/ DeadlineInWave

Dispatch(s) == \/ Begin(s) \/ TurnReturns(s) \/ Panic(s) \/ Clean(s)
               \/ GiveBack(s) \/ Retry(s) \/ ReadWatchdog(s) \/ Erase(s)

Done == phase = "done" /\ UNCHANGED vars

Next == \/ WaveLoop \/ BreakOff
        \/ \E s \in Subtasks : Dispatch(s) \/ UserCancel(s) \/ WatchdogCancel(s)
        \/ Done

Spec == Init /\ [][Next]_vars

(* The tasks of the run are polled, and a turn ends (TurnLoop.TurnEnds).   *)
(* Nothing relies on a deadline.                                           *)
FairSpec == Spec /\ WF_vars(WaveLoop) /\ \A s \in Subtasks : WF_vars(Dispatch(s))

-----------------------------------------------------------------------------
(* Shapes; the retry budget bounds the attempts of a dispatch.             *)
TypeOK == /\ deps \in Graphs
          /\ phase \in Phases /\ guard \in 0 .. Cardinality(Subtasks) + 1
          /\ remaining \subseteq Subtasks /\ wave \subseteq Subtasks
          /\ raw \in [Subtasks -> {"none", "ok", "err"}]
          /\ reported \in [Subtasks -> [completed : Nat, failed : Nat]]
          /\ cut \in {"none", "deadline", "late", "overnight"}
          /\ pc \in [Subtasks -> Locations]
          /\ attempt \in [Subtasks -> 0 .. MaxAttempts]
          /\ observed \in [Subtasks -> Nat]
          /\ outcome \in [Subtasks -> {"none", "ok", "retryable", "permanent"}]
          /\ cancels \in [Subtasks -> [epoch : Nat, reason : Reasons]]
          /\ fired \in 0 .. MaxCancels
          /\ stop \in [Subtasks -> {"none", "in_time", "late", "overruled"}]

(* The subtasks on, or downstream of, a cycle or an unknown name.          *)
Stuck == UNION {U \in SUBSET Subtasks : \A u \in U : ~(deps[u] \subseteq Subtasks \ U)}

(* Dependencies first: a subtask whose dependencies can all be met never   *)
(* runs before each of them has succeeded, whatever fails, is cancelled or *)
(* is stuck elsewhere in the plan.                                         *)
DependenciesFirst ==
    \A s \in Subtasks \ Stuck : attempt[s] > 0 => deps[s] \subseteq completed

(* Failure gate: no subtask, stuck or not, is started after one of its     *)
(* dependencies has failed; the cycle fallback does not go round it.       *)
FailureGate ==
    [][\A s \in Subtasks : attempt[s] = 0 /\ attempt'[s] > 0 => deps[s] \cap failed = {}]_vars

(* Everybody is reported, for what it did and as often as the code says:   *)
(* when the run returns, one event for every dispatch that gave a result,  *)
(* and two failures for a subtask skipped for a failed dependency, which   *)
(* is announced in its wave and again with the results.  There is nothing  *)
(* without a result unless the loop was broken off, so the iteration guard *)
(* never ran out; then the global deadline reports the rest as failed, the *)
(* late check misses the blocked subtasks, and the overnight handoff       *)
(* announces none of them.                                                 *)
Reported ==
    phase = "done" =>
        \A s \in Subtasks :
            /\ raw[s] = "ok" => reported[s] = Told(1, 0)
            /\ raw[s] = "err" => reported[s] = Told(0, IF attempt[s] = 0 THEN 2 ELSE 1)
            /\ raw[s] = "none" => \/ cut = "deadline" /\ reported[s] = Told(0, 1)
                                  \/ cut = "late" /\ reported[s] \in {Told(0, 0), Told(0, 1)}
                                  \/ cut = "overnight" /\ reported[s] = Told(0, 0)

(* A stop in time is final: after a user cancel that reached a running     *)
(* attempt, and that the watchdog did not overwrite, no attempt begins.    *)
StopIsFinal == [][\A s \in Subtasks : stop[s] = "in_time" => attempt'[s] = attempt[s]]_vars

(* The run returns: waves, retries and watchdog restarts come to an end.   *)
RunEnds == <>(phase = "done")
=============================================================================
