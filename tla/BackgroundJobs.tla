--------------------------- MODULE BackgroundJobs ---------------------------
(***************************************************************************)
(* kod-core/src/background.rs, engine/hook.rs and async_delivery.rs: jobs  *)
(* that outlive the tool call that started them, and the way their results *)
(* take back into a conversation.                                          *)
(*                                                                         *)
(* A job is a task of its own: it waits for one of the runner's permits,   *)
(* drains the output of its child, reports a silence, reaps the child, and *)
(* then announces its end twice, in the delivery queue and as a steer of   *)
(* the transcript it belongs to.  A second task watches it for a panic.    *)
(* The rounds of a transcript fold the queue into the steers and take the  *)
(* steers (apply_steers).  Transcripts are cleared, retried and forgotten  *)
(* while their jobs run on.                                                *)
(***************************************************************************)
EXTENDS Naturals, Sequences, FiniteSets

CONSTANTS Transcripts,
          Session,        \* the key of the interactive session, ""
          SessionHolder,  \* "session", its name as a holder of locks
          Cap,            \* max_concurrent
          MaxJobs,        \* bound: job ids
          MaxAttempts     \* bound: attempts of a swarm agent

ASSUME JobsAssumption == /\ Session \in Transcripts
                         /\ SessionHolder \notin Transcripts
                         /\ Cap \in Nat \ {0}
                         /\ MaxJobs \in Nat /\ MaxAttempts \in Nat \ {0}

Jobs == 1..MaxJobs
Keys == Transcripts \cup {SessionHolder}
Kinds == {"shell", "adopted", "review"}
Statuses == {"none", "Running", "Completed", "Failed", "pruned"}

(* job     id -> its entry in the runner's map and where its task is       *)
(* next    next_id                                                         *)
(* line    the tasks that wait for a permit, first come first served       *)
(* queue   the jobs in the delivery queue of every owner                   *)
(* steers  the soft interrupts of every key: <<what, job>>                 *)
(* round   transcript -> where its loop is                                 *)
(* batch   what a round has drained and not yet made a steer               *)
(* att     the attempt a swarm agent is in                                 *)
(* heard   the jobs whose end a turn of the transcript had in its messages *)
(* A queue is emptied as a whole: queues and steers are sets.              *)
VARIABLES job, next, line, queue, steers, round, batch, att, heard

tasks == <<job, next, line>>
mail == <<queue, steers>>
loops == <<round, batch, att, heard>>
vars == <<tasks, mail, loops>>

NoJob == [kind |-> "shell", owner |-> Session, att |-> 1, task |-> "none",
          status |-> "none", silent |-> FALSE]

Init == /\ job = [j \in Jobs |-> NoJob]
        /\ next = 1 /\ line = <<>>
        /\ queue = [k \in Keys |-> {}]
        /\ steers = [k \in Keys |-> {}]
        /\ round = [t \in Transcripts |-> "idle"]
        /\ batch = [t \in Transcripts |-> {}]
        /\ att = [t \in Transcripts |-> 1]
        /\ heard = [t \in Transcripts |-> {}]

(* Mutant: every tool context has the session's holder.                    *)
holderOne(t) == SessionHolder

(* The holder of a tool context: run_tool_calls names it after the         *)
(* transcript, the session's "session".                                    *)
holder(t) == IF t = Session THEN SessionHolder ELSE t

-----------------------------------------------------------------------------
(* An id is allocated.  A job is registered and its task joins the line    *)
(* for a permit; or it is registered as failed, or not at all.             *)
Register(k, t) ==
    /\ next \in Jobs /\ next' = next + 1
    /\ job' = [job EXCEPT ![next] = [NoJob EXCEPT
                 !.kind = k, !.owner = t, !.att = att[t], !.task = "line",
                 !.status = "Running"]]
    /\ line' = Append(line, next)
    /\ UNCHANGED <<mail, loops>>

NotStarted(status) ==
    /\ next \in Jobs /\ next' = next + 1
    /\ job' = [job EXCEPT ![next].status = status]
    /\ UNCHANGED <<line, mail, loops>>

(* execute_command with run_in_background: without a spool there is no job *)
(* and without a child a failed one; the command then runs in the call.    *)
SpawnHook(t) ==
    /\ round[t] = "round"
    /\ Register("shell", t) \/ NotStarted("Failed") \/ NotStarted("none")

(* A command that outlived its deadline is handed over; without a spool it *)
(* is dropped, and the caller is told of a job all the same.               *)
AdoptHook(t) ==
    /\ round[t] = "round"
    /\ Register("adopted", t) \/ NotStarted("none")

(* /review: spawn_background_review.                                       *)
SpawnReview == Register("review", Session) \/ NotStarted("Failed")

-----------------------------------------------------------------------------
Holding == {j \in Jobs : job[j].task \in {"drain", "wait", "enqueue",
                                          "interrupt"}}
Becomes(j, task) == job' = [job EXCEPT ![j].task = task]

(* Mutant: the job's task does not take a permit.                          *)
AcquirePermitFree(j) ==
    /\ line # <<>> /\ j = line[1]
    /\ line' = Tail(line)
    /\ Becomes(j, "drain")
    /\ UNCHANGED <<next, mail, loops>>

(* tokio's semaphore serves its waiters in order.                          *)
AcquirePermit(j) ==
    /\ line # <<>> /\ j = line[1]
    /\ Cardinality(Holding) < Cap
    /\ line' = Tail(line)
    /\ Becomes(j, "drain")
    /\ UNCHANGED <<next, mail, loops>>

(* The drain loop of a shell job: a read that times out is reported once   *)
(* until there is output again.                                            *)
Stall(j) ==
    /\ job[j].task = "drain" /\ job[j].kind = "shell"
    /\ ~job[j].silent
    /\ job' = [job EXCEPT ![j].silent = TRUE]
    /\ steers' = [steers EXCEPT ![holder(job[j].owner)] =
                    @ \cup {<<"stall", j>>}]
    /\ UNCHANGED <<next, line, queue, loops>>

Output(j) ==
    /\ job[j].task = "drain" /\ job[j].silent
    /\ job' = [job EXCEPT ![j].silent = FALSE]
    /\ UNCHANGED <<next, line, mail, loops>>

(* The end of the output, a read that fails, or a spool that does.  From   *)
(* here on the tasks of the two hooks are alike.                           *)
Drained(j) ==
    /\ job[j].task = "drain" /\ job[j].kind # "review"
    /\ job' = [job EXCEPT ![j].task = "wait", ![j].kind = "shell",
                          ![j].silent = FALSE]
    /\ UNCHANGED <<next, line, mail, loops>>

(* The child is reaped, killed if it has not exited within a minute; the   *)
(* job is complete whatever its exit status.                               *)
Reap(j) ==
    /\ job[j].task = "wait"
    /\ job' = [job EXCEPT ![j].task = "enqueue", ![j].status = "Completed"]
    /\ UNCHANGED <<next, line, mail, loops>>

(* enqueue, under the epoch of the moment: nothing advances it.            *)
Enqueue(j) ==
    /\ job[j].task = "enqueue"
    /\ Becomes(j, "interrupt")
    /\ queue' = [queue EXCEPT ![holder(job[j].owner)] = @ \cup {j}]
    /\ UNCHANGED <<next, line, steers, loops>>

(* push_background_interrupt; the task ends and its permit is returned.    *)
Interrupt(j) ==
    /\ job[j].task = "interrupt"
    /\ Becomes(j, "over")
    /\ steers' = [steers EXCEPT ![holder(job[j].owner)] =
                    @ \cup {<<"finished", j>>}]
    /\ UNCHANGED <<next, line, queue, loops>>

(* A review's reply, or the failure of its request: /jobs shows it, no     *)
(* transcript is told.                                                     *)
ReviewEnds(j) ==
    /\ job[j].task = "drain" /\ job[j].kind = "review"
    /\ \E s \in {"Completed", "Failed"} :
         job' = [job EXCEPT ![j].task = "over", ![j].status = s]
    /\ UNCHANGED <<next, line, mail, loops>>

(* A panic unwinds the task and returns its permit; spawn_guarded's        *)
(* watcher sees it later.                                                  *)
Panic(j) ==
    /\ j \in Holding
    /\ job' = [job EXCEPT ![j].task = "panicked", ![j].silent = FALSE]
    /\ UNCHANGED <<next, line, mail, loops>>

(* Mutant: the watcher only looks for a cancelled task.                    *)
WatchBlind(j) ==
    /\ job[j].task = "panicked"
    /\ Becomes(j, "dead")
    /\ UNCHANGED <<next, line, mail, loops>>

(* Mutant: fail instead of fail_if_running.                                *)
WatchFail(j) ==
    /\ job[j].task = "panicked"
    /\ job' = [job EXCEPT ![j].task = "dead", ![j].status = "Failed"]
    /\ UNCHANGED <<next, line, mail, loops>>

Watch(j) ==
    /\ job[j].task = "panicked"
    /\ job' = [job EXCEPT ![j].task = "dead",
                          ![j].status = IF @ = "Running" THEN "Failed"
                                        ELSE @]
    /\ UNCHANGED <<next, line, mail, loops>>

(* /jobs: prune_old forgets what ended a while ago.                        *)
PruneOld(j) ==
    /\ job[j].status \in {"Completed", "Failed"}
    /\ job[j].task \in {"none", "over", "dead"}
    /\ job' = [job EXCEPT ![j].status = "pruned"]
    /\ UNCHANGED <<next, line, mail, loops>>

-----------------------------------------------------------------------------
BeginTurn(t) ==
    /\ round[t] = "idle"
    /\ round' = [round EXCEPT ![t] = "round"]
    /\ UNCHANGED <<tasks, mail, batch, att, heard>>

EndTurn(t) ==
    /\ t = Session /\ round[t] = "round"
    /\ round' = [round EXCEPT ![t] = "idle"]
    /\ UNCHANGED <<tasks, mail, batch, att, heard>>

(* apply_steers at a round boundary: drain the queue under its lock ...    *)
Drain(t) ==
    /\ round[t] = "round"
    /\ round' = [round EXCEPT ![t] = "apply"]
    /\ batch' = [batch EXCEPT ![t] = queue[t]]
    /\ queue' = [queue EXCEPT ![t] = {}]
    /\ UNCHANGED <<tasks, steers, att, heard>>

(* ... then, the lock released, push the batch and take every steer.       *)
TakeSteers(t) ==
    /\ round[t] = "apply"
    /\ round' = [round EXCEPT ![t] = "round"]
    /\ heard' = [heard EXCEPT ![t] =
                   @ \cup batch[t]
                     \cup {j \in Jobs : <<"finished", j>> \in steers[t]}]
    /\ steers' = [steers EXCEPT ![t] = {}]
    /\ batch' = [batch EXCEPT ![t] = {}]
    /\ UNCHANGED <<tasks, queue, att>>

(* /clear and /handoff, at any time: clear_history_for.                    *)
Clear ==
    /\ queue' = [queue EXCEPT ![Session] = {}]
    /\ UNCHANGED <<tasks, steers, loops>>

(* The attempt of a swarm agent ends, its round dropped where it is:       *)
(* forget_transcript, and the next attempt under the same key, or none.    *)
EndAttempt(t) ==
    /\ t # Session /\ round[t] \in {"round", "apply"}
    /\ \E r \in {"round", "over"} :
         /\ r = "round" => att[t] < MaxAttempts
         /\ round' = [round EXCEPT ![t] = r]
         /\ att' = [att EXCEPT ![t] = IF r = "round" THEN @ + 1 ELSE @]
    /\ steers' = [steers EXCEPT ![t] = {}]
    /\ batch' = [batch EXCEPT ![t] = {}]
    /\ heard' = [heard EXCEPT ![t] = {}]
    /\ UNCHANGED <<tasks, queue>>

-----------------------------------------------------------------------------
JobStep(j) == \/ AcquirePermit(j) \/ Drained(j) \/ Reap(j) \/ Enqueue(j)
              \/ Interrupt(j) \/ ReviewEnds(j) \/ Watch(j)

Next == \/ \E t \in Transcripts : \/ SpawnHook(t) \/ AdoptHook(t)
                                  \/ BeginTurn(t) \/ EndTurn(t)
                                  \/ Drain(t) \/ TakeSteers(t)
                                  \/ EndAttempt(t)
        \/ SpawnReview \/ Clear
        \/ \E j \in Jobs : \/ JobStep(j) \/ Stall(j) \/ Output(j)
                           \/ Panic(j) \/ PruneOld(j)

Spec == Init /\ [][Next]_vars

(* The runtime runs every task that can run, a command ends its output     *)
(* some day, and the rounds of a transcript go on: the session has a turn  *)
(* with a round again and again, a running attempt has another round.      *)
FairSpec == /\ Spec
            /\ \A j \in Jobs : WF_vars(JobStep(j))
            /\ \A t \in Transcripts : /\ WF_vars(BeginTurn(t))
                                      /\ SF_vars(Drain(t))
                                      /\ WF_vars(TakeSteers(t))

-----------------------------------------------------------------------------
(* Types; the tasks with a permit are within the cap; a task is in the     *)
(* line exactly once while it waits; and only a running job is worked on.  *)
TypeOK ==
    /\ \A j \in Jobs :
         /\ job[j].kind \in Kinds /\ job[j].owner \in Transcripts
         /\ job[j].status \in Statuses
         /\ job[j].task \in {"line", "drain", "wait"} =>
              job[j].status = "Running"
         /\ job[j].task = "line" <=> \E k \in DOMAIN line : line[k] = j
         /\ j >= next => job[j] = NoJob
    /\ Cardinality(Holding) <= Cap
    /\ \A k, l \in DOMAIN line : line[k] = line[l] => k = l
    /\ \A k \in Keys : /\ queue[k] \subseteq Jobs
                        /\ steers[k] \subseteq {"stall", "finished"} \X Jobs
    /\ \A t \in Transcripts : att[t] \in 1..MaxAttempts

(* What /jobs says of a job that has ended never changes, whichever of its *)
(* task and its watcher comes last, until the entry is pruned.             *)
StatusIsFinal ==
    [][\A j \in Jobs : job[j].status \in {"Completed", "Failed"} =>
                         job'[j].status \in {job[j].status, "pruned"}]_vars

(* No job stays Running: not behind the cap, and not after a panic.        *)
JobSettles ==
    \A j \in Jobs : job[j].status = "Running" ~> job[j].status # "Running"

Heard(j) == j \in heard[job[j].owner]
Announced(j) == job[j].task = "over" /\ job[j].kind # "review"

(* The end of an agent's job reaches the attempt that started it, in a     *)
(* batch or as a steer, unless that attempt ends first: whatever the round *)
(* has drained, taken or lost in between.                                  *)
AgentHears ==
    \A j \in Jobs :
        Announced(j) /\ job[j].owner # Session
          ~> \/ Heard(j)
             \/ att[job[j].owner] # job[j].att
             \/ round[job[j].owner] = "over"
=============================================================================
