------------------------ MODULE BackgroundJobsProofs ------------------------
(***************************************************************************)
(* Proofs about the background jobs, for any number of jobs, transcripts,  *)
(* permits and attempts: the tasks at work never exceed the permits, every *)
(* job that waits is in the line exactly once, and what /jobs says of a    *)
(* job that has ended never changes.                                       *)
(***************************************************************************)
EXTENDS BackgroundJobs, FiniteSetTheorems, TLAPS

-----------------------------------------------------------------------------
AtWork == {"drain", "wait", "enqueue", "interrupt"}
TaskStates == AtWork \cup {"none", "line", "over", "panicked", "dead"}
Entries == [kind : Kinds, owner : Transcripts, att : Nat, task : TaskStates,
            status : Statuses, silent : BOOLEAN]
Steers == {"stall", "finished"} \X Jobs

(* What the steps of the jobs keep: entries, the line and the counter.     *)
JobShapes == /\ job \in [Jobs -> Entries]
             /\ next \in Nat
             /\ line \in Seq(Jobs)

(* What the rounds keep: queues, steers, batches and attempts.             *)
MailShapes == /\ queue \in [Keys -> SUBSET Jobs]
              /\ steers \in [Keys -> SUBSET Steers]
              /\ att \in [Transcripts -> 1..MaxAttempts]

(* A job that waits or works is Running; one that waits is in the line,    *)
(* once, and nobody else is; an id that was not given out has no job.      *)
Busy(j) == job[j].task \in {"line", "drain", "wait"} => job[j].status = "Running"
InLine(j) == job[j].task = "line" <=> \E k \in DOMAIN line : line[k] = j
Given(j) == j >= next => job[j] = NoJob
OnceInLine == \A k, l \in DOMAIN line : line[k] = line[l] => k = l

JobsInv == /\ JobShapes
           /\ \A j \in Jobs : Busy(j) /\ InLine(j) /\ Given(j)
           /\ OnceInLine
           /\ Cardinality(Holding) <= Cap

Inv == JobsInv /\ MailShapes

(* The job ids are finitely many, and so are the permits in use.           *)
LEMMA JobsFinite ==
    /\ MaxJobs \in Nat /\ Cap \in Nat /\ Cap > 0
    /\ IsFiniteSet(Jobs) /\ IsFiniteSet(Holding) /\ Cardinality(Holding) \in Nat
<1>1. MaxJobs \in Nat /\ Cap \in Nat /\ Cap > 0
      BY JobsAssumption
<1>2. IsFiniteSet(Jobs)
      BY <1>1, FS_Interval DEF Jobs
<1>3. IsFiniteSet(Holding)
      BY <1>2, FS_Subset DEF Holding
<1> QED BY <1>1, <1>2, <1>3, FS_CardinalityType

(* An id that was not given out has an entry like any other.               *)
LEMMA NoJobIsEntry ==
    /\ NoJob \in Entries /\ NoJob.task = "none" /\ NoJob.status = "none"
BY JobsAssumption DEF NoJob, Entries, Kinds, TaskStates, AtWork, Statuses

(* Before the first job the line is empty and every permit is free.        *)
LEMMA JobsInit == Init => Inv
<1> SUFFICES ASSUME Init PROVE Inv
    OBVIOUS
<1>1. JobShapes
      BY NoJobIsEntry DEF Init, JobShapes
<1>2. ASSUME NEW j \in Jobs PROVE Busy(j) /\ InLine(j) /\ Given(j)
      BY NoJobIsEntry DEF Init, Busy, InLine, Given
<1>3. OnceInLine
      BY DEF Init, OnceInLine
<1>4. Holding = {}
      BY NoJobIsEntry DEF Init, Holding
<1>5. Cardinality(Holding) <= Cap
      BY <1>4, FS_EmptySet, JobsFinite
<1>6. MailShapes
      BY JobsAssumption DEF Init, MailShapes
<1> QED BY <1>1, <1>2, <1>3, <1>5, <1>6 DEF Inv, JobsInv

(* A task goes on, gives its permit back or dies: it was not in the line   *)
(* and does not join it, and takes no permit it had not.                   *)
LEMMA TaskMoves ==
    ASSUME JobsInv, NEW j \in Jobs, NEW x \in Entries,
           job' = [job EXCEPT ![j] = x], next' = next, line' = line,
           ~(j >= next), job[j].task # "line", x.task # "line",
           x.task \in AtWork => job[j].task \in AtWork,
           x.task \in {"drain", "wait"} => x.status = "Running"
    PROVE  JobsInv'
<1>1. JobShapes' /\ job'[j] = x /\ \A i \in Jobs \ {j} : job'[i] = job[i]
      BY DEF JobsInv, JobShapes
<1>2. ASSUME NEW i \in Jobs PROVE Busy(i)' /\ InLine(i)' /\ Given(i)'
      BY <1>1 DEF JobsInv, Busy, InLine, Given
<1>3. OnceInLine'
      BY DEF JobsInv, OnceInLine
<1>4. Holding' \subseteq Holding
      BY <1>1 DEF Holding, AtWork
<1>5. Cardinality(Holding)' <= Cap
  <2>1. Cardinality(Holding') <= Cardinality(Holding) /\ Cardinality(Holding') \in Nat
        BY <1>4, JobsFinite, FS_Subset, FS_CardinalityType
  <2> QED BY <2>1, JobsFinite DEF JobsInv
<1> QED BY <1>1, <1>2, <1>3, <1>5 DEF JobsInv

(* A new id: registered with its task in the line, or without a task.      *)
LEMMA NewId ==
    ASSUME JobsInv, next \in Jobs, NEW x \in Entries,
           job' = [job EXCEPT ![next] = x], next' = next + 1,
           \/ x.task = "line" /\ x.status = "Running" /\ line' = Append(line, next)
           \/ x.task = "none" /\ line' = line
    PROVE  JobsInv'
<1>1. next \in Nat /\ line \in Seq(Jobs) /\ job[next].task = "none"
      BY NoJobIsEntry DEF JobsInv, JobShapes, Given
<1>2. \A k \in DOMAIN line : line[k] # next
      BY <1>1 DEF JobsInv, InLine
<1>3. JobShapes' /\ job'[next] = x /\ \A i \in Jobs \ {next} : job'[i] = job[i]
      BY <1>1 DEF JobsInv, JobShapes
<1>4. ASSUME NEW i \in Jobs PROVE Busy(i)' /\ Given(i)'
  <2>1. i \in Nat /\ (i >= next + 1 => i >= next /\ i # next)
        BY <1>1 DEF Jobs
  <2> QED BY <1>3, <2>1 DEF JobsInv, Busy, Given
<1>5. (\A i \in Jobs : InLine(i)') /\ OnceInLine'
  <2>1. CASE x.task = "none" /\ line' = line
        BY <1>2, <1>3, <2>1 DEF JobsInv, InLine, OnceInLine
  <2>2. CASE x.task = "line" /\ line' = Append(line, next)
    <3>1. /\ Len(line) \in Nat /\ DOMAIN line = 1..Len(line)
          /\ DOMAIN line' = 1..(Len(line) + 1) /\ line'[Len(line) + 1] = next
          /\ \A k \in DOMAIN line : k \in DOMAIN line' /\ line'[k] = line[k]
          BY <1>1, <2>2
    <3>2. \A k \in DOMAIN line' : k \in DOMAIN line \/ k = Len(line) + 1
          BY <3>1
    <3>3. OnceInLine'
          BY <1>2, <3>1, <3>2 DEF JobsInv, OnceInLine
    <3>4. ASSUME NEW i \in Jobs PROVE InLine(i)'
      <4>1. CASE i = next
            BY <1>3, <2>2, <3>1, <4>1 DEF InLine
      <4>2. CASE i # next
            BY <1>3, <3>1, <3>2, <4>2 DEF JobsInv, InLine
      <4> QED BY <4>1, <4>2
    <3> QED BY <3>3, <3>4
  <2> QED BY <2>1, <2>2
<1>6. Holding' = Holding
      BY <1>1, <1>3 DEF Holding
<1> QED BY <1>3, <1>4, <1>5, <1>6 DEF JobsInv

(* The head of the line takes a permit, if there is one.                   *)
LEMMA PermitStep ==
    ASSUME JobsInv, NEW j \in Jobs, AcquirePermit(j)
    PROVE  JobsInv'
<1> DEFINE x == [job[j] EXCEPT !.task = "drain"]
<1>1. /\ line # <<>> /\ j = line[1] /\ line' = Tail(line) /\ next' = next
      /\ Cardinality(Holding) < Cap /\ line \in Seq(Jobs) /\ job[j] \in Entries
      BY DEF AcquirePermit, JobsInv, JobShapes
<1>2. /\ Len(line) \in Nat \ {0} /\ DOMAIN line = 1..Len(line)
      /\ line' \in Seq(Jobs) /\ DOMAIN line' = 1..(Len(line) - 1)
      /\ \A k \in DOMAIN line' : k + 1 \in DOMAIN line /\ line'[k] = line[k + 1] /\ k + 1 # 1
      BY <1>1
<1>3. job[j].task = "line" /\ job[j].status = "Running"
      BY <1>1, <1>2 DEF JobsInv, InLine, Busy
<1>4. x \in Entries /\ x.task = "drain" /\ x.status = "Running"
      BY <1>1, <1>3 DEF Entries, TaskStates, AtWork
<1>5. job' = [job EXCEPT ![j] = x]
      BY DEF AcquirePermit, Becomes, JobsInv, JobShapes
<1> HIDE DEF x
<1>6. JobShapes' /\ job'[j] = x /\ \A i \in Jobs \ {j} : job'[i] = job[i]
      BY <1>1, <1>2, <1>4, <1>5 DEF JobsInv, JobShapes
<1>7. ASSUME NEW i \in Jobs PROVE Busy(i)' /\ Given(i)'
      BY <1>1, <1>3, <1>4, <1>6, NoJobIsEntry DEF JobsInv, Busy, Given
<1>8. ASSUME NEW k \in DOMAIN line', NEW l \in DOMAIN line', line'[k] = line'[l] PROVE k = l
  <2>1. k + 1 = l + 1 /\ k \in Nat /\ l \in Nat
        BY <1>2, <1>8 DEF JobsInv, OnceInLine
  <2> QED BY <2>1
<1>9. ASSUME NEW i \in Jobs PROVE InLine(i)'
  <2>1. CASE i = j
    <3>1. \A k \in DOMAIN line' : line'[k] # j
          BY <1>1, <1>2 DEF JobsInv, OnceInLine
    <3> QED BY <1>4, <1>6, <2>1, <3>1 DEF InLine
  <2>2. CASE i # j
    <3>1. ASSUME NEW k \in DOMAIN line, line[k] = i
          PROVE  \E l \in DOMAIN line' : line'[l] = i
      <4>1. k # 1 /\ k \in Nat
            BY <1>1, <1>2, <2>2, <3>1
      <4>2. k - 1 \in DOMAIN line' /\ (k - 1) + 1 = k
            BY <1>2, <4>1
      <4> QED BY <1>2, <3>1, <4>2
    <3>2. ASSUME NEW l \in DOMAIN line', line'[l] = i
          PROVE  \E k \in DOMAIN line : line[k] = i
          BY <1>2, <3>2
    <3> QED BY <1>6, <2>2, <3>1, <3>2 DEF JobsInv, InLine
  <2> QED BY <2>1, <2>2
<1>10. Cardinality(Holding)' <= Cap
  <2>1. Holding' = Holding \cup {j} /\ j \notin Holding
        BY <1>3, <1>4, <1>6 DEF Holding
  <2>2. Cardinality(Holding') = Cardinality(Holding) + 1
        BY <2>1, JobsFinite, FS_AddElement
  <2> QED BY <1>1, <2>2, JobsFinite
<1> QED BY <1>6, <1>7, <1>8, <1>9, <1>10 DEF JobsInv, OnceInLine

(* The hooks and /review give out an id, whatever becomes of it.           *)
LEMMA RegisterStep ==
    ASSUME Inv, NEW k \in Kinds, NEW t \in Transcripts, Register(k, t)
    PROVE  Inv'
<1> DEFINE x == [NoJob EXCEPT !.kind = k, !.owner = t, !.att = att[t], !.task = "line",
                              !.status = "Running"]
<1>1. att[t] \in Nat
      BY DEF Inv, MailShapes
<1>2. x \in Entries /\ x.task = "line" /\ x.status = "Running"
      BY <1>1, NoJobIsEntry DEF Entries, TaskStates, Statuses
<1>3. /\ next \in Jobs /\ next' = next + 1 /\ line' = Append(line, next)
      /\ job' = [job EXCEPT ![next] = x] /\ UNCHANGED <<queue, steers, att>>
      BY DEF Register, mail, loops
<1> HIDE DEF x
<1>4. JobsInv'
      BY <1>2, <1>3, NewId DEF Inv
<1> QED BY <1>3, <1>4 DEF Inv, MailShapes

(* An id without a task: the spawn failed, or there is no entry at all.    *)
LEMMA NotStartedStep ==
    ASSUME Inv, NEW s \in {"Failed", "none"}, NotStarted(s)
    PROVE  Inv'
<1> DEFINE x == [job[next] EXCEPT !.status = s]
<1>1. /\ next \in Jobs /\ next' = next + 1 /\ line' = line
      /\ UNCHANGED <<queue, steers, att>>
      BY DEF NotStarted, mail, loops
<1>2. job[next] \in Entries /\ job[next].task = "none"
      BY <1>1, NoJobIsEntry DEF Inv, JobsInv, JobShapes, Given
<1>3. x \in Entries /\ x.task = "none"
      BY <1>2 DEF Entries, Statuses
<1>4. job' = [job EXCEPT ![next] = x]
      BY DEF NotStarted, Inv, JobsInv, JobShapes
<1> HIDE DEF x
<1>5. JobsInv'
      BY <1>1, <1>3, <1>4, NewId DEF Inv
<1> QED BY <1>1, <1>5 DEF Inv, MailShapes

(* What a job's own steps make of its entry.                               *)
LEMMA OwnStep ==
    ASSUME Inv, NEW j \in Jobs,
           \/ Stall(j) \/ Output(j) \/ Drained(j) \/ Reap(j) \/ Enqueue(j) \/ Interrupt(j)
           \/ ReviewEnds(j) \/ Panic(j) \/ Watch(j) \/ PruneOld(j)
    PROVE  JobsInv'
<1> DEFINE e == job[j]
<1>1. /\ e \in Entries /\ next' = next /\ line' = line /\ job = [i \in Jobs |-> job[i]]
      BY DEF Stall, Output, Drained, Reap, Enqueue, Interrupt, ReviewEnds, Panic, Watch,
             PruneOld, Inv, JobsInv, JobShapes
<1>2. /\ e.task \in {"drain", "wait"} => e.status = "Running"
      /\ j >= next => e.task = "none" /\ e.status = "none"
      BY NoJobIsEntry DEF Inv, JobsInv, Busy, Given
<1>3. ASSUME NEW x \in Entries, job' = [job EXCEPT ![j] = x], e.task # "line", x.task # "line",
             e.task # "none" \/ e.status # "none", x.task \in AtWork => e.task \in AtWork,
             x.task \in {"drain", "wait"} => x.status = "Running"
      PROVE  JobsInv'
      BY <1>1, <1>2, <1>3, TaskMoves DEF Inv
<1>4. CASE Stall(j) \/ Output(j)
  <2>1. PICK b \in BOOLEAN : job' = [job EXCEPT ![j] = [e EXCEPT !.silent = b]]
        BY <1>1, <1>4 DEF Stall, Output
  <2>2. e.task = "drain"
        BY <1>4 DEF Stall, Output
  <2> DEFINE x == [e EXCEPT !.silent = b]
  <2>3. x \in Entries /\ x.task = e.task /\ x.status = e.status
        BY <1>1 DEF Entries
  <2> HIDE DEF x
  <2>4. job' = [job EXCEPT ![j] = x]
        BY <2>1 DEF x
  <2> QED BY <1>2, <1>3, <2>2, <2>3, <2>4 DEF AtWork
<1>5. CASE Drained(j)
  <2> DEFINE x == [e EXCEPT !.task = "wait", !.kind = "shell", !.silent = FALSE]
  <2>1. job' = [job EXCEPT ![j] = x] /\ e.task = "drain"
        BY <1>1, <1>5 DEF Drained
  <2>2. x \in Entries /\ x.task = "wait" /\ x.status = e.status
        BY <1>1 DEF Entries, TaskStates, AtWork, Kinds
  <2> HIDE DEF x
  <2> QED BY <1>2, <1>3, <2>1, <2>2 DEF AtWork
<1>6. CASE Reap(j)
  <2> DEFINE x == [e EXCEPT !.task = "enqueue", !.status = "Completed"]
  <2>1. job' = [job EXCEPT ![j] = x] /\ e.task = "wait"
        BY <1>1, <1>6 DEF Reap
  <2>2. x \in Entries /\ x.task = "enqueue"
        BY <1>1 DEF Entries, TaskStates, AtWork, Statuses
  <2> HIDE DEF x
  <2> QED BY <1>3, <2>1, <2>2 DEF AtWork
<1>7. CASE Enqueue(j) \/ Interrupt(j)
  <2>1. PICK s \in {"interrupt", "over"} : job' = [job EXCEPT ![j] = [e EXCEPT !.task = s]]
        BY <1>1, <1>7 DEF Enqueue, Interrupt, Becomes
  <2>2. e.task \in {"enqueue", "interrupt"}
        BY <1>7 DEF Enqueue, Interrupt
  <2> DEFINE x == [e EXCEPT !.task = s]
  <2>3. x \in Entries /\ x.task = s
        BY <1>1 DEF Entries, TaskStates, AtWork
  <2>4. job' = [job EXCEPT ![j] = x]
        BY <2>1
  <2> HIDE DEF x
  <2> QED BY <1>3, <2>2, <2>3, <2>4 DEF AtWork
<1>8. CASE ReviewEnds(j)
  <2>1. PICK s \in {"Completed", "Failed"} :
            job' = [job EXCEPT ![j] = [e EXCEPT !.task = "over", !.status = s]]
        BY <1>1, <1>8 DEF ReviewEnds
  <2>2. e.task = "drain"
        BY <1>8 DEF ReviewEnds
  <2> DEFINE x == [e EXCEPT !.task = "over", !.status = s]
  <2>3. x \in Entries /\ x.task = "over"
        BY <1>1 DEF Entries, TaskStates, Statuses
  <2>4. job' = [job EXCEPT ![j] = x]
        BY <2>1
  <2> HIDE DEF x
  <2> QED BY <1>3, <2>2, <2>3, <2>4 DEF AtWork
<1>9. CASE Panic(j)
  <2> DEFINE x == [e EXCEPT !.task = "panicked", !.silent = FALSE]
  <2>1. job' = [job EXCEPT ![j] = x] /\ e.task \in AtWork
        BY <1>1, <1>9 DEF Panic, Holding, AtWork
  <2>2. x \in Entries /\ x.task = "panicked"
        BY <1>1 DEF Entries, TaskStates
  <2> HIDE DEF x
  <2> QED BY <1>3, <2>1, <2>2 DEF AtWork
<1>10. CASE Watch(j)
  <2> DEFINE s == IF e.status = "Running" THEN "Failed" ELSE e.status
             x == [e EXCEPT !.task = "dead", !.status = s]
  <2>1. job' = [job EXCEPT ![j] = x] /\ e.task = "panicked"
        BY <1>1, <1>10 DEF Watch
  <2>2. s \in Statuses
        BY <1>1 DEF Entries, Statuses
  <2> HIDE DEF s
  <2>3. x \in Entries /\ x.task = "dead"
        BY <1>1, <2>2 DEF Entries, TaskStates
  <2> HIDE DEF x
  <2> QED BY <1>3, <2>1, <2>3 DEF AtWork
<1>11. CASE PruneOld(j)
  <2> DEFINE x == [e EXCEPT !.status = "pruned"]
  <2>1. /\ job' = [job EXCEPT ![j] = x] /\ e.task \in {"none", "over", "dead"}
        /\ e.status # "none"
        BY <1>1, <1>11 DEF PruneOld
  <2>2. x \in Entries /\ x.task = e.task
        BY <1>1 DEF Entries, Statuses
  <2> HIDE DEF x
  <2> QED BY <1>3, <2>1, <2>2 DEF AtWork
<1> QED BY <1>4, <1>5, <1>6, <1>7, <1>8, <1>9, <1>10, <1>11

(* A job reports to the holder of its owner.                               *)
LEMMA ReportStep ==
    ASSUME Inv, NEW j \in Jobs,
           \/ Stall(j) \/ Output(j) \/ Drained(j) \/ Reap(j) \/ Enqueue(j) \/ Interrupt(j)
           \/ ReviewEnds(j) \/ Panic(j) \/ Watch(j) \/ PruneOld(j) \/ AcquirePermit(j)
    PROVE  MailShapes'
<1>1. att' = att
      BY DEF Stall, Output, Drained, Reap, Enqueue, Interrupt, ReviewEnds, Panic, Watch,
             PruneOld, AcquirePermit, loops
<1>2. <<"stall", j>> \in Steers /\ <<"finished", j>> \in Steers
      BY DEF Steers
<1>3. CASE Enqueue(j)
      BY <1>1, <1>3 DEF Enqueue, Inv, MailShapes
<1>4. CASE Stall(j) \/ Interrupt(j)
      BY <1>1, <1>2, <1>4 DEF Stall, Interrupt, Inv, MailShapes
<1>5. CASE \/ Output(j) \/ Drained(j) \/ Reap(j) \/ ReviewEnds(j) \/ Panic(j) \/ Watch(j)
           \/ PruneOld(j) \/ AcquirePermit(j)
  <2>1. UNCHANGED <<queue, steers>>
        BY <1>5 DEF Output, Drained, Reap, ReviewEnds, Panic, Watch, PruneOld, AcquirePermit,
                    mail
  <2> QED BY <1>1, <2>1 DEF Inv, MailShapes
<1> QED BY <1>3, <1>4, <1>5

(* The rounds of a transcript leave the jobs alone.                        *)
LEMMA LoopStep ==
    ASSUME Inv, UNCHANGED tasks, MailShapes'
    PROVE  Inv'
<1>1. UNCHANGED <<job, next, line>>
      BY DEF tasks
<1>2. Holding' = Holding
      BY <1>1 DEF Holding
<1> QED BY <1>1, <1>2 DEF Inv, JobsInv, JobShapes, Busy, InLine, Given, OnceInLine

(* Turns, drains, steers taken and attempts that end.                      *)
LEMMA RoundStep ==
    ASSUME Inv, NEW t \in Transcripts,
           \/ BeginTurn(t) \/ EndTurn(t) \/ Drain(t) \/ TakeSteers(t) \/ EndAttempt(t)
    PROVE  Inv'
<1>1. UNCHANGED tasks
      BY DEF BeginTurn, EndTurn, Drain, TakeSteers, EndAttempt
<1>2. MailShapes'
  <2>1. CASE BeginTurn(t) \/ EndTurn(t)
        BY <2>1 DEF BeginTurn, EndTurn, mail, Inv, MailShapes
  <2>2. CASE Drain(t)
        BY <2>2 DEF Drain, Inv, MailShapes
  <2>3. CASE TakeSteers(t)
        BY <2>3 DEF TakeSteers, Inv, MailShapes
  <2>4. CASE EndAttempt(t)
    <3>1. PICK r \in {"round", "over"} :
              /\ r = "round" => att[t] < MaxAttempts
              /\ att' = [att EXCEPT ![t] = IF r = "round" THEN @ + 1 ELSE @]
          BY <2>4 DEF EndAttempt
    <3>2. att[t] \in 1..MaxAttempts /\ MaxAttempts \in Nat
          BY JobsAssumption DEF Inv, MailShapes
    <3>3. (IF r = "round" THEN att[t] + 1 ELSE att[t]) \in 1..MaxAttempts
          BY <3>1, <3>2
    <3>4. att' \in [Transcripts -> 1..MaxAttempts]
          BY <3>1, <3>3 DEF Inv, MailShapes
    <3> QED BY <2>4, <3>4 DEF EndAttempt, Inv, MailShapes
  <2> QED BY <2>1, <2>2, <2>3, <2>4
<1> QED BY <1>1, <1>2, LoopStep

(* Every step keeps the invariant.                                         *)
LEMMA JobsStep == Inv /\ [Next]_vars => Inv'
<1> SUFFICES ASSUME Inv, [Next]_vars PROVE Inv'
    OBVIOUS
<1>1. ASSUME NEW t \in Transcripts, SpawnHook(t) \/ AdoptHook(t) PROVE Inv'
      BY <1>1, RegisterStep, NotStartedStep DEF SpawnHook, AdoptHook, Kinds
<1>2. CASE SpawnReview
      BY <1>2, RegisterStep, NotStartedStep, JobsAssumption DEF SpawnReview, Kinds
<1>3. ASSUME NEW t \in Transcripts,
             \/ BeginTurn(t) \/ EndTurn(t) \/ Drain(t) \/ TakeSteers(t) \/ EndAttempt(t)
      PROVE  Inv'
      BY <1>3, RoundStep
<1>4. CASE Clear
      BY <1>4, LoopStep DEF Clear, loops, Inv, MailShapes
<1>5. ASSUME NEW j \in Jobs,
             \/ Stall(j) \/ Output(j) \/ Drained(j) \/ Reap(j) \/ Enqueue(j) \/ Interrupt(j)
             \/ ReviewEnds(j) \/ Panic(j) \/ Watch(j) \/ PruneOld(j)
      PROVE  Inv'
      BY <1>5, OwnStep, ReportStep DEF Inv
<1>6. ASSUME NEW j \in Jobs, AcquirePermit(j) PROVE Inv'
      BY <1>6, PermitStep, ReportStep DEF Inv
<1>7. CASE UNCHANGED vars
  <2>1. UNCHANGED tasks /\ UNCHANGED <<queue, steers, att>>
        BY <1>7 DEF vars, mail, loops
  <2> QED BY <2>1, LoopStep DEF Inv, MailShapes
<1> QED BY <1>1, <1>2, <1>3, <1>4, <1>5, <1>6, <1>7 DEF Next, JobStep

(* So it holds throughout.                                                 *)
LEMMA InvHolds == Spec => []Inv
BY JobsInit, JobsStep, PTL DEF Spec

(* The runner's semaphore (background.rs): the tasks at work are within    *)
(* its permits, every job that waits for one is in the line exactly once   *)
(* and Running, whatever panics, stalls or is pruned meanwhile.            *)
THEOREM PermitsBoundTheWork == Spec => []TypeOK
<1>1. Inv => TypeOK
  <2> SUFFICES ASSUME Inv PROVE TypeOK
      OBVIOUS
  <2>1. ASSUME NEW j \in Jobs
        PROVE  /\ job[j].kind \in Kinds /\ job[j].owner \in Transcripts
               /\ job[j].status \in Statuses
    <3>1. job[j] \in Entries
          BY DEF Inv, JobsInv, JobShapes
    <3> QED BY <3>1 DEF Entries
  <2> QED BY <2>1 DEF TypeOK, Inv, JobsInv, MailShapes, Busy, InLine, Given, OnceInLine, Steers
<1> QED BY <1>1, InvHolds, PTL

(* The task of a job and its watcher (spawn_guarded, fail_if_running) may  *)
(* come last in either order: what /jobs said of a job that has ended does *)
(* not change until the entry is pruned.                                   *)
THEOREM EndedStaysEnded == Spec => StatusIsFinal
<1> DEFINE Final == \A j \in Jobs : job[j].status \in {"Completed", "Failed"} =>
                                      job'[j].status \in {job[j].status, "pruned"}
<1>1. ASSUME Inv, Next PROVE Final
  <2>1. job \in [Jobs -> Entries] /\ \A j \in Jobs : Busy(j) /\ Given(j)
        BY <1>1 DEF Inv, JobsInv, JobShapes
  <2>2. CASE UNCHANGED job
        BY <2>2
  <2>3. ASSUME NEW i \in Jobs, \A j \in Jobs \ {i} : job'[j] = job[j],
               job[i].status \in {"Completed", "Failed"} =>
                   job'[i].status \in {job[i].status, "pruned"}
        PROVE  Final
        BY <2>3
  <2>4. ASSUME NEW k, NEW t, Register(k, t) PROVE Final
    <3>1. next \in Jobs /\ next \in Nat /\ job[next].status = "none"
          BY <1>1, <2>4, NoJobIsEntry DEF Register, Inv, JobsInv, JobShapes, Given
    <3>2. \A j \in Jobs \ {next} : job'[j] = job[j]
          BY <2>1, <2>4 DEF Register
    <3> QED BY <2>3, <3>1, <3>2
  <2>5. ASSUME NEW s, NotStarted(s) PROVE Final
    <3>1. next \in Jobs /\ next \in Nat /\ job[next].status = "none"
          BY <1>1, <2>5, NoJobIsEntry DEF NotStarted, Inv, JobsInv, JobShapes, Given
    <3>2. \A j \in Jobs \ {next} : job'[j] = job[j]
          BY <2>1, <2>5 DEF NotStarted
    <3> QED BY <2>3, <3>1, <3>2
  <2>6. ASSUME NEW t \in Transcripts,
               \/ BeginTurn(t) \/ EndTurn(t) \/ Drain(t) \/ TakeSteers(t) \/ EndAttempt(t)
        PROVE  UNCHANGED job
        BY <2>6 DEF BeginTurn, EndTurn, Drain, TakeSteers, EndAttempt, tasks
  <2>7. ASSUME NEW i \in Jobs,
               \/ AcquirePermit(i) \/ Stall(i) \/ Output(i) \/ Drained(i) \/ Enqueue(i)
               \/ Interrupt(i) \/ Panic(i)
        PROVE  Final
    <3>1. \A j \in Jobs \ {i} : job'[j] = job[j]
          BY <2>1, <2>7 DEF AcquirePermit, Stall, Output, Drained, Enqueue, Interrupt, Panic,
                            Becomes
    <3>2. job'[i].status = job[i].status
          BY <2>1, <2>7 DEF AcquirePermit, Stall, Output, Drained, Enqueue, Interrupt, Panic,
                            Becomes, Entries
    <3> QED BY <2>3, <3>1, <3>2
  <2>8. ASSUME NEW i \in Jobs, Reap(i) \/ ReviewEnds(i) \/ Watch(i) \/ PruneOld(i)
        PROVE  Final
    <3>1. \A j \in Jobs \ {i} : job'[j] = job[j]
          BY <2>1, <2>8 DEF Reap, ReviewEnds, Watch, PruneOld
    <3>2. job[i].status \in {"Completed", "Failed"} =>
              job'[i].status \in {job[i].status, "pruned"}
      <4>1. CASE Reap(i) \/ ReviewEnds(i)
            BY <2>1, <4>1 DEF Reap, ReviewEnds, Busy
      <4>2. CASE Watch(i)
            BY <2>1, <4>2 DEF Watch, Entries
      <4>3. CASE PruneOld(i)
            BY <2>1, <4>3 DEF PruneOld, Entries
      <4> QED BY <2>8, <4>1, <4>2, <4>3
    <3> QED BY <2>3, <3>1, <3>2
  <2>9. ASSUME NEW t \in Transcripts, SpawnHook(t) \/ AdoptHook(t) PROVE Final
        BY <2>4, <2>5, <2>9 DEF SpawnHook, AdoptHook
  <2>10. CASE SpawnReview
         BY <2>4, <2>5, <2>10 DEF SpawnReview
  <2>11. CASE Clear
         BY <2>2, <2>11 DEF Clear, tasks
  <2> HIDE DEF Final
  <2> QED BY <1>1, <2>2, <2>6, <2>7, <2>8, <2>9, <2>10, <2>11 DEF Next, JobStep
<1>2. Inv /\ [Next]_vars => [Final]_vars
      BY <1>1
<1> QED BY <1>2, InvHolds, PTL DEF Spec, StatusIsFinal
=============================================================================
