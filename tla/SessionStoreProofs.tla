------------------------- MODULE SessionStoreProofs -------------------------
(***************************************************************************)
(* Proofs about what a process leaves on disk, for any number of           *)
(* processes, tasks, holders, lines, changes and crashes: state.json is a  *)
(* whole state at every moment, a save puts nothing older on disk than its *)
(* own change, and the session log only grows.                             *)
(***************************************************************************)
EXTENDS SessionStore, TLAPS

-----------------------------------------------------------------------------
Phases == {"idle", "plans", "logs", "write", "rename"}
Saves == [phase : Phases, snap : States, since : SUBSET States]

(* The types, with those of the bookkeeping that TypeOK leaves open.       *)
Shapes ==
    /\ TypeOK
    /\ task \in [Tasks -> Saves]
    /\ ops \in 0..MaxWork

(* What a persist_state has cloned so far the memory of its process has    *)
(* held since the change, and what it holds now is one of those.           *)
UpToDate ==
    \A t \in Tasks : Busy(t) =>
        /\ mem[t[1]] \in task[t].since
        /\ task[t].phase \in {"logs", "write", "rename"} =>
              task[t].snap.plan \in {m.plan : m \in task[t].since}
        /\ task[t].phase \in {"write", "rename"} =>
              task[t].snap.dec \in {m.dec : m \in task[t].since}

StoreInv == Shapes /\ UpToDate

(* An empty state, and a process or a task that is about to begin, have    *)
(* their types.                                                            *)
LEMMA EmptyTypes == Empty \in States /\ NoTask \in Saves /\ MaxWork \in Nat
BY StoreAssumption DEF Empty, States, NoTask, Saves, Phases

(* Before the first process there is nothing on disk.                      *)
LEMMA StoreInit == Init => StoreInv
<1> SUFFICES ASSUME Init PROVE StoreInv
    OBVIOUS
<1>1. \A t \in Tasks : t[1] \in Procs /\ task[t] = NoTask /\ ~Busy(t)
      BY DEF Init, Tasks, Busy, NoTask
<1>2. task \in [Tasks -> Saves] /\ ops \in 0..MaxWork
      BY EmptyTypes DEF Init
<1>3. Shapes
  <2>1. /\ proc \in [Procs -> {"down", "opened", "rehydrated", "up"}]
        /\ call \in [Procs -> Holders \cup {Default}]
        BY DEF Init
  <2>2. log \in Seq(Entries \cup {Bad}) /\ tail \in Tails /\ owes \in [Procs -> BOOLEAN]
        BY DEF Init, Tails
  <2>3. mem \in [Procs -> States] /\ file \in States \cup {Absent}
        BY EmptyTypes DEF Init
  <2>4. \A t \in Tasks : task[t].phase = "idle" /\ task[t].snap \in States
        BY <1>1, EmptyTypes DEF NoTask
  <2> QED BY <1>1, <1>2, <2>1, <2>2, <2>3, <2>4 DEF Shapes, TypeOK
<1>4. UpToDate
      BY <1>1 DEF UpToDate
<1> QED BY <1>3, <1>4 DEF StoreInv

(* A line is one of the entries, or what was written behind a torn one; a  *)
(* tail is what is left of an entry.                                       *)
LEMMA WriteTypes ==
    ASSUME TypeOK, NEW e \in Entries, Written(e) \/ Torn(e)
    PROVE  log' \in Seq(Entries \cup {Bad}) /\ tail' \in Tails
<1>1. CASE Written(e)
      BY <1>1 DEF TypeOK, Written, Tails
<1>2. CASE Torn(e)
  <2>1. tail' \in {NoTail, Partial, Cut, e, tail}
        BY <1>2 DEF Torn
  <2> QED BY <1>2, <2>1 DEF TypeOK, Torn, Tails
<1> QED BY <1>1, <1>2

(* So a record keeps the types of the journal, and writes at most a line.  *)
LEMMA RecordTypes ==
    ASSUME TypeOK, NEW p \in Procs, NEW e \in Entries, record(p, e) \/ Recorded(p, e)
    PROVE  /\ log' \in Seq(Entries \cup {Bad}) /\ tail' \in Tails
           /\ owes' \in [Procs -> BOOLEAN]
<1>1. Written(e) \/ Torn(e)
      BY DEF record, Recorded
<1>2. owes' = owes \/ owes' = [owes EXCEPT ![p] = TRUE]
      BY DEF record, Recorded
<1> QED BY <1>1, <1>2, WriteTypes DEF TypeOK

(* What process p does with the log and with its calls leaves the store    *)
(* alone.                                                                  *)
LEMMA JournalStep ==
    ASSUME StoreInv, UNCHANGED store,
           proc' \in [Procs -> {"down", "opened", "rehydrated", "up"}],
           \A p \in Procs : proc[p] = "up" => proc'[p] = "up",
           call' \in [Procs -> Holders \cup {Default}], owes' \in [Procs -> BOOLEAN],
           log' \in Seq(Entries \cup {Bad}), tail' \in Tails
    PROVE  StoreInv'
<1>1. /\ task' = task /\ mem' = mem /\ file' = file /\ ops' = ops
      BY DEF store
<1>2. \A t \in Tasks : t[1] \in Procs /\ (Busy(t)' <=> Busy(t))
      BY <1>1 DEF Tasks, Busy
<1>3. Shapes'
      BY <1>1, <1>2 DEF StoreInv, Shapes, TypeOK
<1>4. UpToDate'
      BY <1>1, <1>2 DEF StoreInv, UpToDate
<1> QED BY <1>3, <1>4 DEF StoreInv

(* A process that is opened was down: none of its tasks was saving.        *)
LEMMA OpenStep ==
    ASSUME StoreInv, NEW p \in Procs, Open(p)
    PROVE  StoreInv'
<1>1. /\ mem' = [mem EXCEPT ![p] = IF file = Absent THEN Empty ELSE file]
      /\ proc' = [proc EXCEPT ![p] = "opened"] /\ proc[p] = "down"
      /\ UNCHANGED <<call, owes, log, tail, file, task, ops>>
      BY DEF Open, journal
<1>2. \A t \in Tasks : t[1] \in Procs /\ (Busy(t)' <=> Busy(t)) /\ (Busy(t) => t[1] # p)
      BY <1>1 DEF Tasks, Busy, StoreInv, Shapes, TypeOK
<1>3. mem' \in [Procs -> States]
      BY <1>1, EmptyTypes DEF StoreInv, Shapes, TypeOK
<1>4. Shapes'
      BY <1>1, <1>2, <1>3 DEF StoreInv, Shapes, TypeOK
<1>5. UpToDate'
      BY <1>1, <1>2 DEF StoreInv, Shapes, TypeOK, UpToDate
<1> QED BY <1>4, <1>5 DEF StoreInv

(* A process that stops takes its tasks and its memory with it.            *)
LEMMA StopStep ==
    ASSUME StoreInv, NEW p \in Procs, Stopped(p),
           owes' \in [Procs -> BOOLEAN],
           log' \in Seq(Entries \cup {Bad}), tail' \in Tails
    PROVE  StoreInv'
<1>1. /\ mem' = [mem EXCEPT ![p] = Empty] /\ proc' = [proc EXCEPT ![p] = "down"]
      /\ call' = [call EXCEPT ![p] = Default]
      /\ task' = [t \in Tasks |-> IF t[1] = p THEN NoTask ELSE task[t]]
      /\ UNCHANGED <<file, ops>>
      BY DEF Stopped
<1>2. ASSUME NEW t \in Tasks
      PROVE  /\ t[1] \in Procs
             /\ t[1] = p => task'[t] = NoTask /\ ~Busy(t)'
             /\ t[1] # p => task'[t] = task[t] /\ (Busy(t)' <=> Busy(t))
      BY <1>1 DEF Tasks, Busy, NoTask
<1>3. task' \in [Tasks -> Saves] /\ mem' \in [Procs -> States]
      BY <1>1, EmptyTypes DEF StoreInv, Shapes, TypeOK
<1>4. Shapes'
  <2>1. proc' \in [Procs -> {"down", "opened", "rehydrated", "up"}]
        BY <1>1 DEF StoreInv, Shapes, TypeOK
  <2>2. call' \in [Procs -> Holders \cup {Default}]
        BY <1>1 DEF StoreInv, Shapes, TypeOK
  <2>3. ASSUME NEW t \in Tasks
        PROVE  /\ task'[t].phase \in Phases /\ task'[t].snap \in States
               /\ Busy(t)' => proc'[t[1]] = "up"
    <3>1. task'[t] \in Saves
          BY <1>3
    <3>2. Busy(t)' => proc'[t[1]] = "up"
          BY <1>1, <1>2 DEF StoreInv, Shapes, TypeOK
    <3> QED BY <3>1, <3>2 DEF Saves
  <2> QED BY <1>1, <1>3, <2>1, <2>2, <2>3 DEF StoreInv, Shapes, TypeOK, Phases
<1>5. UpToDate'
      BY <1>1, <1>2 DEF StoreInv, Shapes, TypeOK, UpToDate
<1> QED BY <1>4, <1>5 DEF StoreInv

(* What the clones, the write and the rename have in common: task t goes   *)
(* on with its persist_state, or is done with it.                          *)
LEMMA SaveStep ==
    ASSUME StoreInv, NEW t \in Tasks, Busy(t), NEW x \in Saves,
           task' = [task EXCEPT ![t] = x],
           x.phase # "idle" =>
              /\ x.since = task[t].since
              /\ x.phase \in {"logs", "write", "rename"} => x.snap.plan \in {m.plan : m \in x.since}
              /\ x.phase \in {"write", "rename"} => x.snap.dec \in {m.dec : m \in x.since},
           file' \in States \cup {Absent},
           UNCHANGED <<proc, call, owes, log, tail, mem, ops>>
    PROVE  StoreInv'
<1>1. task' \in [Tasks -> Saves] /\ task'[t] = x
      BY DEF StoreInv, Shapes
<1>2. ASSUME NEW u \in Tasks \ {t} PROVE task'[u] = task[u] /\ (Busy(u)' <=> Busy(u))
      BY DEF StoreInv, Shapes, Busy
<1>3. \A u \in Tasks : u[1] \in Procs /\ (Busy(u)' => Busy(u))
      BY <1>2 DEF Tasks
<1>4. Shapes'
  <2>1. ASSUME NEW u \in Tasks
        PROVE  /\ task'[u].phase \in Phases /\ task'[u].snap \in States
               /\ Busy(u)' => proc'[u[1]] = "up"
    <3>1. task'[u] \in Saves
          BY <1>1
    <3>2. Busy(u)' => proc'[u[1]] = "up"
          BY <1>3 DEF StoreInv, Shapes, TypeOK
    <3> QED BY <3>1, <3>2 DEF Saves
  <2> QED BY <1>1, <2>1 DEF StoreInv, Shapes, TypeOK, Phases
<1>5. UpToDate'
      BY <1>1, <1>2 DEF StoreInv, UpToDate, Busy
<1> QED BY <1>4, <1>5 DEF StoreInv

(* persist_state, from the first clone to the rename.                      *)
LEMMA PersistStep ==
    ASSUME StoreInv, NEW t \in Tasks,
           ClonePlans(t) \/ CloneLogs(t) \/ WriteTemp(t) \/ Rename(t) \/ SaveFails(t)
    PROVE  StoreInv'
<1> DEFINE m == mem[t[1]]
           s == task[t].snap
           a == task[t].since
<1>1. /\ Busy(t) /\ UNCHANGED <<proc, call, owes, log, tail, mem, ops>>
      BY DEF ClonePlans, CloneLogs, WriteTemp, Rename, SaveFails, Busy, journal
<1>2. task[t] \in Saves /\ m \in States /\ s \in States /\ a \in SUBSET States
      BY DEF StoreInv, Shapes, TypeOK, Saves, Tasks
<1>3. /\ m \in a
      /\ task[t].phase \in {"logs", "write", "rename"} => s.plan \in {v.plan : v \in a}
      /\ task[t].phase \in {"write", "rename"} => s.dec \in {v.dec : v \in a}
      BY <1>1 DEF StoreInv, UpToDate
<1>4. file \in States \cup {Absent}
      BY DEF StoreInv, Shapes, TypeOK
<1>5. CASE ClonePlans(t)
  <2> DEFINE y == [s EXCEPT !.plan = m.plan]
             x == [task[t] EXCEPT !.phase = "logs", !.snap = y]
  <2>1. y \in States /\ y.plan = m.plan
        BY <1>2 DEF States
  <2>2. task' = [task EXCEPT ![t] = x]
        BY <1>5 DEF ClonePlans, StoreInv, Shapes, Saves
  <2> HIDE DEF y
  <2>3. x \in Saves /\ x.phase = "logs" /\ x.snap = y /\ x.since = a
        BY <1>2, <2>1 DEF Saves, Phases
  <2>4. file' = file
        BY <1>5 DEF ClonePlans
  <2>5. x.snap.plan \in {v.plan : v \in x.since}
        BY <1>3, <2>1, <2>3
  <2> HIDE DEF x
  <2> QED BY <1>1, <1>4, <2>2, <2>3, <2>4, <2>5, SaveStep
<1>6. CASE CloneLogs(t)
  <2> DEFINE y == [s EXCEPT !.dec = m.dec]
             x == [task[t] EXCEPT !.phase = "write", !.snap = y]
  <2>1. y \in States /\ y.plan = s.plan /\ y.dec = m.dec
        BY <1>2 DEF States
  <2>2. task' = [task EXCEPT ![t] = x] /\ task[t].phase = "logs"
        BY <1>6 DEF CloneLogs, StoreInv, Shapes, Saves
  <2> HIDE DEF y
  <2>3. x \in Saves /\ x.phase = "write" /\ x.snap = y /\ x.since = a
        BY <1>2, <2>1 DEF Saves, Phases
  <2>4. file' = file
        BY <1>6 DEF CloneLogs
  <2>5. x.snap.plan \in {v.plan : v \in x.since} /\ x.snap.dec \in {v.dec : v \in x.since}
        BY <1>3, <2>1, <2>2, <2>3
  <2> HIDE DEF x
  <2> QED BY <1>1, <1>4, <2>2, <2>3, <2>4, <2>5, SaveStep
<1>7. CASE WriteTemp(t)
  <2> DEFINE x == [task[t] EXCEPT !.phase = "rename"]
  <2>1. task' = [task EXCEPT ![t] = x] /\ task[t].phase = "write" /\ file' = file
        BY <1>7 DEF WriteTemp, StoreInv, Shapes, Saves
  <2>2. x \in Saves /\ x.phase = "rename" /\ x.snap = s /\ x.since = a
        BY <1>2 DEF Saves, Phases
  <2> HIDE DEF x
  <2> QED BY <1>1, <1>3, <1>4, <2>1, <2>2, SaveStep
<1>8. CASE Rename(t) \/ SaveFails(t)
  <2>1. task' = [task EXCEPT ![t] = NoTask] /\ (file' = s \/ file' = file)
        BY <1>8 DEF Rename, SaveFails
  <2>2. NoTask.phase = "idle"
        BY DEF NoTask
  <2> QED BY <1>1, <1>2, <1>4, <2>1, <2>2, EmptyTypes, SaveStep
<1> QED BY <1>5, <1>6, <1>7, <1>8

(* A change of the memory is noted by every save of the process that is    *)
(* under way, and no other.                                                *)
LEMMA NotedTasks ==
    ASSUME StoreInv, NEW t \in Tasks, NEW m \in States, mem' = [mem EXCEPT ![t[1]] = m]
    PROVE  /\ Noted(t) \in [Tasks -> Saves] /\ mem' \in [Procs -> States]
           /\ \A u \in Tasks :
                 /\ Noted(t)[u].phase = task[u].phase /\ Noted(t)[u].snap = task[u].snap
                 /\ task[u].since \subseteq Noted(t)[u].since
                 /\ Busy(u) => mem'[u[1]] \in Noted(t)[u].since
<1>1. t[1] \in Procs /\ mem'[t[1]] = m /\ mem' \in [Procs -> States]
      BY DEF Tasks, StoreInv, Shapes, TypeOK
<1>2. ASSUME NEW u \in Tasks
      PROVE  /\ Noted(t)[u] \in Saves
             /\ Noted(t)[u].phase = task[u].phase /\ Noted(t)[u].snap = task[u].snap
             /\ task[u].since \subseteq Noted(t)[u].since
             /\ Busy(u) => mem'[u[1]] \in Noted(t)[u].since
  <2>1. task[u] \in Saves /\ u[1] \in Procs
        BY DEF StoreInv, Shapes, Tasks
  <2>2. CASE Busy(u) /\ u[1] = t[1]
    <3>1. Noted(t)[u] = [task[u] EXCEPT !.since = @ \cup {m}]
          BY <1>1, <2>2 DEF Noted
    <3> QED BY <1>1, <2>1, <2>2, <3>1 DEF Saves
  <2>3. CASE ~(Busy(u) /\ u[1] = t[1])
    <3>1. Noted(t)[u] = task[u]
          BY <2>3 DEF Noted
    <3>2. Busy(u) => mem'[u[1]] \in task[u].since
          BY <2>1, <2>3 DEF StoreInv, Shapes, TypeOK, UpToDate
    <3> QED BY <2>1, <3>1, <3>2
  <2> QED BY <2>2, <2>3
<1>3. Noted(t) = [u \in Tasks |-> Noted(t)[u]]
      BY DEF Noted
<1> QED BY <1>1, <1>2, <1>3

(* A change of the memory, with or without a save: the saves under way     *)
(* note it, and one that begins with it has it to begin with.              *)
LEMMA ChangeStep ==
    ASSUME StoreInv, NEW t \in Tasks, NEW m \in States, Change(t, m),
           \/ Persist(t)
           \/ task' = Noted(t) /\ UNCHANGED <<proc, call, owes, log, tail, file>>
    PROVE  StoreInv'
<1>1. /\ proc[t[1]] = "up" /\ mem' = [mem EXCEPT ![t[1]] = m] /\ ops' \in 0..MaxWork
      /\ UNCHANGED <<proc, call, owes, log, tail, file>> /\ ~Busy(t)
  <2>1. ops' = ops + 1 /\ Len(log) + ops < MaxWork /\ ops \in Nat /\ MaxWork \in Nat
        BY EmptyTypes DEF Change, StoreInv, Shapes
  <2>2. Len(log) \in Nat
        BY DEF StoreInv, Shapes, TypeOK
  <2>3. ops' \in 0..MaxWork
        BY <2>1, <2>2
  <2> QED BY <2>3 DEF Change, Persist, journal
<1>2. t[1] \in Procs /\ mem'[t[1]] = m
      BY <1>1 DEF Tasks, StoreInv, Shapes, TypeOK
<1> DEFINE x == [phase |-> "plans", snap |-> Empty, since |-> {m}]
<1>3. x \in Saves /\ x.phase = "plans" /\ x.since = {m}
      BY EmptyTypes DEF Saves, Phases
<1>4. task' = Noted(t) \/ task' = [Noted(t) EXCEPT ![t] = x]
      BY <1>2 DEF Persist
<1> HIDE DEF x
<1>5. ASSUME NEW u \in Tasks
      PROVE  /\ task'[u] \in Saves
             /\ Busy(u)' => (u = t /\ task'[u] = x) \/ (Busy(u) /\ task'[u] = Noted(t)[u])
  <2>1. task'[u] = Noted(t)[u] \/ (u = t /\ task'[u] = x)
        BY <1>1, <1>4, NotedTasks
  <2>2. Noted(t)[u] \in Saves /\ Noted(t)[u].phase = task[u].phase
        BY <1>1, NotedTasks
  <2> QED BY <1>3, <2>1, <2>2 DEF Busy
<1>6. task' \in [Tasks -> Saves] /\ mem' \in [Procs -> States]
      BY <1>1, <1>4, <1>5, NotedTasks
<1>7. Shapes'
  <2>1. ASSUME NEW u \in Tasks
        PROVE  /\ task'[u].phase \in Phases /\ task'[u].snap \in States
               /\ Busy(u)' => proc'[u[1]] = "up"
    <3>1. Busy(u)' => proc'[u[1]] = "up"
          BY <1>1, <1>5 DEF StoreInv, Shapes, TypeOK
    <3> QED BY <1>5, <3>1 DEF Saves
  <2> QED BY <1>1, <1>6, <2>1 DEF StoreInv, Shapes, TypeOK, Phases
<1>8. UpToDate'
  <2> SUFFICES ASSUME NEW u \in Tasks, Busy(u)'
               PROVE  /\ mem'[u[1]] \in task'[u].since
                      /\ task'[u].phase \in {"logs", "write", "rename"} =>
                            task'[u].snap.plan \in {v.plan : v \in task'[u].since}
                      /\ task'[u].phase \in {"write", "rename"} =>
                            task'[u].snap.dec \in {v.dec : v \in task'[u].since}
      BY DEF UpToDate
  <2>1. CASE u = t /\ task'[u] = x
        BY <1>2, <1>3, <2>1
  <2>2. CASE Busy(u) /\ task'[u] = Noted(t)[u]
    <3>1. /\ task[u].phase \in {"logs", "write", "rename"} =>
                 task[u].snap.plan \in {v.plan : v \in task[u].since}
          /\ task[u].phase \in {"write", "rename"} =>
                 task[u].snap.dec \in {v.dec : v \in task[u].since}
          BY <2>2 DEF StoreInv, UpToDate
    <3>2. /\ Noted(t)[u].phase = task[u].phase /\ Noted(t)[u].snap = task[u].snap
          /\ task[u].since \subseteq Noted(t)[u].since
          /\ mem'[u[1]] \in Noted(t)[u].since
          BY <1>1, <2>2, NotedTasks
    <3> QED BY <2>2, <3>1, <3>2
  <2> QED BY <1>5, <2>1, <2>2
<1> QED BY <1>7, <1>8 DEF StoreInv

(* The states the operations on the plan and the decisions make.           *)
LEMMA ChangeSteps ==
    ASSUME StoreInv, NEW t \in Tasks,
           \/ set_plan(t) \/ clear_plan(t) \/ add_decision(t) \/ drop_decision(t)
           \/ set_decision_log(t) \/ apply_plan_update(t)
    PROVE  StoreInv'
<1> DEFINE m == mem[t[1]]
<1>1. m \in States /\ ops \in Nat /\ MaxWork \in Nat
      BY EmptyTypes DEF StoreInv, Shapes, TypeOK, Tasks
<1>2. ASSUME ops < MaxWork
      PROVE  /\ [m EXCEPT !.plan = Fresh] \in States
             /\ [m EXCEPT !.dec = @ \cup {Fresh}] \in States
  <2>1. Fresh \in 0..MaxWork /\ Fresh \in 1..MaxWork
        BY <1>1, <1>2 DEF Fresh
  <2> HIDE DEF Fresh
  <2> QED BY <1>1, <2>1 DEF States
<1>3. /\ [m EXCEPT !.plan = 0] \in States
      /\ [m EXCEPT !.dec = {}] \in States
      /\ \A d \in m.dec : [m EXCEPT !.dec = @ \ {d}] \in States
      BY <1>1 DEF States
<1>4. ASSUME NEW x, Change(t, x) PROVE ops < MaxWork
  <2>1. Len(log) \in Nat /\ Len(log) + ops < MaxWork
        BY <1>4 DEF Change, StoreInv, Shapes, TypeOK
  <2> QED BY <1>1, <2>1
<1>5. CASE set_plan(t)
      BY <1>2, <1>4, <1>5, ChangeStep DEF set_plan
<1>6. CASE clear_plan(t)
      BY <1>3, <1>6, ChangeStep DEF clear_plan
<1>7. CASE add_decision(t)
      BY <1>2, <1>4, <1>7, ChangeStep DEF add_decision
<1>8. CASE drop_decision(t)
      BY <1>3, <1>8, ChangeStep DEF drop_decision
<1>9. CASE set_decision_log(t)
      BY <1>3, <1>9, ChangeStep DEF set_decision_log
<1>10. CASE apply_plan_update(t)
  <2>1. /\ Change(t, [m EXCEPT !.plan = Fresh])
        /\ task' = Noted(t)
        /\ UNCHANGED <<proc, call, owes, log, tail, file>>
        BY <1>10 DEF apply_plan_update, journal
  <2> QED BY <1>2, <1>4, <2>1, ChangeStep
<1> QED BY <1>5, <1>6, <1>7, <1>8, <1>9, <1>10

(* A process starts, runs its tool calls and records them.                 *)
LEMMA LifeStep ==
    ASSUME StoreInv, NEW p \in Procs,
           \/ Rehydrate(p) \/ RecordInit(p) \/ EndCall(p) \/ RecordRedaction(p)
           \/ \E h \in Holders : StartCall(p, h)
    PROVE  StoreInv'
<1> DEFINE Kept == /\ log' \in Seq(Entries \cup {Bad}) /\ tail' \in Tails
                   /\ owes' \in [Procs -> BOOLEAN]
<1>1. /\ proc \in [Procs -> {"down", "opened", "rehydrated", "up"}]
      /\ call \in [Procs -> Holders \cup {Default}] /\ owes \in [Procs -> BOOLEAN]
      /\ log \in Seq(Entries \cup {Bad}) /\ tail \in Tails
      /\ TypeOK
      BY DEF StoreInv, Shapes, TypeOK
<1>2. CASE Rehydrate(p)
      BY <1>1, <1>2, JournalStep DEF Rehydrate, journal
<1>3. CASE RecordInit(p)
  <2>1. <<"init", Default>> \in Entries
        BY DEF Entries
  <2>2. Kept
        BY <1>1, <1>3, <2>1, RecordTypes DEF RecordInit
  <2> QED BY <1>1, <1>3, <2>2, JournalStep DEF RecordInit
<1>4. CASE EndCall(p)
  <2>1. <<"call", call[p]>> \in Entries
        BY <1>1, <1>4 DEF EndCall, Entries
  <2>2. Kept
        BY <1>1, <1>4, <2>1, RecordTypes DEF EndCall
  <2> QED BY <1>1, <1>4, <2>2, JournalStep DEF EndCall
<1>5. ASSUME NEW h \in Holders, StartCall(p, h) PROVE StoreInv'
  <2>1. <<"start", h>> \in Entries
        BY DEF Entries
  <2>2. Kept
        BY <1>1, <1>5, <2>1, RecordTypes DEF StartCall, journal
  <2> QED BY <1>1, <1>5, <2>2, JournalStep DEF StartCall
<1>6. CASE RecordRedaction(p)
  <2>1. Redaction \in Entries
        BY DEF Entries
  <2>2. Kept
        BY <1>1, <1>6, <2>1, WriteTypes DEF RecordRedaction
  <2> QED BY <1>1, <1>6, <2>2, JournalStep DEF RecordRedaction
<1> QED BY <1>2, <1>3, <1>4, <1>5, <1>6

(* What a process writes is an entry.                                      *)
LEMMA WritesEntries ==
    ASSUME TypeOK, NEW p \in Procs
    PROVE  Writing(p) \subseteq Entries
<1>1. call[p] \in Holders \cup {Default}
      BY DEF TypeOK
<1>2. /\ <<"init", Default>> \in Entries /\ <<"exit", Default>> \in Entries
      /\ Redaction \in Entries /\ {"start"} \X Holders \subseteq Entries
      /\ call[p] # Default => <<"call", call[p]>> \in Entries
      BY <1>1 DEF Entries
<1> QED BY <1>2 DEF Writing

(* A process ends, cleanly or anywhere, in the middle of a write too.      *)
LEMMA EndStep ==
    ASSUME StoreInv, NEW p \in Procs, Shutdown(p) \/ Crash(p)
    PROVE  StoreInv'
<1>1. /\ log \in Seq(Entries \cup {Bad}) /\ tail \in Tails
      /\ owes \in [Procs -> BOOLEAN] /\ TypeOK
      BY DEF StoreInv, Shapes, TypeOK
<1>2. CASE Shutdown(p)
  <2>1. <<"exit", Default>> \in Entries
        BY DEF Entries
  <2> QED BY <1>1, <1>2, <2>1, RecordTypes, StopStep DEF Shutdown
<1>3. CASE Crash(p)
  <2>1. owes' \in [Procs -> BOOLEAN] /\ Stopped(p)
        BY <1>1, <1>3 DEF Crash
  <2>2. UNCHANGED <<log, tail>> \/ \E e \in Entries : Torn(e)
        BY <1>1, <1>3, WritesEntries DEF Crash
  <2>3. log' \in Seq(Entries \cup {Bad}) /\ tail' \in Tails
        BY <1>1, <2>2, WriteTypes
  <2> QED BY <2>1, <2>3, StopStep
<1> QED BY <1>2, <1>3

(* Every step keeps the invariant.                                         *)
LEMMA StoreStep == StoreInv /\ [Next]_vars => StoreInv'
<1> SUFFICES ASSUME StoreInv, [Next]_vars PROVE StoreInv'
    OBVIOUS
<1>1. ASSUME NEW p \in Procs, Open(p) PROVE StoreInv'
      BY <1>1, OpenStep
<1>2. ASSUME NEW p \in Procs,
             \/ Rehydrate(p) \/ RecordInit(p) \/ EndCall(p) \/ RecordRedaction(p)
             \/ \E h \in Holders : StartCall(p, h)
      PROVE  StoreInv'
      BY <1>2, LifeStep
<1>3. ASSUME NEW p \in Procs, Shutdown(p) \/ Crash(p) PROVE StoreInv'
      BY <1>3, EndStep
<1>4. ASSUME NEW t \in Tasks,
             \/ set_plan(t) \/ clear_plan(t) \/ add_decision(t) \/ drop_decision(t)
             \/ set_decision_log(t) \/ apply_plan_update(t)
      PROVE  StoreInv'
      BY <1>4, ChangeSteps
<1>5. ASSUME NEW t \in Tasks,
             ClonePlans(t) \/ CloneLogs(t) \/ WriteTemp(t) \/ Rename(t) \/ SaveFails(t)
      PROVE  StoreInv'
      BY <1>5, PersistStep
<1>6. CASE UNCHANGED vars
  <2>1. UNCHANGED <<proc, call, owes, log, tail, mem, file, task, ops>>
        BY <1>6 DEF vars, journal, store
  <2>2. UNCHANGED store
        BY <2>1 DEF store
  <2> QED BY <2>1, <2>2, JournalStep DEF StoreInv, Shapes, TypeOK
<1> QED BY <1>1, <1>2, <1>3, <1>4, <1>5, <1>6 DEF Next

(* So it holds throughout.                                                 *)
LEMMA StoreInvHolds == Spec => []StoreInv
BY StoreInit, StoreStep, PTL DEF Spec

(* state.json is a whole state at every moment (state.rs, save: a          *)
(* temporary file and a rename), and a process that is not up saves        *)
(* nothing, however many processes save, crash and restart.                *)
THEOREM StateFileIsWhole == Spec => []TypeOK
<1>1. StoreInv => TypeOK
      BY DEF StoreInv, Shapes
<1> QED BY <1>1, StoreInvHolds, PTL

(* A save that reaches its rename puts on disk a plan and decisions the    *)
(* memory of its process held at its change or later (engine/state.rs,     *)
(* persist_state), however many changes and saves overlap it.              *)
THEOREM SavesHoldTheirChange == Spec => SaveHoldsItsChange
<1>1. StoreInv /\ [Next]_vars =>
        [\A t \in Tasks : Rename(t) =>
             /\ file'.plan \in {m.plan : m \in task[t].since}
             /\ file'.dec \in {m.dec : m \in task[t].since}]_vars
  <2> SUFFICES ASSUME StoreInv, NEW t \in Tasks, Rename(t)
               PROVE  /\ file'.plan \in {m.plan : m \in task[t].since}
                      /\ file'.dec \in {m.dec : m \in task[t].since}
      OBVIOUS
  <2>1. Busy(t) /\ task[t].phase = "rename" /\ file' = task[t].snap
        BY DEF Rename, Busy
  <2> QED BY <2>1 DEF StoreInv, UpToDate
<1> QED BY <1>1, StoreInvHolds, PTL DEF Spec, SaveHoldsItsChange

-----------------------------------------------------------------------------
(* A sequence is a prefix of itself and of what is appended to it.         *)
LEMMA AppendExtends ==
    ASSUME NEW S, NEW s \in Seq(S), NEW e \in S
    PROVE  IsPrefix(s, s) /\ IsPrefix(s, Append(s, e)) /\ Last(Append(s, e)) = e
<1>1. IsPrefix(s, s) /\ IsPrefix(s, Append(s, e))
      BY DEF IsPrefix
<1>2. Append(s, e) \in Seq(S) /\ Len(Append(s, e)) = Len(s) + 1
        /\ Append(s, e)[Len(s) + 1] = e
      OBVIOUS
<1> QED BY <1>1, <1>2 DEF Last

(* No entry is a malformed line, and neither is what is left of one that   *)
(* was torn.                                                               *)
LEMMA EntriesAreGood ==
    /\ Bad \notin Entries /\ NoTail \notin Entries
    /\ Partial \notin Entries /\ Cut \notin Entries
    /\ NoTail # Partial /\ NoTail # Cut /\ Partial # Cut
<1>1. \A e \in Entries : e[1] \in {"init", "exit", "redaction", "start", "call"}
      BY DEF Entries, Redaction
<1> QED BY <1>1 DEF Bad, NoTail, Partial, Cut

(* What the log says after an entry was recorded behind a whole line.      *)
LEMMA RecordedIsRead ==
    ASSUME NEW s \in Seq(Entries \cup {Bad}), Bad \notin Range(s), NEW e \in Entries
    PROVE  /\ Bad \notin Range(Append(s, e))
           /\ Append(s, e) # <<Bad>> /\ s # <<Bad>>
<1>1. \A i \in DOMAIN s : s[i] # Bad
      BY DEF Range
<1>2. Append(s, e) \in Seq(Entries \cup {Bad}) /\ Len(s) \in Nat
      /\ DOMAIN Append(s, e) = 1..(Len(s) + 1) /\ DOMAIN s = 1..Len(s)
      OBVIOUS
<1>3. \A i \in DOMAIN Append(s, e) : Append(s, e)[i] # Bad
      BY <1>1, <1>2, EntriesAreGood
<1>4. Bad \notin Range(Append(s, e))
      BY <1>3 DEF Range
<1>5. \A q \in Seq(Entries \cup {Bad}) : q = <<Bad>> => 1 \in DOMAIN q /\ q[1] = Bad
      OBVIOUS
<1> QED BY <1>1, <1>2, <1>3, <1>4, <1>5

(* A step leaves the log alone, writes an entry, or is cut off in the      *)
(* middle of one.                                                          *)
LEMMA JournalMoves ==
    ASSUME StoreInv, [Next]_vars
    PROVE  UNCHANGED <<log, tail>> \/ \E e \in Entries : Written(e) \/ Torn(e)
<1> DEFINE Moves == \E e \in Entries : Written(e) \/ Torn(e)
<1>1. ASSUME NEW p \in Procs, Open(p) \/ Rehydrate(p)
      PROVE  UNCHANGED <<log, tail>>
      BY <1>1 DEF Open, Rehydrate, journal
<1>2. ASSUME NEW p \in Procs, RecordInit(p) \/ Shutdown(p) \/ RecordRedaction(p) PROVE Moves
  <2>1. <<"init", Default>> \in Entries /\ <<"exit", Default>> \in Entries /\ Redaction \in Entries
        BY DEF Entries
  <2> QED BY <1>2, <2>1 DEF RecordInit, Shutdown, RecordRedaction, record, Recorded
<1>3. ASSUME NEW p \in Procs, EndCall(p) PROVE Moves
  <2>1. call[p] \in Holders
        BY <1>3 DEF EndCall, StoreInv, Shapes, TypeOK
  <2>2. <<"call", call[p]>> \in Entries
        BY <2>1 DEF Entries
  <2> QED BY <1>3, <2>2 DEF EndCall, record, Recorded
<1>4. ASSUME NEW p \in Procs, NEW h \in Holders, StartCall(p, h)
      PROVE  UNCHANGED <<log, tail>> \/ Moves
  <2>1. <<"start", h>> \in Entries
        BY DEF Entries
  <2>2. record(p, <<"start", h>>) \/ UNCHANGED <<log, tail>>
        BY <1>4 DEF StartCall, journal
  <2> QED BY <2>1, <2>2 DEF record, Recorded
<1>5. ASSUME NEW p \in Procs, Crash(p) PROVE UNCHANGED <<log, tail>> \/ Moves
      BY <1>5, WritesEntries DEF Crash, StoreInv, Shapes
<1>6. ASSUME NEW t \in Tasks,
             \/ set_plan(t) \/ clear_plan(t) \/ add_decision(t) \/ drop_decision(t)
             \/ set_decision_log(t) \/ apply_plan_update(t)
             \/ ClonePlans(t) \/ CloneLogs(t) \/ WriteTemp(t) \/ Rename(t) \/ SaveFails(t)
      PROVE  UNCHANGED <<log, tail>>
      BY <1>6 DEF set_plan, clear_plan, add_decision, drop_decision, set_decision_log,
                  apply_plan_update, Persist, ClonePlans, CloneLogs, WriteTemp, Rename,
                  SaveFails, journal
<1>7. ASSUME UNCHANGED vars PROVE UNCHANGED <<log, tail>>
      BY <1>7 DEF vars, journal
<1> QED BY <1>1, <1>2, <1>3, <1>4, <1>5, <1>6, <1>7 DEF Next

(* What read_session returned stays the beginning of what it returns.      *)
LEMMA ReadGrows ==
    ASSUME StoreInv, [Next]_vars, Readable(log, tail), ~Spoils
    PROVE  /\ Readable(log', tail')
           /\ IsPrefix(read_session(log, tail), read_session(log', tail'))
           /\ log' # log => Last(read_session(log', tail')) = Last(log')
<1>1. log \in Seq(Entries \cup {Bad}) /\ <<"init", Default>> \in Entries
      BY DEF StoreInv, Shapes, TypeOK, Entries
<1>2. Bad \notin Range(log) /\ tail # Cut /\ ~TooLong(log, tail)
      BY DEF Readable, read_session
<1>3. tail' # Cut /\ ~TooLong(log', tail') /\ (tail = NoTail \/ UNCHANGED <<log, tail>>)
      BY DEF Spoils
<1>4. log # <<Bad>> /\ IsPrefix(log, log)
      BY <1>1, <1>2, RecordedIsRead, AppendExtends
<1>5. ASSUME NEW e \in Entries
      PROVE  /\ Bad \notin Range(Append(log, e)) /\ Append(log, e) # <<Bad>>
             /\ IsPrefix(log, Append(log, e)) /\ Last(Append(log, e)) = e
             /\ IsPrefix(Append(log, e), Append(log, e))
  <2>1. e \in Entries \cup {Bad} /\ Append(log, e) \in Seq(Entries \cup {Bad})
        BY <1>1
  <2> QED BY <1>1, <1>2, <2>1, RecordedIsRead, AppendExtends
<1>6. CASE UNCHANGED <<log, tail>>
  <2>1. IsPrefix(read_session(log, tail), read_session(log, tail))
    <3>1. read_session(log, tail) = log \/ (tail \in Entries /\ read_session(log, tail) = Append(log, tail))
          BY <1>2 DEF read_session
    <3> QED BY <1>4, <1>5, <3>1
  <2> QED BY <1>6, <2>1 DEF Readable
<1>7. CASE tail = NoTail
  <2>1. read_session(log, tail) = log
        BY <1>2, <1>7, EntriesAreGood DEF read_session
  <2>2. ASSUME NEW e \in Entries, Written(e)
        PROVE  /\ Readable(log', tail')
               /\ IsPrefix(read_session(log, tail), read_session(log', tail'))
               /\ Last(read_session(log', tail')) = Last(log')
    <3>1. log' = Append(log, e) /\ tail' = NoTail
          BY <1>7, <2>2 DEF Written
    <3>2. read_session(log', tail') = Append(log, e)
          BY <1>3, <1>5, <3>1, EntriesAreGood DEF read_session
    <3> QED BY <1>5, <2>1, <3>1, <3>2 DEF Readable
  <2>3. ASSUME NEW e \in Entries, Torn(e)
        PROVE  /\ Readable(log', tail') /\ log' = log
               /\ IsPrefix(read_session(log, tail), read_session(log', tail'))
    <3>1. log' = log /\ tail' \in {NoTail, Partial, e}
          BY <1>3, <1>7, <2>3 DEF Torn
    <3>2. CASE tail' \in {NoTail, Partial}
      <4>1. read_session(log', tail') = log
            BY <1>2, <1>3, <3>1, <3>2, EntriesAreGood DEF read_session
      <4> QED BY <1>4, <2>1, <3>1, <4>1 DEF Readable
    <3>3. CASE tail' = e
      <4>1. read_session(log', tail') = Append(log, e)
            BY <1>2, <1>3, <3>1, <3>3 DEF read_session
      <4> QED BY <1>5, <2>1, <3>1, <4>1 DEF Readable
    <3> QED BY <3>1, <3>2, <3>3
  <2>4. UNCHANGED <<log, tail>> \/ \E e \in Entries : Written(e) \/ Torn(e)
        BY JournalMoves
  <2> QED BY <1>6, <2>2, <2>3, <2>4
<1> QED BY <1>3, <1>6, <1>7

(* The session log only grows (session_log.rs, record and read_session):   *)
(* what a reader found it still finds, with the new entry at the end,      *)
(* whoever records, fails or crashes while it does - unless the step is    *)
(* one of those that spoil a log.                                          *)
THEOREM LogOnlyGrows == Spec => LogKeeps
<1>1. StoreInv /\ [Next]_vars =>
        [Readable(log, tail) /\ ~Spoils
         => /\ Readable(log', tail')
            /\ IsPrefix(read_session(log, tail), read_session(log', tail'))
            /\ log' # log => Last(read_session(log', tail')) = Last(log')]_vars
      BY ReadGrows
<1> QED BY <1>1, StoreInvHolds, PTL DEF Spec, LogKeeps
=============================================================================
