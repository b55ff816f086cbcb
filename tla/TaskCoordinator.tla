--------------------------- MODULE TaskCoordinator ---------------------------
(***************************************************************************)
(* kod-swarm/src/coordination.rs: which agent works on which task, and how *)
(* loaded each agent is.  `tasks', `assignments' and `agent_load' are      *)
(* three maps behind three locks.  assign_task keeps `tasks' locked until  *)
(* the other two are updated, so it is one step; finish_task and           *)
(* unassign_task unlock `tasks' first and go on under the other locks, so  *)
(* they are two and three steps of the calling task, and the steps of      *)
(* other calls fall in between.                                            *)
(***************************************************************************)
EXTENDS Naturals, FiniteSets

CONSTANTS Tasks, Agents,
          Callers,      \* tasks of the runtime that call the coordinator
          NoTask, NoAgent,
          MaxLoad       \* bound: no agent is given work above this load

ASSUME NoTaskAssumption == NoTask \notin Tasks
ASSUME NoAgentAssumption == NoAgent \notin Agents
ASSUME MaxLoadAssumption == MaxLoad \in Nat
(* What a running process has registered and spawned so far.               *)
ASSUME FiniteAssumption == IsFiniteSet(Tasks) /\ IsFiniteSet(Callers)

VARIABLES status,      \* task -> TaskStatus, or "Absent" before register_task
          assignedTo,  \* task -> Task::assigned_to
          assignment,  \* task -> agent of its TaskAssignment record
          load,        \* agent -> agent_load, a missing entry being 0
          step,        \* caller -> what its running call does next
          job,         \* caller -> the task_id of that call
          due,         \* caller -> the assignee finish_task read under `tasks'
          crossed      \* history: the agents whose slots an assign_task that
                       \* crossed an unassign_task of its task has mixed up

(* The state machine's own names start with coord, for a module that       *)
(* extends this one together with another component.                       *)
coordVars == <<status, assignedTo, assignment, load, step, job, due, crossed>>
call == <<step, job, due>>

Terminal == {"Completed", "Failed"}
TaskStatus == {"Absent", "Pending", "InProgress"} \cup Terminal

(* "none"     no call in progress                                          *)
(* "release"  finish_task unlocked `tasks'; decrements the assignee's load *)
(* "lookup"   unassign_task unlocked `tasks'; looks the assignee up in     *)
(*            `assignments' and decrements its load                        *)
(* "forget"   unassign_task removes the assignment record                  *)
Steps == {"none", "release", "lookup", "forget"}

CoordInit ==
    /\ status = [t \in Tasks |-> "Absent"]
    /\ assignedTo = [t \in Tasks |-> NoAgent]
    /\ assignment = [t \in Tasks |-> NoAgent]
    /\ load = [a \in Agents |-> 0]
    /\ step = [c \in Callers |-> "none"]
    /\ job = [c \in Callers |-> NoTask]
    /\ due = [c \in Callers |-> NoAgent]
    /\ crossed = {}

-----------------------------------------------------------------------------
(* usize::saturating_sub(1)                                                *)
SatDec(n) == IF n = 0 THEN 0 ELSE n - 1

Return(c) == /\ step' = [step EXCEPT ![c] = "none"]
             /\ job' = [job EXCEPT ![c] = NoTask]
             /\ due' = [due EXCEPT ![c] = NoAgent]

Continue(c, s, t, a) == /\ step' = [step EXCEPT ![c] = s]
                        /\ job' = [job EXCEPT ![c] = t]
                        /\ due' = [due EXCEPT ![c] = a]

(* An unassign_task call on t has started and not yet returned, or not     *)
(* even released the slot.                                                 *)
Moving(t) == \E c \in Callers : step[c] \in {"lookup", "forget"} /\ job[c] = t
Looking(t) == \E c \in Callers : step[c] = "lookup" /\ job[c] = t

(* Whose slots are mixed up if t is assigned to agent a now: a's, since    *)
(* the running unassign_task will take a's record away, and the previous   *)
(* assignee's, if the slot to release is still to be looked up.            *)
MixedUp(t, a) == {b \in Agents : \/ b = a /\ Moving(t)
                                 \/ b = assignment[t] /\ Looking(t)}

-----------------------------------------------------------------------------
(* Calls that return an error or AlreadyInState change nothing: they are   *)
(* stuttering steps and need no action.                                    *)

(* register_task                                                           *)
RegisterTask(c, t) ==
    /\ step[c] = "none"
    /\ status[t] = "Absent"
    /\ status' = [status EXCEPT ![t] = "Pending"]
    /\ UNCHANGED <<assignedTo, assignment, load, crossed, call>>

(* assign_task: only a Pending task; the three maps in one step.           *)
AssignTask(c, t, a) ==
    /\ step[c] = "none"
    /\ status[t] = "Pending"
    /\ load[a] < MaxLoad
    /\ status' = [status EXCEPT ![t] = "InProgress"]
    /\ assignedTo' = [assignedTo EXCEPT ![t] = a]
    /\ assignment' = [assignment EXCEPT ![t] = a]
    /\ load' = [load EXCEPT ![a] = @ + 1]
    /\ crossed' = crossed \cup MixedUp(t, a)
    /\ UNCHANGED call

(* Mutant: Completed -> Failed is allowed and releases the slot again.     *)
FinishTaskAgain(c, t, final) ==
    /\ step[c] = "none"
    /\ status[t] \notin {"Absent", final}
    /\ status' = [status EXCEPT ![t] = final]
    /\ IF assignedTo[t] = NoAgent THEN UNCHANGED call
                                  ELSE Continue(c, "release", t, assignedTo[t])
    /\ UNCHANGED <<assignedTo, assignment, load, crossed>>

(* Mutant: the slot of a task nobody was assigned is released too.         *)
FinishTaskUnassigned(c, t, final) ==
    /\ step[c] = "none"
    /\ status[t] \notin Terminal \cup {"Absent"}
    /\ status' = [status EXCEPT ![t] = final]
    /\ Continue(c, "release", t, assignedTo[t])
    /\ UNCHANGED <<assignedTo, assignment, load, crossed>>

(* complete_task and fail_task, up to the unlock of `tasks': a terminal    *)
(* task is refused, any other takes the status and keeps assigned_to.      *)
FinishTask(c, t, final) ==
    /\ step[c] = "none"
    /\ status[t] \notin Terminal \cup {"Absent"}
    /\ status' = [status EXCEPT ![t] = final]
    /\ IF assignedTo[t] = NoAgent THEN UNCHANGED call
                                  ELSE Continue(c, "release", t, assignedTo[t])
    /\ UNCHANGED <<assignedTo, assignment, load, crossed>>

(* ... and the assignee's slot after it.                                   *)
FinishRelease(c) ==
    /\ step[c] = "release"
    /\ load' = [load EXCEPT ![due[c]] = SatDec(@)]
    /\ Return(c)
    /\ UNCHANGED <<status, assignedTo, assignment, crossed>>

(* Mutant: a finished task is unassigned as well.                          *)
UnassignTaskFinished(c, t) ==
    /\ step[c] = "none"
    /\ status[t] \notin {"Absent", "Pending"}
    /\ status' = [status EXCEPT ![t] = "Pending"]
    /\ assignedTo' = [assignedTo EXCEPT ![t] = NoAgent]
    /\ Continue(c, "lookup", t, NoAgent)
    /\ UNCHANGED <<assignment, load, crossed>>

(* unassign_task, up to the unlock of `tasks': take assigned_to and reset  *)
(* the status; only `was_assigned' is remembered.                          *)
UnassignTask(c, t) ==
    /\ step[c] = "none"
    /\ status[t] = "InProgress"
    /\ status' = [status EXCEPT ![t] = "Pending"]
    /\ assignedTo' = [assignedTo EXCEPT ![t] = NoAgent]
    /\ Continue(c, "lookup", t, NoAgent)
    /\ UNCHANGED <<assignment, load, crossed>>

(* The assignee is looked up again, in `assignments', which stays read-    *)
(* locked while its load is decremented.                                   *)
UnassignRelease(c) ==
    /\ step[c] = "lookup"
    /\ load' = IF assignment[job[c]] = NoAgent THEN load
               ELSE [load EXCEPT ![assignment[job[c]]] = SatDec(@)]
    /\ step' = [step EXCEPT ![c] = "forget"]
    /\ UNCHANGED <<status, assignedTo, assignment, job, due, crossed>>

(* assignments.remove(task_id), whichever record is there by now.          *)
UnassignForget(c) ==
    /\ step[c] = "forget"
    /\ assignment' = [assignment EXCEPT ![job[c]] = NoAgent]
    /\ Return(c)
    /\ UNCHANGED <<status, assignedTo, load, crossed>>

CoordNext ==
    \E c \in Callers :
        \/ FinishRelease(c)
        \/ UnassignRelease(c)
        \/ UnassignForget(c)
        \/ \E t \in Tasks : \/ RegisterTask(c, t)
                            \/ \E a \in Agents : AssignTask(c, t, a)
                            \/ \E final \in Terminal : FinishTask(c, t, final)
                            \/ UnassignTask(c, t)

CoordSpec == CoordInit /\ [][CoordNext]_coordVars

-----------------------------------------------------------------------------
(* The shapes of the maps and of a running call: a call that has to release*)
(* a slot knows whose, one that goes on knows its task.                    *)
CoordTypeOK ==
    /\ status \in [Tasks -> TaskStatus]
    /\ assignedTo \in [Tasks -> Agents \cup {NoAgent}]
    /\ assignment \in [Tasks -> Agents \cup {NoAgent}]
    /\ load \in [Agents -> Nat]
    /\ step \in [Callers -> Steps]
    /\ job \in [Callers -> Tasks \cup {NoTask}]
    /\ due \in [Callers -> Agents \cup {NoAgent}]
    /\ crossed \subseteq Agents
    /\ \A c \in Callers : /\ step[c] = "release" => due[c] \in Agents
                          /\ step[c] # "none" => job[c] \in Tasks

(* The tasks that occupy a slot of agent a: the ones it works on, and the  *)
(* ones whose finishing or unassigning call has yet to give the slot back. *)
WorkingOn(a) == {t \in Tasks : status[t] = "InProgress" /\ assignedTo[t] = a}
Releasing(a) == {c \in Callers : \/ step[c] = "release" /\ due[c] = a
                                 \/ step[c] = "lookup" /\ assignment[job[c]] = a}

(* The load that least_loaded_agent reads is the work the agent has, up to *)
(* the decrements of calls in flight: no double decrement of a task two    *)
(* callers finish, no slot kept by a finished or moved task, and           *)
(* saturating_sub never hides an underflow.  One order of calls breaks the *)
(* count, an assign_task in the middle of an unassign_task of its task,    *)
(* and only for the agents it mixes up: every other agent stays exact,     *)
(* whatever happens to the task afterwards.                                *)
LoadMatchesWork ==
    \A a \in Agents \ crossed :
        load[a] = Cardinality(WorkingOn(a)) + Cardinality(Releasing(a))

(* "Terminal is terminal": a finished task never becomes anything else and *)
(* keeps its assignee as the record of who did the work.                   *)
TerminalIsTerminal ==
    [][\A t \in Tasks : status[t] \in Terminal =>
           status'[t] = status[t] /\ assignedTo'[t] = assignedTo[t]]_coordVars
=============================================================================
