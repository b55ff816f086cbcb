---------------------------- MODULE SessionStore ----------------------------
(***************************************************************************)
(* kod-core-state/src/session_log.rs and state.rs, with their callers in   *)
(* the engine: what a process leaves on disk, and what the next one finds. *)
(*                                                                         *)
(* The session log (KOD_SESSION_LOG) is appended to, one line per write,   *)
(* by every process that is given the same path.  state.json holds the     *)
(* plan and the decision log; it is written whole, to a temporary file     *)
(* that is renamed.  A process may crash anywhere, in the middle of a      *)
(* write too, and another may be running at the same time.                 *)
(***************************************************************************)
EXTENDS Naturals, Sequences, FiniteSets, SequencesExt

CONSTANTS Procs,
          Workers,     \* the tasks of a process that change the state
          Default,     \* DEFAULT_TRANSCRIPT_KEY, ""
          Holders,     \* the holders tool calls run under: "session", ...
          Absent,      \* there is no state.json
          ReadCap,     \* MAX_SESSION_LOG_BYTES, in lines
          MaxWork,     \* bound: lines of the log and changes of plans and
                       \* decisions, together
          MaxFaults    \* bound: failed writes of the log, crashes and exits

ASSUME StoreAssumption == /\ Default \notin Holders /\ ReadCap \in Nat
                          /\ MaxWork \in Nat /\ MaxFaults \in Nat

Tasks == Procs \X Workers
Redaction == <<"redaction", Default>>
Entries == {<<"init", Default>>, <<"exit", Default>>, Redaction}
             \cup {"start", "call"} \X Holders
Bad == <<"bad", Default>>            \* a line that is not JSON
Partial == <<"partial", Default>>    \* a tail that is not JSON
Cut == <<"cut", Default>>            \* a tail that is not even UTF-8
NoTail == <<"none", Default>>
Tails == Entries \cup {NoTail, Partial, Cut}

(* proc    where a process is                                              *)
(* call    the holder of the tool call it runs, Default for none           *)
(* seen    the entries its transcript was rehydrated from                  *)
(* owes    it has written a redacted entry, but not its Redaction line     *)
(* log     the lines of the session log                                    *)
(* tail    what follows the last newline                                   *)
(* mem     proc -> its plan (0: none) and decisions                        *)
(* file    the content of state.json                                       *)
(* task    the persist_state a task is in: its phase, its snapshot, and    *)
(*         what the memory of its process has held since its change        *)
VARIABLES proc, call, seen, owes, log, tail, mem, file, task, ops, faults

journal == <<owes, log, tail>>
store == <<mem, file, task, ops>>
vars == <<proc, call, seen, journal, store, faults>>

Empty == [plan |-> 0, dec |-> {}]
NoTask == [phase |-> "idle", snap |-> Empty, since |-> {}]

Init == /\ proc = [p \in Procs |-> "down"]
        /\ call = [p \in Procs |-> Default]
        /\ seen = [p \in Procs |-> <<>>]
        /\ owes = [p \in Procs |-> FALSE]
        /\ log = <<>> /\ tail = NoTail
        /\ mem = [p \in Procs |-> Empty]
        /\ file = Absent
        /\ task = [t \in Tasks |-> NoTask]
        /\ ops = 0 /\ faults = 0

-----------------------------------------------------------------------------
(* A write of a line and its newline, after whatever is there.             *)
Written(e) == /\ Len(log) + ops < MaxWork
              /\ log' = Append(log, IF tail = NoTail THEN e ELSE Bad)
              /\ tail' = NoTail

(* A write that a crash or an error cuts short: nothing of the line, a     *)
(* part of it, also one that ends inside a character, or all of it but the *)
(* newline.                                                                *)
Torn(e) == /\ tail' \in CASE tail = NoTail -> {NoTail, Partial, Cut, e}
                          [] tail = Cut    -> {Cut}
                          [] OTHER         -> {tail, Partial, Cut}
           /\ UNCHANGED log

Fault == faults < MaxFaults /\ faults' = faults + 1

(* record: one write of the entry; if something in it was redacted - the   *)
(* arguments or the result of a call - the writer's mutex is kept for a    *)
(* second one.  An error of either is only logged by the callers.          *)
Recorded(p, e) ==
    /\ ~owes[p] /\ Written(e)
    /\ \/ e[1] = "call" /\ owes' = [owes EXCEPT ![p] = TRUE]
       \/ UNCHANGED owes

record(p, e) == \/ Recorded(p, e) /\ UNCHANGED faults
                \/ ~owes[p] /\ Torn(e) /\ Fault /\ UNCHANGED owes

RecordRedaction(p) ==
    /\ owes[p] /\ owes' = [owes EXCEPT ![p] = FALSE]
    /\ \/ Written(Redaction) /\ UNCHANGED faults
       \/ Torn(Redaction) /\ Fault
    /\ UNCHANGED <<proc, call, seen, store>>

(* The entry a process that writes now is writing.                         *)
Writing(p) ==
    CASE owes[p] -> {Redaction}
      [] ~owes[p] /\ proc[p] = "rehydrated" -> {<<"init", Default>>}
      [] ~owes[p] /\ proc[p] = "up" ->
            IF call[p] = Default THEN {<<"exit", Default>>} \cup {"start"} \X Holders
                                 ELSE {<<"call", call[p]>>}
      [] OTHER -> {}

TooLong(lines, rest) == Len(lines) + (IF rest = NoTail THEN 0 ELSE 1) > ReadCap

(* Mutant: a partial last line fails the read as any other.                *)
read_session_strict(lines, rest) ==
    IF TooLong(lines, rest) \/ Bad \in Range(lines) \/ rest \in {Partial, Cut}
    THEN <<Bad>>
    ELSE IF rest \in Entries THEN Append(lines, rest)
    ELSE lines

(* read_session: a log that is too long, that is not UTF-8 up to its last  *)
(* byte, or has a malformed line, fails the read, here <<Bad>>; a partial  *)
(* last line is dropped, one that only lacks its newline counts.           *)
read_session(lines, rest) ==
    IF TooLong(lines, rest) \/ Bad \in Range(lines) \/ rest = Cut THEN <<Bad>>
    ELSE IF rest \in Entries THEN Append(lines, rest)
    ELSE lines

Readable(lines, rest) == read_session(lines, rest) # <<Bad>>

(* rehydrate_prose_turns: the completed calls of one holder.               *)
rehydrate_turns(entries, key) ==
    SelectSeq(entries, LAMBDA e : e = <<"call", key>>)

-----------------------------------------------------------------------------
(* The recorder is opened and set_state_store loads the file: no file, or  *)
(* one that cannot be read, is an empty state.                             *)
Open(p) ==
    /\ proc[p] = "down"
    /\ proc' = [proc EXCEPT ![p] = "opened"]
    /\ mem' = [mem EXCEPT ![p] = IF file = Absent THEN Empty ELSE file]
    /\ UNCHANGED <<call, seen, journal, file, task, ops, faults>>

(* start: the transcript of the default key is rehydrated, if the memory   *)
(* has a consolidation interval; a log that cannot be read is none.        *)
Rehydrate(p) ==
    /\ proc[p] = "opened"
    /\ proc' = [proc EXCEPT ![p] = "rehydrated"]
    /\ \E on \in BOOLEAN :
         seen' = [seen EXCEPT ![p] =
                    IF on /\ Readable(log, tail)
                    THEN rehydrate_turns(read_session(log, tail), Default)
                    ELSE <<>>]
    /\ UNCHANGED <<call, journal, store, faults>>

(* ... and then the SessionInit is recorded.                               *)
RecordInit(p) ==
    /\ proc[p] = "rehydrated"
    /\ record(p, <<"init", Default>>)
    /\ proc' = [proc EXCEPT ![p] = "up"]
    /\ UNCHANGED <<call, seen, store>>

(* A tool call is started; a call that was refused has no start ...        *)
StartCall(p, h) ==
    /\ proc[p] = "up" /\ call[p] = Default
    /\ call' = [call EXCEPT ![p] = h]
    /\ record(p, <<"start", h>>) \/ UNCHANGED <<journal, faults>>
    /\ UNCHANGED <<proc, seen, store>>

(* ... and at the end of the round every call is recorded.                 *)
EndCall(p) ==
    /\ proc[p] = "up" /\ call[p] # Default
    /\ record(p, <<"call", call[p]>>)
    /\ call' = [call EXCEPT ![p] = Default]
    /\ UNCHANGED <<proc, seen, store>>

Stopped(p) ==
    /\ proc[p] # "down" /\ Fault
    /\ proc' = [proc EXCEPT ![p] = "down"]
    /\ call' = [call EXCEPT ![p] = Default]
    /\ seen' = [seen EXCEPT ![p] = <<>>]
    /\ mem' = [mem EXCEPT ![p] = Empty]
    /\ task' = [t \in Tasks |-> IF t[1] = p THEN NoTask ELSE task[t]]
    /\ UNCHANGED <<file, ops>>

(* shutdown records the exit and saves nothing else.                       *)
Shutdown(p) == proc[p] = "up" /\ Stopped(p) /\ Recorded(p, <<"exit", Default>>)

(* A crash may fall into the middle of a write; a shutdown whose write     *)
(* fails leaves no more than that.                                         *)
Crash(p) == /\ Stopped(p)
            /\ owes' = [owes EXCEPT ![p] = FALSE]
            /\ \/ UNCHANGED <<log, tail>>
               \/ \E e \in Writing(p) : Torn(e)

-----------------------------------------------------------------------------
(* The calls that change the plan or the decisions; all but one go on with *)
(* persist_state.                                                          *)
Busy(t) == task[t].phase # "idle"

Change(t, m) ==
    /\ proc[t[1]] = "up" /\ ~Busy(t)
    /\ Len(log) + ops < MaxWork /\ ops' = ops + 1
    /\ mem' = [mem EXCEPT ![t[1]] = m]

(* Every persist_state of the process that is under way sees the memory    *)
(* change.                                                                 *)
Noted(t) == [u \in Tasks |->
               IF Busy(u) /\ u[1] = t[1]
               THEN [task[u] EXCEPT !.since = @ \cup {mem'[t[1]]}] ELSE task[u]]

Persist(t) ==
    /\ task' = [Noted(t) EXCEPT ![t] =
                  [phase |-> "plans", snap |-> Empty, since |-> {mem'[t[1]]}]]
    /\ UNCHANGED <<proc, call, seen, journal, file, faults>>

(* A value that was never there before: a plan, a step taken, a decision.  *)
Fresh == ops + 1

set_plan(t) ==
    Change(t, [mem[t[1]] EXCEPT !.plan = Fresh]) /\ Persist(t)

clear_plan(t) == Change(t, [mem[t[1]] EXCEPT !.plan = 0]) /\ Persist(t)

add_decision(t) ==
    Change(t, [mem[t[1]] EXCEPT !.dec = @ \cup {Fresh}]) /\ Persist(t)

(* drop_decision persists when there was something to drop.                *)
drop_decision(t) ==
    \E d \in mem[t[1]].dec :
        Change(t, [mem[t[1]] EXCEPT !.dec = @ \ {d}]) /\ Persist(t)

set_decision_log(t) ==
    Change(t, [mem[t[1]] EXCEPT !.dec = {}]) /\ Persist(t)

(* The plan_update tool and the /plan commands change the plan in memory.  *)
apply_plan_update(t) ==
    /\ mem[t[1]].plan # 0
    /\ Change(t, [mem[t[1]] EXCEPT !.plan = Fresh])
    /\ task' = Noted(t)
    /\ UNCHANGED <<proc, call, seen, journal, file, faults>>

(* persist_state: clone the plans, clone the decisions, each under a lock  *)
(* of its own ...                                                          *)
ClonePlans(t) ==
    /\ task[t].phase = "plans"
    /\ task' = [task EXCEPT ![t].phase = "logs",
                            ![t].snap.plan = mem[t[1]].plan]
    /\ UNCHANGED <<proc, call, seen, journal, mem, file, ops, faults>>

(* Mutant: the decisions are left out of the saved state.                  *)
CloneLogsNone(t) ==
    /\ task[t].phase = "logs"
    /\ task' = [task EXCEPT ![t].phase = "write"]
    /\ UNCHANGED <<proc, call, seen, journal, mem, file, ops, faults>>

CloneLogs(t) ==
    /\ task[t].phase = "logs"
    /\ task' = [task EXCEPT ![t].phase = "write",
                            ![t].snap.dec = mem[t[1]].dec]
    /\ UNCHANGED <<proc, call, seen, journal, mem, file, ops, faults>>

(* Mutant: save opens the state file itself and writes it piece by piece.  *)
WriteInPlace(t) ==
    /\ task[t].phase = "write"
    /\ task' = [task EXCEPT ![t].phase = "rename"]
    /\ file' = [plan |-> task[t].snap.plan]
    /\ UNCHANGED <<proc, call, seen, journal, mem, ops, faults>>

(* ... write them to a temporary file of its own ...                       *)
WriteTemp(t) ==
    /\ task[t].phase = "write"
    /\ task' = [task EXCEPT ![t].phase = "rename"]
    /\ UNCHANGED <<proc, call, seen, journal, mem, file, ops, faults>>

(* ... and rename it over state.json.                                      *)
Rename(t) ==
    /\ task[t].phase = "rename"
    /\ file' = task[t].snap
    /\ task' = [task EXCEPT ![t] = NoTask]
    /\ UNCHANGED <<proc, call, seen, journal, mem, ops, faults>>

(* A write or a rename that fails is logged, and that is all.              *)
SaveFails(t) ==
    /\ task[t].phase \in {"write", "rename"}
    /\ task' = [task EXCEPT ![t] = NoTask]
    /\ UNCHANGED <<proc, call, seen, journal, mem, file, ops, faults>>

-----------------------------------------------------------------------------
Next == \/ \E p \in Procs : \/ Open(p) \/ Rehydrate(p) \/ RecordInit(p)
                            \/ \E h \in Holders : StartCall(p, h)
                            \/ EndCall(p) \/ RecordRedaction(p)
                            \/ Shutdown(p) \/ Crash(p)
        \/ \E t \in Tasks : \/ set_plan(t) \/ clear_plan(t)
                            \/ add_decision(t) \/ drop_decision(t)
                            \/ set_decision_log(t) \/ apply_plan_update(t)
                            \/ ClonePlans(t) \/ CloneLogs(t)
                            \/ WriteTemp(t) \/ Rename(t) \/ SaveFails(t)

Spec == Init /\ [][Next]_vars

-----------------------------------------------------------------------------
States == [plan : 0..MaxWork, dec : SUBSET (1..MaxWork)]

(* Types; and state.json is a whole state at every moment, whoever crashes *)
(* while it saves.                                                         *)
TypeOK ==
    /\ proc \in [Procs -> {"down", "opened", "rehydrated", "up"}]
    /\ call \in [Procs -> Holders \cup {Default}]
    /\ owes \in [Procs -> BOOLEAN]
    /\ log \in Seq(Entries \cup {Bad}) /\ tail \in Tails
    /\ mem \in [Procs -> States]
    /\ file \in States \cup {Absent}
    /\ \A t \in Tasks :
         /\ task[t].phase \in {"idle", "plans", "logs", "write", "rename"}
         /\ task[t].snap \in States
         /\ Busy(t) => proc[t[1]] = "up"

(* The writes that spoil what a reader can find: behind a line that has no *)
(* newline, one that is cut off inside a character, and one that takes the *)
(* log over the length read_session refuses.                               *)
Spoils == \/ tail # NoTail /\ <<log, tail>>' # <<log, tail>>
          \/ tail' = Cut
          \/ TooLong(log', tail')

(* What read_session returned before a step it still returns after it,     *)
(* with the entry the step recorded at the end - in any order of records,  *)
(* Redaction lines, failed writes, crashes within a write and restarts -   *)
(* unless the step spoils the log.                                         *)
LogKeeps ==
    [][Readable(log, tail) /\ ~Spoils
       => /\ Readable(log', tail')
          /\ IsPrefix(read_session(log, tail), read_session(log', tail'))
          /\ log' # log => Last(read_session(log', tail')) = Last(log')]_vars

(* A save that succeeds puts on disk a plan and decisions no older than    *)
(* the change it was made for: each is what the memory of its process held *)
(* at that change or after it.  (A save that fails puts nothing there: the *)
(* code logs it and goes on.)                                              *)
SaveHoldsItsChange ==
    [][\A t \in Tasks : Rename(t) =>
         /\ file'.plan \in {m.plan : m \in task[t].since}
         /\ file'.dec \in {m.dec : m \in task[t].since}]_vars
=============================================================================
