----------------------------- MODULE Transcript -----------------------------
(***************************************************************************)
(* The remembered transcript of one conversation: engine.history[key] of   *)
(* kod-core/src/engine (transcript.rs, agent_loop.rs, render.rs,           *)
(* compaction.rs, plans.rs) with the operations that add rows to it or     *)
(* take rows from it.  A change under one write lock of the map is one     *)
(* step; a compaction plan is made under a read lock and applied later,    *)
(* and a prewalk takes its nudge out and appends its checklist under two   *)
(* locks, so other operations come between.                                *)
(*                                                                         *)
(* A row is reduced to its role, its pin, its size against the budget      *)
(* and, for a tool result, the row whose tool call it answers.  Providers  *)
(* reject a request with a tool result whose calling row is missing.       *)
(***************************************************************************)
EXTENDS Naturals, FiniteSets, Sequences, SequencesExt, FiniteSetsExt

CONSTANTS MaxTurns,   \* MAX_HISTORY_TURNS
          Budget,     \* history_budget(), at least MIN_HISTORY_CHAR_BUDGET
          TurnSizes,  \* sizes of a recorded turn, cut at MAX_TURN_CHARS
          RowSize,    \* size of a row of a tool round
          KeepRecent, \* RECENT_TURNS_TO_KEEP
          MaxCalls,   \* bound: tool calls in a round
          MaxRows     \* bound: rows ever added

ASSUME BoundsAssumption ==
    /\ MaxTurns \in Nat \ {0} /\ Budget \in Nat \ {0} /\ KeepRecent \in Nat \ {0}
    /\ TurnSizes \subseteq Nat \ {0} /\ RowSize \in Nat \ {0}
    /\ MaxCalls \in Nat \ {0} /\ MaxRows \in Nat

VARIABLES history,  \* the rows, oldest first
          rows,     \* the number of rows added so far; ids are 1 .. rows
          planned,  \* rows the summary of a plan in flight covers, 0 if none
          nudge,    \* the nudge row of the armed prewalk, 0 if none
          firing    \* a prewalk that fired owes its checklist

aside == <<planned, nudge, firing>>
vars == <<history, rows, aside>>

(* "user" and "text" (an assistant's text) are turns, "calls" is an        *)
(* assistant row with tool calls, "tool" a result, "note" a row of the     *)
(* engine's own, system or user, that no command pins; "summary" is the    *)
(* user row a compaction leaves for what it dropped.                       *)
Roles == {"user", "text", "calls", "tool", "note", "summary"}

ChatMessage == [id : Nat, role : Roles, of : Nat, size : Nat, pinned : BOOLEAN]

Row(id, role, of, size) ==
    [id |-> id, role |-> role, of |-> of, size |-> size, pinned |-> FALSE]

Summary(id) ==
    [id |-> id, role |-> "summary", of |-> 0, size |-> RowSize, pinned |-> TRUE]

(* build_round_messages: the calls, then one result per call.              *)
Round(id, n) ==
    <<Row(id, "calls", 0, RowSize)>>
        \o [k \in 1 .. n |-> Row(id + k, "tool", id, RowSize)]

Init == history = <<>> /\ rows = 0 /\ planned = 0 /\ nudge = 0 /\ firing = FALSE

-----------------------------------------------------------------------------
(* Vec::retain on the rows at the indices I: the n-th row that stays is    *)
(* the one with n such rows up to it.                                      *)
Rank(I, i) == Cardinality({j \in I : j <= i})
Retain(turns, I) ==
    [n \in 1 .. Cardinality(I) |-> turns[CHOOSE i \in I : Rank(I, i) = n]]

From(turns, i) == SubSeq(turns, i, Len(turns))

(* The rows that answer a call, unbroken from index `start'.               *)
LeadingTools(turns, start) ==
    {i \in start .. Len(turns) : \A j \in start .. i : turns[j].role = "tool"}

(* The oldest `n' rows that are not pinned.                                *)
OldestUnpinned(turns, n) ==
    LET unpinned == {i \in DOMAIN turns : ~turns[i].pinned}
    IN  {i \in unpinned : Cardinality({j \in unpinned : j < i}) < n}

(* Mutant: turns.drain(..excess), which ignores pins.                      *)
cap_drain(turns) ==
    IF Len(turns) <= MaxTurns THEN turns ELSE From(turns, 1 + Len(turns) - MaxTurns)

(* Mutant: without the pair repair.                                        *)
cap_without_repair(turns) ==
    IF Len(turns) <= MaxTurns THEN turns
    ELSE Retain(turns, DOMAIN turns \ OldestUnpinned(turns, Len(turns) - MaxTurns))

(* `keep': all but the oldest unpinned rows down to MaxTurns, and but the  *)
(* tool results the survivors start with.                                  *)
keep(turns) ==
    LET kept == DOMAIN turns \ OldestUnpinned(turns, Len(turns) - MaxTurns)
    IN  kept \ (IF kept = {} THEN {} ELSE LeadingTools(turns, Min(kept)))

cap_transcript(turns) ==
    IF Len(turns) <= MaxTurns THEN turns ELSE Retain(turns, keep(turns))

(* The size of the last n rows, added up from the newest.                  *)
SizeOfLast(turns, n) ==
    LET total[k \in 0 .. Len(turns)] ==
            IF k = 0 THEN 0 ELSE total[k - 1] + turns[Len(turns) + 1 - k].size
    IN  total[n]

(* `cutoff': the longest suffix within the character budget, extended to   *)
(* the earliest pinned row.                                                *)
cutoff(turns) ==
    LET end == Len(turns) + 1
        fits == Min({i \in 1 .. end : SizeOfLast(turns, end - i) <= Budget})
    IN  Min({fits} \cup {i \in 1 .. fits - 1 : turns[i].pinned})

(* What is before it goes, with the tool results it would start with.      *)
trim_to_budget(turns) ==
    LET cut == cutoff(turns)
    IN  IF cut = 1 THEN turns
        ELSE From(turns, cut + Cardinality(LeadingTools(turns, cut)))

-----------------------------------------------------------------------------
(* n rows are added.                                                       *)
Adds(n) == rows + n <= MaxRows /\ rows' = rows + n

(* record_turn_for: a user turn or an assistant's reply.                   *)
RecordTurn(role, size) ==
    /\ Adds(1)
    /\ history' = trim_to_budget(cap_transcript(
                      Append(history, Row(rows + 1, role, 0, size))))
    /\ UNCHANGED aside

(* A round of the agent loop persists its calls and results.               *)
ToolRound(n) ==
    /\ Adds(1 + n)
    /\ history' = cap_transcript(history \o Round(rows + 1, n))
    /\ UNCHANGED aside

(* Mutant: the row keeps the id of the row before it.                      *)
PartialTextSameId(size) ==
    /\ Adds(1)
    /\ history' = Append(history, Row(IF rows = 0 THEN 1 ELSE rows, "text", 0, size))
    /\ UNCHANGED aside

(* The text of a round whose stream broke; pushed without a cap.           *)
PartialText(size) ==
    /\ Adds(1)
    /\ history' = Append(history, Row(rows + 1, "text", 0, size))
    /\ UNCHANGED aside

(* A row of the engine's own at the end; no cap either.                    *)
AppendNote ==
    /\ Adds(1)
    /\ history' = Append(history, Row(rows + 1, "note", 0, RowSize))

(* The todo prelude, the todo reminder, a call rehydrated from the log.    *)
Notice == AppendNote /\ UNCHANGED aside

(* arm_prewalk: the nudge, in place of whatever prewalk was there.         *)
ArmPrewalk == AppendNote /\ nudge' = rows' /\ UNCHANGED <<planned, firing>>

(* maybe_fire_prewalk, on a mutating tool call: the armed prewalk is taken *)
(* and its nudge, wherever it is by now, leaves the transcript; ...        *)
FirePrewalk ==
    /\ nudge # 0 /\ ~firing
    /\ history' = Retain(history, {i \in DOMAIN history : history[i].id # nudge})
    /\ nudge' = 0 /\ firing' = TRUE
    /\ UNCHANGED <<rows, planned>>

(* ... the checklist follows, and a prewalk that is done replaces one      *)
(* armed since.                                                            *)
PushChecklist ==
    /\ firing /\ AppendNote
    /\ nudge' = 0 /\ firing' = FALSE
    /\ UNCHANGED planned

(* /pin and /unpin, offered for user and assistant text.                   *)
set_turn_pinned(i, pin) ==
    /\ history[i].role \in {"user", "text"} /\ history[i].pinned # pin
    /\ history' = [history EXCEPT ![i].pinned = pin]
    /\ UNCHANGED <<rows, aside>>

(* clear_history_for; forget_transcript forgets the prewalk as well.       *)
Clear ==
    /\ history # <<>>
    /\ history' = <<>> /\ (nudge' = nudge \/ nudge' = 0)
    /\ UNCHANGED <<rows, planned, firing>>

(* forget_last_turns_for, and truncate_history_to down to count rows less. *)
ForgetLast(count) ==
    /\ history' = SubSeq(history, 1, Len(history) - count)
    /\ UNCHANGED <<rows, aside>>

(* The first `cut' rows give way to a pinned summary.                      *)
Summarise(cut) ==
    /\ cut > 0 /\ Adds(1)
    /\ history' = <<Summary(rows + 1)>> \o From(history, cut + 1)

(* A cut separates a call from a result that answers it.                   *)
Splits(turns, cut) ==
    \E i \in 1 .. cut, j \in cut + 1 .. Len(turns) :
        turns[j].role = "tool" /\ turns[j].of = turns[i].id

(* The largest cut that keeps KeepRecent rows and splits no pair.          *)
safe_cutoff(turns) ==
    IF Len(turns) <= KeepRecent THEN 0
    ELSE Max({c \in 0 .. Len(turns) - KeepRecent : ~Splits(turns, c)})

(* maybe_compact_for at the hard threshold: the cut is computed again      *)
(* under the write lock.                                                   *)
CompactNow == Summarise(safe_cutoff(history)) /\ UNCHANGED aside

MIN_HANDOFF_MESSAGES == 4

(* try_mechanical_compaction: the handoff rung (and, once it pays, the     *)
(* image rung) summarises the older half, the native rung all of it.       *)
PlanCompaction ==
    /\ planned = 0
    /\ \/ Len(history) >= MIN_HANDOFF_MESSAGES /\ planned' = Len(history) \div 2
       \/ history # <<>> /\ planned' = Len(history)
    /\ UNCHANGED <<history, rows, nudge, firing>>

(* apply_compaction_plan: as many rows go as the plan covered, if there    *)
(* still are that many; nothing happens to an empty transcript, or when    *)
(* the admission guard sees no reduction.                                  *)
ApplyPlan ==
    /\ planned > 0 /\ planned' = 0
    /\ \/ Summarise(Min({planned, Len(history)}))
       \/ UNCHANGED <<history, rows>>
    /\ UNCHANGED <<nudge, firing>>

(* /compact: the last n rows, or everything from the earliest pin.         *)
CompactHistory(n) ==
    /\ Len(history) > n
    /\ Summarise(Min({Len(history) - n}
                     \cup {i - 1 : i \in {j \in 1 .. Len(history) - n : history[j].pinned}}))
    /\ UNCHANGED aside

-----------------------------------------------------------------------------
Pins == \E i \in DOMAIN history, pin \in BOOLEAN : set_turn_pinned(i, pin)

Next == \/ \E role \in {"user", "text"}, size \in TurnSizes : RecordTurn(role, size)
        \/ \E n \in 1 .. MaxCalls : ToolRound(n)
        \/ \E size \in TurnSizes : PartialText(size)
        \/ Notice \/ ArmPrewalk \/ FirePrewalk \/ PushChecklist
        \/ Clear
        \/ \E count \in 1 .. Len(history) : ForgetLast(count)
        \/ Pins
        \/ CompactNow \/ PlanCompaction \/ ApplyPlan
        \/ CompactHistory(KeepRecent)

Spec == Init /\ [][Next]_vars

-----------------------------------------------------------------------------
(* Shapes; no two rows have the same id.                                   *)
TypeOK ==
    /\ rows \in 0 .. MaxRows /\ history \in Seq(ChatMessage)
    /\ planned \in Nat /\ nudge \in 0 .. rows /\ firing \in BOOLEAN
    /\ \A i \in DOMAIN history :
          history[i].id \in 1 .. rows /\ history[i].of \in 0 .. rows
    /\ \A i, j \in DOMAIN history : history[i].id = history[j].id => i = j

(* A tool result whose calling row is not before it.                       *)
Orphan(turns, i) ==
    turns[i].role = "tool" /\ \A j \in 1 .. i - 1 : turns[j].id # turns[i].of

OrphanIds(turns) == {turns[i].id : i \in {j \in DOMAIN turns : Orphan(turns, j)}}

(* Pairs: a result loses its call only behind a pinned row, so that as     *)
(* long as nothing was pinned the caps and their pair repairs keep the     *)
(* shape providers accept, however rounds, turns and notices are mixed;    *)
(* and a compaction at the hard threshold (safe_cutoff) separates none.    *)
PairsKept ==
    [][/\ \A i \in DOMAIN history' :
             Orphan(history', i) =>
                \/ history'[i].id \in OrphanIds(history)
                \/ \E j \in 1 .. i - 1 : history'[j].pinned
       /\ CompactNow => OrphanIds(history') \subseteq OrphanIds(history)]_vars

(* What may drop pinned rows: the compactions of the engine's own, and     *)
(* /delete and /regenerate.                                                *)
Compaction == CompactNow \/ ApplyPlan
Forgets == \E count \in 1 .. Len(history) : ForgetLast(count)

Pinned == {i \in DOMAIN history : history[i].pinned}

(* Rows: the caps, /compact and a prewalk keep a pinned row until it is    *)
(* unpinned, forgotten from the end or the transcript is cleared; and what *)
(* was just added is there after the caps ran, unless the pins fill the    *)
(* transcript: it never forgets the very turn it records.                  *)
RowsKept ==
    [][/\ history' # <<>> /\ ~Compaction /\ ~Forgets =>
             \A i \in Pinned :
                \E j \in DOMAIN history' : history'[j].id = history[i].id
       /\ rows' > rows /\ Cardinality(Pinned) < MaxTurns =>
             \E j \in DOMAIN history' : history'[j].id = rows']_vars
=============================================================================
