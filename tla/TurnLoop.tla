------------------------------ MODULE TurnLoop ------------------------------
(***************************************************************************)
(* One streamed turn of the engine: process_streaming_with_model_for       *)
(* (kod-core/src/engine/process.rs) walks the chain of endpoints,          *)
(* run_streaming_loop (agent_loop.rs) drives tool rounds on one of them.   *)
(* A failed attempt is re-driven on the same endpoint after a rate-limit   *)
(* wait, on the next endpoint, or on candidates of the retry config.       *)
(*                                                                         *)
(* The rounds an attempt persists go to the shared transcript (module      *)
(* Transcript) at once; truncate_history_to takes them back before the     *)
(* next attempt.  `messages' is what the provider is sent.                 *)
(***************************************************************************)
EXTENDS Transcript

CONSTANTS Priors,       \* transcripts the turn may find
          Chain,        \* build_streaming_chain: endpoints, no repeats
          Candidates,   \* what the retry config lists for recoverable failures
          Unresolvable, \* endpoints without a provider in the registry
          MaxRounds,    \* MAX_TOOL_ROUNDS
          MaxWaits,     \* MAX_RATE_LIMIT_RETRIES
          MaxSteers     \* bound: steers the user queues

ASSUME ChainAssumption == Chain # <<>> /\ IsInjective(Chain)
ASSUME LimitsAssumption ==
    MaxRounds \in Nat \ {0} /\ MaxWaits \in Nat /\ MaxSteers \in Nat

VARIABLES pc,        \* location
          initial,   \* initial_messages
          base,      \* attempt_history_base
          messages,  \* attempt_messages
          chain,     \* the chain, with the candidates appended so far
          cursor,    \* i: the endpoint being tried
          waits,     \* rate_limit_attempt
          round,     \* round_idx
          err,       \* the error of the attempt that just failed
          steers,    \* queued soft interrupts
          sent,      \* steers the user queued so far
          cancelled, \* the cancel flag of the transcript
          paused     \* the pause gate

walk == <<initial, base, chain, cursor>>
user == <<steers, sent, cancelled, paused>>
tvars == <<vars, pc, walk, messages, waits, round, err, user>>

(* "idle"     no turn runs             "attempt" top of the endpoint walk  *)
(* "drive"    top of the retry loop    "round"   top of a tool round       *)
(* "gate"     at the pause gate        "stream"  stream_round              *)
(* "failed"   the loop returned Err    "accept"  the loop returned Ok      *)

(* A cancel is an InvalidState error: not retryable, and classified as     *)
(* Unknown, which is recoverable.                                          *)
Errors == {"rate_limit", "network", "context_window", "auth", "cancelled"}
is_retryable(e) == e \in {"rate_limit", "network"}
recoverable(e) == e # "auth"

(* What the turns before this one may leave: rows numbered from 1, no tool *)
(* result pinned, and a result behind the calls it answers, or behind      *)
(* other results of theirs.                                                *)
Inherited(h) ==
    /\ h \in Seq(ChatMessage)
    /\ \A i \in DOMAIN h : h[i].id = i /\ h[i].of \in 0 .. Len(h)
    /\ \A i \in DOMAIN h : h[i].pinned => h[i].role # "tool"
    /\ \A i \in DOMAIN h : \A j \in 1 .. i - 1 :
          h[i].role = "tool" /\ h[i].of = j =>
              h[j].role = "calls" /\ \A k \in j + 1 .. i : h[k].role = "tool"

ASSUME PriorsAssumption == \A h \in Priors : Inherited(h)

Plain(id, role) == Row(id, role, 0, 1)

TInit == /\ history \in Priors /\ rows = Len(history)
         /\ planned = 0 /\ nudge = 0 /\ firing = FALSE
         /\ pc = "idle" /\ initial = <<>> /\ base = 0 /\ messages = <<>>
         /\ chain = Chain /\ cursor = 0
         /\ waits = 0 /\ round = 0 /\ err = "none"
         /\ steers = <<>> /\ sent = 0
         /\ cancelled = FALSE /\ paused = FALSE

-----------------------------------------------------------------------------
(* prepare_turn: record the prompt, snapshot the messages; then the chain  *)
(* and the base the attempts are cut back to.                              *)
Prepare ==
    /\ pc = "idle" /\ cursor = 0
    /\ RecordTurn("user", 1)
    /\ initial' = history' /\ base' = Len(history')
    /\ cursor' = 1 /\ pc' = "attempt"
    /\ UNCHANGED <<chain, messages, waits, round, err, user>>

Here == chain[cursor]

(* Mutant: `continue' without advancing the cursor.                        *)
ResolveSpins ==
    /\ pc = "attempt" /\ cursor <= Len(chain) /\ Here \notin Unresolvable
    /\ pc' = "drive" /\ messages' = initial /\ waits' = 0
    /\ UNCHANGED <<vars, walk, round, err, user>>

(* The provider of the endpoint is resolved, or the endpoint is skipped.   *)
Resolve ==
    /\ pc = "attempt" /\ cursor <= Len(chain)
    /\ \/ /\ Here \notin Unresolvable
          /\ pc' = "drive" /\ messages' = initial /\ waits' = 0 /\ UNCHANGED cursor
       \/ /\ Here \in Unresolvable
          /\ cursor' = cursor + 1 /\ UNCHANGED <<pc, messages, waits>>
    /\ UNCHANGED <<vars, initial, base, chain, round, err, user>>

(* No endpoint is left: the last error, or no_provider_error.              *)
WalkEnds ==
    /\ pc = "attempt" /\ cursor > Len(chain)
    /\ pc' = "idle"
    /\ UNCHANGED <<vars, walk, messages, waits, round, err, user>>

(* Mutant: the rounds of the failed attempt stay.                          *)
DriveOnTop ==
    /\ pc = "drive"
    /\ round' = 0 /\ pc' = "round"
    /\ UNCHANGED <<vars, walk, messages, waits, err, user>>

(* truncate_history_to, then run_streaming_loop from round 0.              *)
Drive ==
    /\ pc = "drive"
    /\ history' = IF Len(history) > base THEN SubSeq(history, 1, base) ELSE history
    /\ round' = 0 /\ pc' = "round"
    /\ UNCHANGED <<rows, aside, walk, messages, waits, err, user>>

(* The loop returns an error to the caller.                                *)
Fail(e) == pc' = "failed" /\ err' = e

(* The top of a round: the cancel check ...                                *)
CheckCancel ==
    /\ pc = "round"
    /\ \/ cancelled /\ Fail("cancelled")
       \/ ~cancelled /\ pc' = "gate" /\ UNCHANGED err
    /\ UNCHANGED <<vars, walk, messages, waits, round, user>>

(* apply_steers moves the queue to the end of `msgs'.                      *)
ApplySteers(msgs, first) ==
    /\ steers' = <<>>
    /\ messages' = msgs \o [k \in 1 .. Len(steers) |-> Row(first + k, "user", 0, 1)]
    /\ rows' = first + Len(steers)

(* ... the pause gate, and the steers queued so far.                       *)
PassGate ==
    /\ pc = "gate" /\ ~paused
    /\ ApplySteers(messages, rows)
    /\ pc' = "stream"
    /\ UNCHANGED <<history, aside, walk, waits, round, err, sent, cancelled, paused>>

(* stream_round fails before it delivers anything.                         *)
StreamFails(e) ==
    /\ pc = "stream" /\ (e = "cancelled" => cancelled)
    /\ Fail(e)
    /\ UNCHANGED <<vars, walk, messages, waits, round, user>>

(* The stream breaks after text and perhaps complete calls: the text is    *)
(* kept, and the calls run if the error is not retryable.                  *)
PartialError(e, text, calls) ==
    LET said == IF text THEN <<Plain(rows + 1, "text")>> ELSE <<>>
        done == IF calls /\ ~is_retryable(e) THEN Round(rows + 1 + Len(said), 1) ELSE <<>>
    IN /\ pc = "stream" /\ e # "cancelled" /\ (text \/ calls)
       /\ rows' = rows + Len(said) + Len(done)
       /\ messages' = messages \o said \o done
       /\ history' = IF done = <<>> THEN history \o said
                     ELSE cap_transcript(history \o said \o done)
       /\ Fail(e)
       /\ UNCHANGED <<aside, walk, waits, round, user>>

(* The first round is judged off-track: the next endpoint, if there is one.*)
OffTrack ==
    /\ pc = "stream" /\ round = 0
    /\ \/ cursor < Len(chain) /\ cursor' = cursor + 1 /\ pc' = "attempt"
       \/ cursor = Len(chain) /\ pc' = "accept" /\ UNCHANGED cursor
    /\ UNCHANGED <<vars, initial, base, chain, messages, waits, round, err, user>>

(* The model answers without a tool call.                                  *)
Answer ==
    /\ pc = "stream" /\ pc' = "accept"
    /\ UNCHANGED <<vars, walk, messages, waits, round, err, user>>

(* Mutant: the request gets the calls but not the results.                 *)
RunToolsHalf ==
    /\ pc = "stream"
    /\ history' = cap_transcript(history \o Round(rows + 1, 1))
    /\ ApplySteers(Append(messages, Round(rows + 1, 1)[1]), rows + 2)
    /\ round' = round + 1
    /\ pc' = IF round + 1 = MaxRounds THEN "accept" ELSE "round"
    /\ UNCHANGED <<aside, walk, waits, err, sent, cancelled, paused>>

(* The model calls tools: they run, the round is sent back and persisted,  *)
(* and the steers are applied; the last round ends the loop.               *)
RunTools ==
    /\ pc = "stream"
    /\ history' = cap_transcript(history \o Round(rows + 1, 1))
    /\ ApplySteers(messages \o Round(rows + 1, 1), rows + 2)
    /\ round' = round + 1
    /\ pc' = IF round + 1 = MaxRounds THEN "accept" ELSE "round"
    /\ UNCHANGED <<aside, walk, waits, err, sent, cancelled, paused>>

-----------------------------------------------------------------------------
(* rate_limit_retry_wait: wait and re-drive the same endpoint with the     *)
(* same messages; a cancel during the wait replaces the error.             *)
Wait ==
    /\ pc = "failed" /\ err = "rate_limit" /\ waits < MaxWaits
    /\ \/ waits' = waits + 1 /\ pc' = "drive" /\ UNCHANGED err
       \/ cancelled /\ err' = "cancelled" /\ UNCHANGED <<waits, pc>>
    /\ UNCHANGED <<vars, walk, messages, round, user>>

(* retry_chain_candidates: the ones the chain does not hold.               *)
retry_chain_candidates == SelectSeq(Candidates, LAMBDA e : ~Contains(chain, e))

(* The attempt is given up: next endpoint, more candidates, or the error.  *)
GiveUp ==
    /\ pc = "failed"
    /\ \/ /\ is_retryable(err) /\ cursor < Len(chain)
          /\ cursor' = cursor + 1 /\ pc' = "attempt" /\ UNCHANGED chain
       \/ /\ ~(is_retryable(err) /\ cursor < Len(chain))
          /\ recoverable(err) /\ retry_chain_candidates # <<>>
          /\ chain' = chain \o retry_chain_candidates
          /\ cursor' = cursor + 1 /\ pc' = "attempt"
       \/ /\ ~(is_retryable(err) /\ cursor < Len(chain))
          /\ ~recoverable(err) \/ retry_chain_candidates = <<>>
          /\ pc' = "idle" /\ UNCHANGED <<chain, cursor>>
    /\ UNCHANGED <<vars, initial, base, messages, waits, round, err, user>>

(* The reply is recorded; an empty one is not, and a summary call that     *)
(* fails ends the turn with its error.                                     *)
Accept ==
    /\ pc = "accept" /\ pc' = "idle"
    /\ \/ RecordTurn("text", 1)
       \/ UNCHANGED vars
    /\ UNCHANGED <<walk, messages, waits, round, err, user>>

(* The user queues a steer, cancels, pauses or resumes (the gate is read   *)
(* only where a round waits for it).                                       *)
Steer == /\ pc # "idle" /\ sent < MaxSteers
         /\ sent' = sent + 1 /\ steers' = Append(steers, sent + 1)
         /\ UNCHANGED <<vars, pc, walk, messages, waits, round, err, cancelled, paused>>
Cancel == /\ pc # "idle" /\ ~cancelled /\ cancelled' = TRUE
          /\ UNCHANGED <<vars, pc, walk, messages, waits, round, err, steers, sent, paused>>
Pause == /\ pc = "gate" /\ paused' = ~paused
         /\ UNCHANGED <<vars, pc, walk, messages, waits, round, err, steers, sent, cancelled>>

Engine == \/ Prepare \/ Resolve \/ WalkEnds \/ Drive \/ CheckCancel \/ PassGate
          \/ \E e \in Errors : StreamFails(e)
          \/ \E e \in Errors, text, calls \in BOOLEAN : PartialError(e, text, calls)
          \/ OffTrack \/ Answer \/ RunTools
          \/ Wait \/ GiveUp \/ Accept

TNext == Engine \/ Steer \/ Cancel \/ Pause

TSpec == TInit /\ [][TNext]_tvars

(* The task that runs the turn is polled.  That a stream ends is an        *)
(* assumption: the provider finishes it, the connection breaks, or a       *)
(* cancel is seen by the 100 ms poll, which also re-arms the idle timeout. *)
FairTSpec == TSpec /\ WF_tvars(Engine)

-----------------------------------------------------------------------------
Ids(msgs) == {msgs[k].id : k \in DOMAIN msgs}

Attempting == pc \in {"round", "gate", "stream", "failed", "accept"}

(* The rounds of a dead attempt do not survive it: while an attempt runs,  *)
(* and when it wins, every row of the history is one its endpoint was      *)
(* sent, whatever failed before it and however far it had come.            *)
NoDeadRows == Attempting => Ids(history) \subseteq Ids(messages)

(* Every result follows its call and every call has its result.            *)
Paired(msgs) ==
    /\ OrphanIds(msgs) = {}
    /\ \A k \in DOMAIN msgs : msgs[k].role = "calls" =>
          k < Len(msgs) /\ msgs[k + 1].of = msgs[k].id

(* The transcripts found are, and nothing in them is pinned (behind a pin, *)
(* the caps may leave a result without its call).                          *)
PriorsPaired ==
    \A h \in Priors : Paired(h) /\ \A i \in DOMAIN h : ~h[i].pinned

(* What is sent to a provider is well formed, on every endpoint and every  *)
(* re-drive.                                                               *)
RequestPaired == pc = "stream" => Paired(messages)

(* A turn that starts ends, unless it is parked at the pause gate.         *)
TurnEnds == pc # "idle" ~> (pc = "idle" \/ paused)
=============================================================================
