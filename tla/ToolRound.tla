------------------------------ MODULE ToolRound -----------------------------
(***************************************************************************)
(* kod-core/src/engine/tool_dispatch.rs: one round of tool calls of a      *)
(* transcript, run_tool_calls_with_speculations, and what it shares with   *)
(* the rounds of the other transcripts: the maps of pending approvals and  *)
(* questions (engine/policy.rs), the session deny rules, the taint level,  *)
(* the per-turn tool counts (tool_quota.rs) and the pause gate             *)
(* (pause_gate.rs).                                                        *)
(*                                                                         *)
(* A round: the pause gate, the pre-tool hooks, the policy gate, Jev's     *)
(* automatic approvals, one dialog for all the calls that need a user, the *)
(* ask_user questions, the second gate for edited calls, the dispatch      *)
(* (serial as soon as one call can change something or a hook refused      *)
(* one), and the tail that taints, updates the plan and builds the result  *)
(* of every call.                                                          *)
(*                                                                         *)
(* The dialogs are answered from another task at any time and in any       *)
(* order: an id names a oneshot channel whose sender is in the map and     *)
(* whose receiver is polled by await_decision.                             *)
(***************************************************************************)
EXTENDS Naturals, Sequences, FiniteSets

CONSTANTS Transcripts,
          Session,     \* the transcript of the interactive session
          Batches,     \* transcript -> the batches its model may ask for
          Policies,    \* the policies that may be installed
          NoPolicy,
          PerTurn,     \* the per-turn quota of every tool
          MaxRounds,   \* bound: rounds per transcript
          MaxEvents    \* bound: unusual events (see Unusual)

Kinds == {"web_fetch", "write_file", "ask_user"}
Mutating == {"write_file"}      \* write_files or execute_commands permission
Untrusted == {"web_fetch"}      \* trust level ToolUntrusted
HighImpact == {"write_file"}    \* requires_approval_for_taint's list
Outcomes == {"Allow", "Ask", "Deny"}
Decisions == {"Approve", "ApproveWith", "Deny", "DenyAlways"}
Tables == {"approval", "question"}

ASSUME BatchesAssumption ==
    \A t \in Transcripts : \A b \in Batches[t] : b # <<>> /\ b \in Seq(Kinds)
ASSUME PoliciesAssumption ==
    \A p \in Policies : p = NoPolicy \/ p \in [Kinds -> Outcomes]
ASSUME RoundAssumption == /\ Session \in Transcripts /\ IsFiniteSet(Transcripts)
                          /\ PerTurn \in Nat /\ MaxRounds \in Nat
                          /\ MaxEvents \in Nat

VARIABLES rd,         \* transcript -> its round
          rounds,     \* transcript -> rounds begun
          pending,    \* ids whose sender is in pending_approvals/_questions
          sent,       \* <<id, answer>>: respond_to_* returned true
          orphans,    \* ids whose round was dropped while it waited
          denyRules, learned, tainted, count, paused, cancelled,
          policy,
          down,       \* how far shutdown has come
          events      \* unusual events so far

shared == <<denyRules, learned, tainted, count>>
control == <<paused, cancelled, down>>
vars == <<rd, rounds, pending, sent, orphans, shared, control, policy,
          events>>

(* phase     where the round is                                            *)
(* live      the round streams to a consumer that can answer               *)
(* hooked    the calls a pre-tool hook refused                             *)
(* need      the calls that need the user's approval                       *)
(* req       <<call, id>> of every dialog item and question registered     *)
(* queue     those still awaited, the head being the one that is polled    *)
(* poll      where await_decision is with the head                         *)
(* at        the next call of the serial dispatch                          *)
NewRound == [phase |-> "idle", live |-> FALSE, calls |-> <<>>, hooked |-> {},
             denied |-> {}, need |-> {}, req |-> {},
             queue |-> <<>>, poll |-> "try", edited |-> {},
             answered |-> {}, at |-> 1, started |-> {}, running |-> {}]

Init == /\ rd = [t \in Transcripts |-> NewRound]
        /\ rounds = [t \in Transcripts |-> 0]
        /\ pending = {} /\ sent = {} /\ orphans = {}
        /\ denyRules = {} /\ learned = {} /\ tainted = FALSE
        /\ count = [k \in Kinds |-> 0]
        /\ paused = FALSE /\ cancelled = {} /\ down = "up"
        /\ policy \in Policies
        /\ events = 0

Calls(t) == DOMAIN rd[t].calls
Refused(t) == rd[t].hooked \cup rd[t].denied
Serial(t) == \/ \E i \in Calls(t) : rd[t].calls[i] \in Mutating
             \/ rd[t].hooked # {}
(* next_approval_id and next_question_id give every dialog item and every  *)
(* question an id of its own, in the map of its table.                     *)
Id(table, t, i) == <<table, t, rounds[t], i>>
Waiting(t) == rd[t].queue # <<>>
Head1(t) == rd[t].queue[1]

(* What does not happen in a plain round - a hook that refuses a call, a   *)
(* round without a consumer, an answer found without the user, an edit, a  *)
(* rule, a command of the user, a timeout of an agent - is bounded.        *)
Unusual(n) == events + n <= MaxEvents /\ events' = events + n

-----------------------------------------------------------------------------
(* The top of a turn (process_streaming_for): the caller has cleared the   *)
(* transcript's cancel flag, the taint and the per-turn counts of the      *)
(* whole engine start afresh.                                              *)
BeginTurn(t) ==
    /\ rd[t].phase = "idle" /\ rounds[t] < MaxRounds
    /\ tainted' = FALSE
    /\ count' = [k \in Kinds |-> 0]
    /\ cancelled' = cancelled \ {t}
    /\ UNCHANGED <<rd, rounds, pending, sent, orphans, denyRules, learned,
                   paused, down, policy, events>>

(* The pause gate, then the pre-tool hooks, each call's on its own.        *)
BeginRound(t) ==
    /\ rd[t].phase = "idle" /\ rounds[t] < MaxRounds
    /\ ~paused
    /\ rounds' = [rounds EXCEPT ![t] = @ + 1]
    /\ \E b \in Batches[t], live \in BOOLEAN : \E h \in SUBSET DOMAIN b :
         /\ Unusual(IF live /\ h = {} THEN 0 ELSE 1)
         /\ rd' = [rd EXCEPT ![t] =
                     [NewRound EXCEPT !.phase = "gate", !.live = live,
                                      !.calls = b, !.hooked = h]]
    /\ UNCHANGED <<pending, sent, orphans, shared, control, policy>>

(* PolicyEngine::decide for a call whose arguments match no rule but the   *)
(* one of its tool.                                                        *)
decide(k, rules) == IF policy = NoPolicy THEN "Allow"
                    ELSE IF k \in rules THEN "Deny"
                    ELSE policy[k]

gate_tool_call(k) == IF k \in learned THEN "Allow"
                     ELSE IF tainted /\ k \in HighImpact THEN "Ask"
                     ELSE decide(k, denyRules)

(* gate_tool_calls; then auto_approve_with_jev takes any of the calls that *)
(* need approval out of that set.  Without a consumer the rest is denied.  *)
Gate(t) ==
    /\ rd[t].phase = "gate"
    /\ LET Gated(o) == {i \in Calls(t) : gate_tool_call(rd[t].calls[i]) = o}
       IN  \E auto \in SUBSET Gated("Ask") :
             LET need == Gated("Ask") \ auto
             IN  /\ Unusual(IF auto = {} THEN 0 ELSE 1)
                 /\ rd' = [rd EXCEPT
                      ![t].phase = IF need # {} /\ rd[t].live
                                   THEN "register" ELSE "questions",
                      ![t].need = need,
                      ![t].denied = IF rd[t].live THEN Gated("Deny")
                                    ELSE Gated("Deny") \cup need]
    /\ UNCHANGED <<rounds, pending, sent, orphans, shared, control, policy>>

(* The dialog: every oneshot is registered, in the order of a HashSet,     *)
(* before the one batch marker goes out.                                   *)
Register(t) ==
    /\ rd[t].phase = "register"
    /\ \E i \in rd[t].need \ {r[1] : r \in rd[t].req} :
         LET id == Id("approval", t, i)
             last == Cardinality(rd[t].req) + 1 = Cardinality(rd[t].need)
         IN  /\ pending' = pending \cup {id}
             /\ rd' = [rd EXCEPT ![t].req = @ \cup {<<i, id>>},
                                 ![t].queue = Append(@, <<i, id>>),
                                 ![t].phase = IF last THEN "approvals"
                                              ELSE @]
    /\ UNCHANGED <<rounds, sent, orphans, shared, control, policy, events>>

(* await_decision polls the channel, then the cancel flag, then the clock, *)
(* and sleeps: an answer may come between the poll and the two checks.     *)
Answered(id) == \E s \in sent : s[1] = id

PollEmpty(t) ==
    /\ rd[t].phase \in {"approvals", "questions"} /\ Waiting(t)
    /\ rd[t].poll = "try"
    /\ Head1(t)[2] \in pending /\ ~Answered(Head1(t)[2])
    /\ rd' = [rd EXCEPT ![t].poll = "empty"]
    /\ UNCHANGED <<rounds, pending, sent, orphans, shared, control, policy,
                   events>>

SeeCancel(t) ==
    /\ rd[t].poll = "empty" /\ t \in cancelled
    /\ rd' = [rd EXCEPT ![t].poll = "cancelled"]
    /\ UNCHANGED <<rounds, pending, sent, orphans, shared, control, policy,
                   events>>

(* Mutant: the deadline is only looked at when a cancel is asked for.      *)
SeeDeadlineLate(t) ==
    /\ rd[t].poll = "empty" /\ t \in cancelled
    /\ rd' = [rd EXCEPT ![t].poll = "timedout"]
    /\ UNCHANGED <<rounds, pending, sent, orphans, shared, control, policy,
                   events>>

(* AWAIT_APPROVAL_SECS have passed since this wait began.                  *)
SeeDeadline(t) ==
    /\ rd[t].poll = "empty" /\ t \notin cancelled
    /\ rd' = [rd EXCEPT ![t].poll = "timedout"]
    /\ UNCHANGED <<rounds, pending, sent, orphans, shared, control, policy,
                   events>>

SleepAndRetry(t) ==
    /\ rd[t].poll = "empty" /\ t \notin cancelled
    /\ rd' = [rd EXCEPT ![t].poll = "try"]
    /\ UNCHANGED <<rounds, pending, sent, orphans, shared, control, policy,
                   events>>

(* The wait for the head is over: it was cancelled or timed out, and its   *)
(* receiver is gone; or the poll finds an answer, or no sender any more.   *)
GaveUp == {"cancelled", "timedout"}
Over(t) == /\ Waiting(t)
           /\ \/ rd[t].poll \in GaveUp
              \/ /\ rd[t].poll = "try"
                 /\ Answered(Head1(t)[2]) \/ Head1(t)[2] \notin pending

Answer(t) == IF rd[t].poll = "try" /\ Answered(Head1(t)[2])
             THEN (CHOOSE s \in sent : s[1] = Head1(t)[2])[2]
             ELSE "none"

Always(t, i, a) == IF a = "DenyAlways" THEN {rd[t].calls[i]} ELSE {}

Settled(t) == [rd[t] EXCEPT !.queue = Tail(@), !.poll = "try"]

(* Mutant: the entry is left in the map.                                   *)
SettleApprovalNoEvict(t) ==
    /\ rd[t].phase = "approvals" /\ Over(t)
    /\ LET i == Head1(t)[1]
           a == Answer(t)
       IN  /\ rd' = [rd EXCEPT ![t] =
                [Settled(t) EXCEPT
                   !.phase = IF Len(rd[t].queue) = 1 THEN "questions" ELSE @,
                   !.edited = IF a = "ApproveWith" THEN @ \cup {i} ELSE @,
                   !.denied = IF a \in {"Approve", "ApproveWith"} THEN @
                              ELSE @ \cup {i}]]
           /\ denyRules' = denyRules \cup Always(t, i, a)
    /\ UNCHANGED <<rounds, pending, sent, orphans, learned, tainted, count,
                   control, policy, events>>

(* Mutant: a call nobody answered for is let through.                      *)
SettleApprovalLenient(t) ==
    /\ rd[t].phase = "approvals" /\ Over(t)
    /\ LET i == Head1(t)[1]
           a == Answer(t)
       IN  /\ pending' = pending \ {Head1(t)[2]}
           /\ rd' = [rd EXCEPT ![t] =
                [Settled(t) EXCEPT
                   !.phase = IF Len(rd[t].queue) = 1 THEN "questions" ELSE @,
                   !.edited = IF a = "ApproveWith" THEN @ \cup {i} ELSE @,
                   !.denied = IF a \in {"Deny", "DenyAlways"} THEN @ \cup {i}
                              ELSE @]]
           /\ denyRules' = denyRules \cup Always(t, i, a)
    /\ UNCHANGED <<rounds, sent, orphans, learned, tainted, count, control,
                   policy, events>>

(* The wait is over: the sender is evicted, the decision logged, an edit   *)
(* kept, "always" made a session rule.                                     *)
SettleApproval(t) ==
    /\ rd[t].phase = "approvals" /\ Over(t)
    /\ LET i == Head1(t)[1]
           a == Answer(t)
       IN  /\ pending' = pending \ {Head1(t)[2]}
           /\ rd' = [rd EXCEPT ![t] =
                [Settled(t) EXCEPT
                   !.phase = IF Len(rd[t].queue) = 1 THEN "questions" ELSE @,
                   !.edited = IF a = "ApproveWith" THEN @ \cup {i} ELSE @,
                   !.denied = IF a \in {"Approve", "ApproveWith"} THEN @
                              ELSE @ \cup {i}]]
           /\ denyRules' = denyRules \cup Always(t, i, a)
    /\ UNCHANGED <<rounds, sent, orphans, learned, tainted, count, control,
                   policy, events>>

-----------------------------------------------------------------------------
(* answer_ask_user_calls: every ask_user call of the round, in order,      *)
(* refused or not.                                                         *)
Unanswered(t) == {i \in Calls(t) : /\ rd[t].calls[i] = "ask_user"
                                   /\ i \notin rd[t].answered}
FirstOf(S) == CHOOSE i \in S : \A j \in S : i <= j

(* Answered from the context, or nobody is there to ask.                   *)
AnswerAlone(t) ==
    /\ rd[t].phase = "questions" /\ ~Waiting(t) /\ Unanswered(t) # {}
    /\ Unusual(IF rd[t].live THEN 1 ELSE 0)
    /\ rd' = [rd EXCEPT ![t].answered = @ \cup {FirstOf(Unanswered(t))}]
    /\ UNCHANGED <<rounds, pending, sent, orphans, shared, control, policy>>

Ask(t) ==
    /\ rd[t].phase = "questions" /\ ~Waiting(t) /\ Unanswered(t) # {}
    /\ rd[t].live
    /\ LET i == FirstOf(Unanswered(t))
           id == Id("question", t, i)
       IN  /\ pending' = pending \cup {id}
           /\ rd' = [rd EXCEPT ![t].req = @ \cup {<<i, id>>},
                               ![t].queue = <<<<i, id>>>>]
    /\ UNCHANGED <<rounds, sent, orphans, shared, control, policy, events>>

SettleQuestion(t) ==
    /\ rd[t].phase = "questions" /\ Over(t)
    /\ pending' = pending \ {Head1(t)[2]}
    /\ rd' = [rd EXCEPT ![t] = [Settled(t) EXCEPT
                                  !.answered = @ \cup {Head1(t)[1]}]]
    /\ UNCHANGED <<rounds, sent, orphans, shared, control, policy, events>>

(* The edited calls go through the policy again, not through the taint     *)
(* gate; the new arguments may meet any rule of the policy.                *)
GateEdited(t) ==
    /\ rd[t].phase = "questions" /\ ~Waiting(t) /\ Unanswered(t) = {}
    /\ LET k(i) == rd[t].calls[i]
       IN  \E refused \in SUBSET rd[t].edited :
             /\ policy = NoPolicy => refused = {}
             /\ policy # NoPolicy =>
                  {i \in rd[t].edited : k(i) \in denyRules} \subseteq refused
             /\ rd' = [rd EXCEPT ![t].denied = @ \cup refused,
                                 ![t].phase = IF Serial(t) THEN "serial"
                                              ELSE "parallel"]
    /\ UNCHANGED <<rounds, pending, sent, orphans, shared, control, policy,
                   events>>

-----------------------------------------------------------------------------
(* The serial dispatch: refused calls get their error; the others are      *)
(* checked against the quota, counted, and run one after the other.        *)
SkipRefused(t) ==
    /\ rd[t].phase = "serial" /\ rd[t].running = {}
    /\ rd[t].at \in Refused(t)
    /\ rd' = [rd EXCEPT ![t].at = @ + 1]
    /\ UNCHANGED <<rounds, pending, sent, orphans, shared, control, policy,
                   events>>

(* Mutant: the quota is counted and not enforced.                          *)
CheckQuotaSoft(t) ==
    /\ rd[t].phase = "serial" /\ rd[t].running = {}
    /\ rd[t].at \in Calls(t) \ Refused(t)
    /\ rd' = [rd EXCEPT ![t].phase = "counted"]
    /\ UNCHANGED <<rounds, pending, sent, orphans, shared, control, policy,
                   events>>

CheckQuota(t) ==
    /\ rd[t].phase = "serial" /\ rd[t].running = {}
    /\ rd[t].at \in Calls(t) \ Refused(t)
    /\ rd' = IF PerTurn > 0 /\ count[rd[t].calls[rd[t].at]] >= PerTurn
             THEN [rd EXCEPT ![t].at = @ + 1]
             ELSE [rd EXCEPT ![t].phase = "counted"]
    /\ UNCHANGED <<rounds, pending, sent, orphans, shared, control, policy,
                   events>>

(* record, then the tool runs.                                             *)
Launch(t) ==
    /\ rd[t].phase = "counted"
    /\ count' = [count EXCEPT ![rd[t].calls[rd[t].at]] = @ + 1]
    /\ rd' = [rd EXCEPT ![t].phase = "serial",
                        ![t].started = @ \cup {rd[t].at},
                        ![t].running = {rd[t].at}]
    /\ UNCHANGED <<rounds, pending, sent, orphans, denyRules, learned,
                   tainted, control, policy, events>>

(* The parallel dispatch counts every call of the round, refused or not,   *)
(* and enforces no quota.                                                  *)
LaunchAll(t) ==
    /\ rd[t].phase = "parallel" /\ rd[t].started = {} /\ rd[t].at = 1
    /\ count' = [k \in Kinds |->
                   count[k] + Cardinality({i \in Calls(t) :
                                             rd[t].calls[i] = k})]
    /\ rd' = [rd EXCEPT
                ![t].at = Len(rd[t].calls) + 1,
                ![t].started = Calls(t) \ Refused(t),
                ![t].running = Calls(t) \ Refused(t)]
    /\ UNCHANGED <<rounds, pending, sent, orphans, denyRules, learned,
                   tainted, control, policy, events>>

(* execute_tool returns, with a value or an error.                         *)
ToolEnds(t) ==
    /\ \E i \in rd[t].running :
         rd' = [rd EXCEPT ![t].running = @ \ {i},
                          ![t].at = IF rd[t].phase = "serial" THEN @ + 1
                                    ELSE @]
    /\ UNCHANGED <<rounds, pending, sent, orphans, shared, control, policy,
                   events>>

(* The tail: every call taints, whether it ran or not.  The results, into  *)
(* which the answers to ask_user and plan_update go, leave the round with  *)
(* it; so do its channels.                                                 *)
FinishRound(t) ==
    /\ rd[t].phase \in {"serial", "parallel"} /\ rd[t].running = {}
    /\ rd[t].at > Len(rd[t].calls)
    /\ tainted' = (tainted \/ \E i \in Calls(t) :
                                rd[t].calls[i] \in Untrusted)
    /\ rd' = [rd EXCEPT ![t] = NewRound]
    /\ sent' = {s \in sent : \A q \in rd[t].req : s[1] # q[2]}
    /\ UNCHANGED <<rounds, pending, orphans, denyRules, learned, count,
                   control, policy, events>>

-----------------------------------------------------------------------------
(* A receiver that can still take an answer: registered, and the wait for  *)
(* it has not returned.                                                    *)
Listening(id) ==
    \E t \in Transcripts : \E k \in DOMAIN rd[t].queue :
        /\ rd[t].queue[k][2] = id
        /\ k = 1 => rd[t].poll \notin GaveUp

(* respond_to_approval and respond_to_question: the sender is taken out of *)
(* the map, the answer sent; with no receiver left the caller is told so.  *)
Respond(id, d) ==
    /\ id \in pending
    /\ d \in IF id[1] = "approval" THEN Decisions ELSE {"text"}
    /\ \A t \in Transcripts : rd[t].phase = "register" =>
                                \A r \in rd[t].req : r[2] # id
    /\ Unusual(IF d \in {"ApproveWith", "DenyAlways"} THEN 1 ELSE 0)
    /\ pending' = pending \ {id}
    /\ sent' = IF Listening(id) THEN sent \cup {<<id, d>>} ELSE sent
    /\ UNCHANGED <<rd, rounds, orphans, shared, control, policy>>

Approvals == {id \in pending : id[1] = "approval"}

(* deny_all_pending_approvals, the ACP path for a batch it cannot parse.   *)
DenyAll ==
    /\ Unusual(1)
    /\ Approvals # {}
    /\ pending' = pending \ Approvals
    /\ sent' = sent \cup {<<id, "Deny">> : id \in {a \in Approvals :
                                                     Listening(a)}}
    /\ UNCHANGED <<rd, rounds, orphans, shared, control, policy>>

(* learn_allow, the overlay's "always" action.                             *)
LearnAllow(k) ==
    /\ Unusual(1)
    /\ k \notin learned
    /\ learned' = learned \cup {k}
    /\ UNCHANGED <<rd, rounds, pending, sent, orphans, denyRules, tainted,
                   count, control, policy>>

(* /policy and /trust: forget the learned allows, clear the taint.         *)
ClearLearned ==
    /\ learned # {}
    /\ learned' = {}
    /\ UNCHANGED <<rd, rounds, pending, sent, orphans, denyRules, tainted,
                   count, control, policy, events>>

(* remove_deny_rule: /policy takes a session rule back.                    *)
RemoveDenyRule ==
    /\ \E k \in denyRules : denyRules' = denyRules \ {k}
    /\ UNCHANGED <<rd, rounds, pending, sent, orphans, learned, tainted,
                   count, control, policy, events>>

ClearTaint ==
    /\ tainted
    /\ tainted' = FALSE
    /\ UNCHANGED <<rd, rounds, pending, sent, orphans, denyRules, learned,
                   count, control, policy, events>>

Cancel(t) ==
    /\ Unusual(1)
    /\ t \notin cancelled
    /\ cancelled' = cancelled \cup {t}
    /\ UNCHANGED <<rd, rounds, pending, sent, orphans, shared, paused, down,
                   policy>>

Pause ==
    /\ Unusual(1)
    /\ paused' = TRUE
    /\ UNCHANGED <<rd, rounds, pending, sent, orphans, shared, cancelled,
                   down, policy>>

Resume ==
    /\ paused /\ paused' = FALSE
    /\ UNCHANGED <<rd, rounds, pending, sent, orphans, shared, cancelled,
                   down, policy, events>>

(* A swarm agent's attempt or wave timed out: the future is dropped where  *)
(* it awaits, with its receivers, and the map keeps the senders.           *)
Drop(t) ==
    /\ Unusual(1)
    /\ t # Session /\ rd[t].phase # "idle"
    /\ orphans' = orphans \cup {rd[t].queue[k][2] : k \in DOMAIN rd[t].queue}
    /\ rd' = [rd EXCEPT ![t] = NewRound]
    /\ sent' = {s \in sent : \A q \in rd[t].req : s[1] # q[2]}
    /\ UNCHANGED <<rounds, pending, shared, control, policy>>

(* KodEngine::shutdown: cancel the keys that have an entry and the default *)
(* one; later, after the LSP and MCP servers, drop every pending sender.   *)
ShutdownCancel ==
    /\ Unusual(1)
    /\ down = "up"
    /\ cancelled' = cancelled \cup {Session}
    /\ down' = "stopping"
    /\ UNCHANGED <<rd, rounds, pending, sent, orphans, shared, paused,
                   policy>>

ShutdownClear ==
    /\ down = "stopping"
    /\ pending' = {}
    /\ down' = "down"
    /\ UNCHANGED <<rd, rounds, sent, orphans, shared, paused, cancelled,
                   policy, events>>

-----------------------------------------------------------------------------
Step(t) == \/ Gate(t) \/ Register(t) \/ PollEmpty(t) \/ SeeCancel(t)
           \/ SleepAndRetry(t) \/ SettleApproval(t)
           \/ AnswerAlone(t) \/ Ask(t) \/ SettleQuestion(t) \/ GateEdited(t)
           \/ SkipRefused(t) \/ CheckQuota(t) \/ Launch(t) \/ LaunchAll(t)
           \/ ToolEnds(t) \/ FinishRound(t)

Next == \/ \E t \in Transcripts : \/ BeginTurn(t) \/ BeginRound(t)
                                  \/ Step(t) \/ SeeDeadline(t)
                                  \/ Cancel(t) \/ Drop(t)
        \/ \E id \in pending : \E d \in Decisions \cup {"text"} :
              Respond(id, d)
        \/ \E k \in HighImpact : LearnAllow(k)
        \/ ClearLearned \/ RemoveDenyRule \/ ClearTaint
        \/ DenyAll \/ Pause \/ Resume
        \/ ShutdownCancel \/ ShutdownClear

Spec == Init /\ [][Next]_vars

(* A round's own steps are taken, and a tool returns.  A wait that keeps   *)
(* polling meets its deadline: strong fairness, as a poll and the deadline *)
(* are both disabled while it sleeps.  Nobody has to answer or to cancel.  *)
FairSpec == /\ Spec
            /\ \A t \in Transcripts : /\ WF_vars(Step(t))
                                      /\ SF_vars(SeeDeadline(t))

-----------------------------------------------------------------------------
(* A call runs only with consent: no hook and no gate refused it, and if   *)
(* it needed the user, somebody was there and an approval of that very     *)
(* call was accepted by respond_to_approval - whatever order the answers   *)
(* of two rounds came in, and however they raced the cancel, the deadline  *)
(* or the shutdown.                                                        *)
Approved(id) == \E d \in {"Approve", "ApproveWith"} : <<id, d>> \in sent
Consent ==
    \A t \in Transcripts : \A i \in rd[t].started :
        /\ i \notin Refused(t)
        /\ i \in rd[t].need => rd[t].live /\ Approved(Id("approval", t, i))

(* A sender is in the maps only while its round waits for it, or once the  *)
(* round has been dropped: no answered, cancelled or timed-out dialog      *)
(* leaves its entry behind.                                                *)
NoStalePending ==
    \A id \in pending :
        \/ id \in orphans
        \/ \E t \in Transcripts : \E k \in DOMAIN rd[t].queue :
              rd[t].queue[k][2] = id

(* The quota is checked and counted in two steps that rounds of several    *)
(* transcripts interleave, so a tool that changes something can overrun    *)
(* its per-turn quota, by at most one call per other transcript.           *)
QuotaOverrun ==
    PerTurn > 0 =>
      \A k \in Mutating : count[k] < PerTurn + Cardinality(Transcripts)

(* A round that has begun ends, whether or not anybody answers.            *)
RoundEnds ==
    \A t \in Transcripts : rd[t].phase # "idle" ~> rd[t].phase = "idle"
=============================================================================
