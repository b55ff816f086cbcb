---------------------------- MODULE StreamRound ----------------------------
(***************************************************************************)
(* One streaming round of the agent loop (kod-core engine/agent_loop.rs,   *)
(* stream_round), and what becomes of the reads it starts ahead of time.   *)
(*                                                                         *)
(* The loop waits for the next chunk or for a 100 ms timer.  Text chunks   *)
(* are shown to the user; the pieces of each tool call gather in           *)
(* "partials", keyed by the call's index.  As soon as the arguments of a   *)
(* read_file call hold a whole path, a task starts to read that file.      *)
(* Every CheckEvery text chunks a judge is asked whether the answer is     *)
(* complete or off track; off track, the round moves to the fallback       *)
(* endpoint in the middle of the stream.  After the loop the partials      *)
(* become calls, in index order, each with the read made for it;           *)
(* run_tool_calls_with_speculations (tool_dispatch.rs) compares every such *)
(* read with the file, once, and then runs the calls: one by one in their  *)
(* order when one of them changes files, all at once otherwise.            *)
(*                                                                         *)
(* Abstracted: the arguments of a call are two pieces, the path and the    *)
(* closing piece; a file is a content number and a modification time, and  *)
(* other programs may write it at any time, also without changing its      *)
(* time; device, inode and size stay equal, so that the digest matters.    *)
(* Left out: usage and stop-reason chunks (they only fill fields of the    *)
(* outcome), calls that the gate refuses (ToolRound; here they are calls   *)
(* the stream did not name) and the idle timeout: its future is made anew  *)
(* in each iteration of the loop, which lasts at most 100 ms, and its      *)
(* limit is at least 120 s, so that branch is never taken.                 *)
(***************************************************************************)
EXTENDS Naturals, FiniteSets, Sequences

CONSTANTS
    Calls,          \* indexes a stream may give its tool calls (naturals)
    Paths,          \* files
    Rest,           \* the piece that closes the arguments of a call
    NoTool,         \* the name of a call whose start has not arrived
    NoRead,         \* no read was started for a call
    CheckEvery,     \* EARLY_TERM_CHECK_EVERY_CHUNKS
    MinText,        \* EARLY_TERM_MIN_CHARS, counted in chunks
    MaxText,        \* bound: text chunks of the round
    MaxStreams,     \* bound: streams of the round, that is, switches + 1
    MaxWrites       \* bound: writes by other programs

(* A speculative read: its path, and what its task has found out so far    *)
(* (0: nothing yet).                                                       *)
Reads == [path : Paths, mtime : Nat, content : Nat]

ASSUME StreamRoundAssumption ==
    /\ Calls \subseteq Nat
    /\ Rest \notin Paths /\ NoRead \notin Reads
    /\ CheckEvery \in Nat \ {0}
    /\ MinText \in Nat /\ MaxText \in Nat
    /\ MaxStreams \in Nat /\ MaxWrites \in Nat

Tools == {"read_file", "edit_file"}

VARIABLES
    pc,          \* where the round is
    cancelled,   \* the cancel flag of the holder
    hasFallback, \* the chain has a further endpoint
    stream,      \* number of the stream being read
    sent,        \* external: pieces of each call the stream has sent
    text,        \* text chunks accumulated
    chunkCount,  \* text chunks since the stream began
    partials,    \* calls being assembled
    spec,        \* speculation_handles and what their tasks have read
    calls,       \* calls that still wait to be run
    prefetch,    \* calls whose read was found valid
    answer,      \* content that a call read or wrote
    file,        \* the files
    writes       \* writes by other programs so far

vars == <<pc, cancelled, hasFallback, stream, sent, text, chunkCount,
          partials, spec, calls, prefetch, answer, file, writes>>

roundVars == <<text, chunkCount, partials, spec>>
runVars   == <<calls, prefetch, answer>>

Empty == [name |-> NoTool, args |-> <<>>, from |-> {}]

Init ==
    /\ pc = "read"
    /\ cancelled = FALSE
    /\ hasFallback \in BOOLEAN
    /\ stream = 1
    /\ sent = [i \in Calls |-> 0]
    /\ text = 0
    /\ chunkCount = 0
    /\ partials = [i \in Calls |-> Empty]
    /\ spec = [i \in Calls |-> NoRead]
    /\ calls = {}
    /\ prefetch = {}
    /\ answer = [i \in Calls |-> 0]
    /\ file = [p \in Paths |-> [content |-> 1, mtime |-> 1]]
    /\ writes = 0

-----------------------------------------------------------------------------
(* The loop: text.                                                         *)

(* The judge is asked about every CheckEvery-th chunk of a long answer.    *)
Judged == (chunkCount + 1) % CheckEvery = 0 /\ text + 1 >= MinText

(* A text chunk; the judge, if asked, has nothing to say.                  *)
Text ==
    /\ pc = "read"
    /\ text < MaxText
    /\ text' = text + 1
    /\ chunkCount' = chunkCount + 1
    /\ UNCHANGED <<pc, cancelled, hasFallback, stream, sent, partials, spec,
                   file, writes>>
    /\ UNCHANGED runVars

(* The judge finds the answer complete: the loop ends as at its Done.      *)
Complete ==
    /\ pc = "read"
    /\ text < MaxText
    /\ Judged
    /\ text' = text + 1
    /\ chunkCount' = chunkCount + 1
    /\ pc' = "assemble"
    /\ UNCHANGED <<cancelled, hasFallback, stream, sent, partials, spec,
                   file, writes>>
    /\ UNCHANGED runVars

(* Mutant: the partial calls of the abandoned stream are kept.             *)
VoidPartialsKept == partials

(* Switching voids what the abandoned stream had assembled.                *)
VoidPartials == [i \in Calls |-> Empty]

(* The judge finds the answer off track and the fallback endpoint gives a  *)
(* stream: the round goes on with it.                                      *)
Switch ==
    /\ pc = "read"
    /\ text < MaxText
    /\ Judged
    /\ hasFallback
    /\ stream < MaxStreams
    /\ stream' = stream + 1
    /\ sent' = [i \in Calls |-> 0]
    /\ text' = text + 1
    /\ chunkCount' = 0
    /\ partials' = VoidPartials
    /\ spec' = [i \in Calls |-> NoRead]
    /\ UNCHANGED <<pc, cancelled, hasFallback, file, writes>>
    /\ UNCHANGED runVars

(* Off track with no fallback, or one that does not resolve: the round     *)
(* suggests a retry.  In the first round the caller drops its calls; in a  *)
(* later one it runs them.                                                 *)
OffTrack ==
    /\ pc = "read"
    /\ text < MaxText
    /\ Judged
    /\ text' = text + 1
    /\ chunkCount' = chunkCount + 1
    /\ pc' \in {"over", "assemble"}
    /\ UNCHANGED <<cancelled, hasFallback, stream, sent, partials, spec,
                   file, writes>>
    /\ UNCHANGED runVars

-----------------------------------------------------------------------------
(* The loop: tool calls.                                                   *)

(* The start of a call: the first name given to an index is kept.          *)
ToolCallStart(i, tool) ==
    /\ pc = "read"
    /\ sent[i] = 0
    /\ sent' = [sent EXCEPT ![i] = 1]
    /\ partials' =
          [partials EXCEPT
              ![i].name = IF @ = NoTool THEN tool ELSE @,
              ![i].from = @ \union {stream}]
    /\ UNCHANGED <<pc, cancelled, hasFallback, stream, text, chunkCount,
                   spec, file, writes>>
    /\ UNCHANGED runVars

(* extract_path_from_partial: the first whole path of the arguments.       *)
PathsOf(args) == {k \in DOMAIN args : args[k] \in Paths}
FirstPath(args) == args[CHOOSE k \in PathsOf(args) :
                           \A j \in PathsOf(args) : k <= j]

(* A read may be started: the call is a read, its path is there, and no    *)
(* read was started for its index.                                         *)
Candidate(i, name, args) ==
    name = "read_file" /\ spec[i] = NoRead /\ PathsOf(args) # {}

(* A piece of the arguments.  The read is started unless the path is       *)
(* refused, is missing, or speculation is off.                             *)
ToolCallDelta(i, piece) ==
    /\ pc = "read"
    /\ \/ sent[i] = 1 /\ piece \in Paths
       \/ sent[i] = 2 /\ piece = Rest
    /\ sent' = [sent EXCEPT ![i] = @ + 1]
    /\ LET args == Append(partials[i].args, piece) IN
       /\ partials' = [partials EXCEPT ![i].args = args,
                                       ![i].from = @ \union {stream}]
       /\ \/ UNCHANGED spec
          \/ /\ Candidate(i, partials[i].name, args)
             /\ spec' = [spec EXCEPT
                   ![i] = [path    |-> FirstPath(args),
                           mtime   |-> 0,
                           content |-> 0]]
    /\ UNCHANGED <<pc, cancelled, hasFallback, stream, text, chunkCount,
                   file, writes>>
    /\ UNCHANGED runVars

(* The arguments of a call pass MAX_TOOL_ARGS_BYTES: the round fails, and  *)
(* none of its calls is run.                                               *)
TooLong ==
    /\ pc = "read"
    /\ \E i \in Calls : sent[i] \in {1, 2}
    /\ pc' = "over"
    /\ UNCHANGED <<cancelled, hasFallback, stream, sent, file, writes>>
    /\ UNCHANGED roundVars
    /\ UNCHANGED runVars

(* The task of a speculative read: first the file's metadata ...           *)
SpecStat(i) ==
    /\ spec[i] # NoRead
    /\ spec[i].mtime = 0
    /\ spec' = [spec EXCEPT ![i].mtime = file[spec[i].path].mtime]
    /\ UNCHANGED <<pc, cancelled, hasFallback, stream, sent, text,
                   chunkCount, partials, file, writes>>
    /\ UNCHANGED runVars

(* ... then its bytes, from which the digest is taken too.                 *)
SpecRead(i) ==
    /\ spec[i] # NoRead
    /\ spec[i].mtime # 0
    /\ spec[i].content = 0
    /\ spec' = [spec EXCEPT ![i].content = file[spec[i].path].content]
    /\ UNCHANGED <<pc, cancelled, hasFallback, stream, sent, text,
                   chunkCount, partials, file, writes>>
    /\ UNCHANGED runVars

-----------------------------------------------------------------------------
(* The loop: its ends.                                                     *)

(* Done, or the end of the stream; or an error that is not retryable (a    *)
(* rule of the TTSR engine that interrupts is one of them): the calls      *)
(* assembled so far will be run.                                           *)
StreamEnds ==
    /\ pc = "read"
    /\ pc' = "assemble"
    /\ UNCHANGED <<cancelled, hasFallback, stream, sent, file, writes>>
    /\ UNCHANGED roundVars
    /\ UNCHANGED runVars

(* An error that is retryable: the chain may drive the turn again, so the  *)
(* calls are dropped.                                                      *)
StreamFails ==
    /\ pc = "read"
    /\ pc' = "over"
    /\ UNCHANGED <<cancelled, hasFallback, stream, sent, file, writes>>
    /\ UNCHANGED roundVars
    /\ UNCHANGED runVars

Cancel ==
    /\ ~cancelled
    /\ cancelled' = TRUE
    /\ UNCHANGED <<pc, hasFallback, stream, sent, file, writes>>
    /\ UNCHANGED roundVars
    /\ UNCHANGED runVars

(* Mutant: the timer only restarts the loop; cancel is for the caller.     *)
SeesCancelNever == FALSE

(* What the timer looks at.                                                *)
SeesCancel == cancelled

(* 100 ms without a chunk: a cancelled round fails, any other goes on to   *)
(* wait (a step that changes nothing).                                     *)
Poll ==
    /\ pc = "read"
    /\ SeesCancel
    /\ pc' = "over"
    /\ UNCHANGED <<cancelled, hasFallback, stream, sent, file, writes>>
    /\ UNCHANGED roundVars
    /\ UNCHANGED runVars

-----------------------------------------------------------------------------
(* After the loop.                                                         *)

(* The indexes that have a name become calls, once the read of each of     *)
(* them has ended.                                                         *)
Assemble ==
    /\ pc = "assemble"
    /\ LET named == {i \in Calls : partials[i].name # NoTool} IN
       /\ \A i \in named : spec[i] # NoRead => spec[i].content # 0
       /\ calls' = named
       /\ pc' = IF named = {} THEN "over" ELSE "dispatch"
    /\ UNCHANGED <<cancelled, hasFallback, stream, sent, prefetch, answer,
                   file, writes>>
    /\ UNCHANGED roundVars

(* The arguments parse when they are a path and the closing piece; the     *)
(* arguments of any other call become null, and it fails without touching  *)
(* a file.                                                                 *)
Parses(i) ==
    /\ Len(partials[i].args) = 2
    /\ partials[i].args[1] \in Paths
    /\ partials[i].args[2] = Rest

PathOf(i) == partials[i].args[1]

(* Mutant: metadata only.                                                  *)
ValidByTime(i) == spec[i].mtime = file[spec[i].path].mtime

(* speculation.rs, validate: the metadata and then the digest agree with   *)
(* the file as it is now.                                                  *)
Valid(i) ==
    /\ spec[i].mtime = file[spec[i].path].mtime
    /\ spec[i].content = file[spec[i].path].content

(* Every read is compared with its file once, before any call is run.      *)
Validate ==
    /\ pc = "dispatch"
    /\ prefetch' = {i \in calls : spec[i] # NoRead /\ Valid(i)}
    /\ pc' = "run"
    /\ UNCHANGED <<cancelled, hasFallback, stream, sent, calls, answer,
                   file, writes>>
    /\ UNCHANGED roundVars

(* Calls run in their order when one of them may change a file.            *)
Serial ==
    \E i \in Calls : partials[i].name = "edit_file"

MayRun(i) ==
    /\ pc = "run"
    /\ i \in calls
    /\ Serial => \A j \in calls : i <= j

Finished(i) ==
    /\ calls' = calls \ {i}
    /\ pc' = IF calls' = {} THEN "over" ELSE "run"
    /\ UNCHANGED <<cancelled, hasFallback, stream, sent, prefetch, writes>>
    /\ UNCHANGED roundVars

(* read_file: the bytes read ahead when they are for the call's path, the  *)
(* file's otherwise.                                                       *)
RunRead(i) ==
    /\ MayRun(i)
    /\ partials[i].name = "read_file"
    /\ Parses(i)
    /\ answer' = [answer EXCEPT ![i] =
          IF i \in prefetch /\ spec[i].path = PathOf(i)
          THEN spec[i].content
          ELSE file[PathOf(i)].content]
    /\ Finished(i)
    /\ UNCHANGED file

(* A file-changing tool writes a new content, at a new time.               *)
RunEdit(i) ==
    /\ MayRun(i)
    /\ partials[i].name = "edit_file"
    /\ Parses(i)
    /\ file' = [file EXCEPT ![PathOf(i)] =
          [content |-> @.content + 1, mtime |-> @.mtime + 1]]
    /\ answer' = [answer EXCEPT ![i] = file'[PathOf(i)].content]
    /\ Finished(i)

(* A call without arguments fails.                                         *)
RunNull(i) ==
    /\ MayRun(i)
    /\ ~Parses(i)
    /\ Finished(i)
    /\ UNCHANGED <<answer, file>>

(* External: another program writes a file; it may set its time back.      *)
Write(p) ==
    /\ pc # "over"
    /\ writes < MaxWrites
    /\ writes' = writes + 1
    /\ \E keeps \in {0, 1} :
          file' = [file EXCEPT ![p] =
             [content |-> @.content + 1, mtime |-> @.mtime + keeps]]
    /\ UNCHANGED <<pc, cancelled, hasFallback, stream, sent>>
    /\ UNCHANGED roundVars
    /\ UNCHANGED runVars

Next ==
    \/ Text \/ Complete \/ Switch \/ OffTrack
    \/ \E i \in Calls, tool \in Tools : ToolCallStart(i, tool)
    \/ \E i \in Calls, piece \in Paths \union {Rest} : ToolCallDelta(i, piece)
    \/ TooLong
    \/ \E i \in Calls : SpecStat(i) \/ SpecRead(i)
    \/ StreamEnds \/ StreamFails
    \/ Cancel \/ Poll
    \/ Assemble \/ Validate
    \/ \E i \in Calls : RunRead(i) \/ RunEdit(i) \/ RunNull(i)
    \/ \E p \in Paths : Write(p)

(* The timer of the loop fires when no chunk arrives; the reads are tasks  *)
(* of the runtime; what follows the loop runs without waiting for others.  *)
(* Nothing is assumed of the provider: a stream may fall silent for ever.  *)
Fairness ==
    /\ WF_vars(Poll)
    /\ WF_vars(Assemble)
    /\ WF_vars(Validate)
    /\ \A i \in Calls :
          /\ WF_vars(SpecStat(i))
          /\ WF_vars(SpecRead(i))
          /\ WF_vars(RunRead(i) \/ RunEdit(i) \/ RunNull(i))

Spec == Init /\ [][Next]_vars /\ Fairness

-----------------------------------------------------------------------------
(* Properties.                                                             *)

(* Every call of a round comes from one stream, the one the round ended    *)
(* on: a mid-stream switch never leaves a name or a piece of arguments of  *)
(* the abandoned stream in a call that is run.                             *)
CallsOfOneStream ==
    \A i \in calls : partials[i].from = {stream}

(* No call answers with a content its file no longer had when the calls    *)
(* of the round began to run, whatever other programs did to the file      *)
(* since the read was started, its modification time included.  Contents   *)
(* count from 1, and no answer is older than that.                         *)
NoStaleAnswer ==
    \A p \in Paths, n \in 2 .. MaxWrites + 1 :
        [](pc = "dispatch" /\ file[p].content = n =>
              [](\A i \in Calls :
                    answer[i] # 0 /\ PathOf(i) = p => answer[i] >= n))

(* A cancelled round does not wait for a provider that fell silent: the    *)
(* loop is left, and the round ends, its assembled calls having been run   *)
(* if the stream ended before the timer saw the flag.                      *)
CancelEnds == cancelled ~> pc = "over"

(* What speculation.rs says of a read made ahead: its evidence is checked  *)
(* again at commit and the read is discarded on any mismatch; so a read    *)
(* answers with what an earlier call of its own round wrote.               *)
ReadsOwnWrites ==
    \A i, j \in Calls :
        /\ j < i
        /\ answer[i] # 0 /\ answer[j] # 0
        /\ partials[j].name = "edit_file"
        /\ partials[i].name = "read_file"
        /\ PathOf(i) = PathOf(j)
        => answer[j] <= answer[i]
=============================================================================
