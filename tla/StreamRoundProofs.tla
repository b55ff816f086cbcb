------------------------- MODULE StreamRoundProofs --------------------------
(***************************************************************************)
(* Proofs about the streaming round, for any number of calls, files,       *)
(* streams, chunks and writes: a call that is run comes from one stream,   *)
(* and no call answers with a content older than the one its file had when *)
(* the calls of the round began to run.                                    *)
(***************************************************************************)
EXTENDS StreamRound, WellFoundedInduction, TLAPS

-----------------------------------------------------------------------------
Pieces == Paths \union {Rest}
Names == Tools \union {NoTool}

(* What is assembled came from the stream being read: a switch leaves      *)
(* nothing of the stream before it.                                        *)
Partials == [name : Names, args : Seq(Pieces), from : SUBSET {stream}]

Contents == Nat \ {0}
Files == [content : Contents, mtime : Contents]

Shapes ==
    /\ pc \in {"read", "assemble", "dispatch", "run", "over"}
    /\ partials \in [Calls -> Partials]
    /\ spec \in [Calls -> {NoRead} \union Reads]
    /\ calls \subseteq Calls /\ prefetch \subseteq Calls
    /\ answer \in [Calls -> Nat]
    /\ file \in [Paths -> Files]

(* A name comes with the stream that gave it.                              *)
Sourced == \A i \in Calls : partials[i].name # NoTool => partials[i].from # {}

(* Only named calls are run; none before the loop has ended, and none has  *)
(* an answer or an accepted read before all reads are compared.            *)
NotYet ==
    /\ \A i \in calls : partials[i].name # NoTool
    /\ pc \in {"read", "assemble"} => calls = {}
    /\ pc \in {"read", "assemble", "dispatch"} =>
          prefetch = {} /\ \A i \in Calls : answer[i] = 0
    /\ \A i \in prefetch : spec[i] # NoRead

RoundInv == Shapes /\ Sourced /\ NotYet

(* Before the first chunk nothing is assembled.                            *)
LEMMA RoundInit == Init => RoundInv
<1> SUFFICES ASSUME Init PROVE RoundInv
    OBVIOUS
<1>1. Empty \in Partials
      BY DEF Empty, Partials, Names
<1>2. Shapes
      BY <1>1 DEF Init, Shapes, Files, Contents
<1>3. Sourced /\ NotYet
      BY DEF Init, Sourced, NotYet, Empty
<1> QED BY <1>2, <1>3 DEF RoundInv

(* A non-empty set of naturals has a least element.                        *)
LEMMA LeastPlace ==
    ASSUME NEW S \in SUBSET Nat, S # {}
    PROVE  \E j \in S : \A k \in S : j <= k
<1> DEFINE R == OpToRel(<, Nat)
<1>1. IsWellFoundedOn(R, Nat)
      BY NatLessThanWellFounded
<1>2. \A x, y \in Nat : x < y => <<x, y>> \in R
      BY DEF OpToRel
<1> HIDE DEF R
<1>3. PICK j \in S : \A k \in S : ~(<<k, j>> \in R)
      BY <1>1, WFMin
<1>4. ASSUME NEW k \in S PROVE j <= k
  <2>1. k \in Nat /\ j \in Nat /\ <<k, j>> \notin R
        BY <1>3
  <2>2. ~(k < j)
        BY <1>2, <2>1
  <2> QED BY <2>1, <2>2
<1> QED BY <1>4

(* The path that extract_path_from_partial finds is one.                   *)
LEMMA FoundIsPath ==
    ASSUME NEW args \in Seq(Pieces), PathsOf(args) # {}
    PROVE  FirstPath(args) \in Paths
<1>1. PathsOf(args) \in SUBSET Nat
      BY DEF PathsOf
<1>2. \E k \in PathsOf(args) : \A j \in PathsOf(args) : k <= j
      BY <1>1, LeastPlace
<1>3. PICK k \in PathsOf(args) : FirstPath(args) = args[k]
      BY <1>2 DEF FirstPath
<1> QED BY <1>3 DEF PathsOf

(* The steps of the loop that neither add to a call nor leave the stream,  *)
(* and the steps of the speculative reads.                                 *)
LEMMA QuietStep ==
    ASSUME RoundInv, UNCHANGED <<stream, partials, calls, prefetch, answer, file>>,
           spec' \in [Calls -> {NoRead} \union Reads],
           \A i \in prefetch : spec'[i] # NoRead,
           pc' # pc => pc = "read" /\ pc' \in {"assemble", "over"}
    PROVE  RoundInv'
BY DEF RoundInv, Shapes, Partials, Sourced, NotYet

(* A switch voids the partials, and the new stream has a new number.       *)
LEMMA SwitchStep == ASSUME RoundInv, Switch PROVE RoundInv'
<1>1. Empty \in Partials'
      BY DEF Empty, Partials, Names
<1>2. Shapes'
      BY <1>1 DEF RoundInv, Shapes, Switch, VoidPartials, runVars
<1>3. Sourced' /\ NotYet'
      BY DEF RoundInv, Shapes, NotYet, Sourced, Switch, VoidPartials, Empty, runVars
<1> QED BY <1>2, <1>3 DEF RoundInv

(* A piece of a call is marked with the stream it comes from.              *)
LEMMA PieceStep ==
    ASSUME RoundInv, pc = "read", NEW i \in Calls, NEW x \in Partials, x.from = {stream},
           partials' = [partials EXCEPT ![i] = x],
           spec' \in [Calls -> {NoRead} \union Reads],
           UNCHANGED <<pc, stream, calls, prefetch, answer, file>>
    PROVE  RoundInv'
<1>1. Partials' = Partials
      BY DEF Partials
<1>2. Shapes'
      BY <1>1 DEF RoundInv, Shapes
<1>3. Sourced'
      BY DEF RoundInv, Shapes, Sourced
<1>4. NotYet'
      BY DEF RoundInv, NotYet
<1> QED BY <1>2, <1>3, <1>4 DEF RoundInv

(* The start of a call, of the stream being read.                          *)
LEMMA StartStep ==
    ASSUME RoundInv, NEW i \in Calls, NEW tool \in Tools, ToolCallStart(i, tool)
    PROVE  RoundInv'
<1> DEFINE x == [partials[i] EXCEPT !.name = IF @ = NoTool THEN tool ELSE @,
                                    !.from = @ \union {stream}]
<1>1. partials[i] \in Partials
      BY DEF RoundInv, Shapes
<1>2. x \in Partials /\ x.from = {stream}
      BY <1>1 DEF Partials, Names
<1>3. partials' = [partials EXCEPT ![i] = x]
      BY DEF ToolCallStart, RoundInv, Shapes
<1>4. pc = "read" /\ UNCHANGED <<pc, stream, spec, calls, prefetch, answer, file>>
      BY DEF ToolCallStart, runVars
<1> HIDE DEF x
<1>5. spec' \in [Calls -> {NoRead} \union Reads]
      BY <1>4 DEF RoundInv, Shapes
<1> QED BY <1>2, <1>3, <1>4, <1>5, PieceStep

(* A piece of arguments; a read that is started has a path.                *)
LEMMA DeltaStep ==
    ASSUME RoundInv, NEW i \in Calls, NEW piece \in Pieces, ToolCallDelta(i, piece)
    PROVE  RoundInv'
<1> DEFINE args == Append(partials[i].args, piece)
           x == [partials[i] EXCEPT !.args = args, !.from = @ \union {stream}]
<1>1. partials[i] \in Partials
      BY DEF RoundInv, Shapes
<1>2. args \in Seq(Pieces)
      BY <1>1 DEF Partials
<1>3. partials' = [partials EXCEPT ![i] = x]
      BY DEF ToolCallDelta, RoundInv, Shapes
<1>4. pc = "read" /\ UNCHANGED <<pc, stream, calls, prefetch, answer, file>>
      BY DEF ToolCallDelta, runVars
<1>5. spec' \in [Calls -> {NoRead} \union Reads]
  <2>1. CASE UNCHANGED spec
        BY <2>1 DEF RoundInv, Shapes
  <2>2. CASE Candidate(i, partials[i].name, args)
             /\ spec' = [spec EXCEPT ![i] = [path |-> FirstPath(args), mtime |-> 0,
                                            content |-> 0]]
    <3>1. FirstPath(args) \in Paths
          BY <1>2, <2>2, FoundIsPath DEF Candidate
    <3> HIDE DEF args
    <3> QED BY <2>2, <3>1 DEF RoundInv, Shapes, Reads
  <2> QED BY <2>1, <2>2 DEF ToolCallDelta
<1> HIDE DEF args
<1>6. x \in Partials /\ x.from = {stream}
      BY <1>1, <1>2 DEF Partials
<1> HIDE DEF x
<1> QED BY <1>3, <1>4, <1>5, <1>6, PieceStep

(* The named partials become calls.                                        *)
LEMMA AssembleStep == ASSUME RoundInv, Assemble PROVE RoundInv'
<1>1. /\ calls' = {i \in Calls : partials[i].name # NoTool}
      /\ pc = "assemble" /\ pc' \in {"over", "dispatch"}
      /\ UNCHANGED <<stream, prefetch, answer, file, partials, spec>>
      BY DEF Assemble, roundVars
<1> QED BY <1>1 DEF RoundInv, Shapes, Partials, Sourced, NotYet

(* The accepted reads are reads of calls of the round.                     *)
LEMMA ValidateStep == ASSUME RoundInv, Validate PROVE RoundInv'
<1>1. /\ prefetch' \subseteq calls /\ pc' = "run"
      /\ \A i \in prefetch' : spec[i] # NoRead
      /\ UNCHANGED <<stream, calls, answer, file, partials, spec>>
      BY DEF Validate, roundVars
<1> QED BY <1>1 DEF RoundInv, Shapes, Partials, Sourced, NotYet

(* A call is run: what it changes is its answer and the files.             *)
LEMMA RunStep ==
    ASSUME RoundInv, NEW i \in Calls, RunRead(i) \/ RunEdit(i) \/ RunNull(i)
    PROVE  RoundInv'
<1>1. /\ calls' \subseteq calls /\ pc = "run" /\ pc' \in {"run", "over"}
      /\ UNCHANGED <<stream, prefetch, partials, spec>>
      BY DEF RunRead, RunEdit, RunNull, MayRun, Finished, roundVars
<1>2. answer' \in [Calls -> Nat] /\ file' \in [Paths -> Files]
  <2>1. CASE RunRead(i)
    <3>1. PathOf(i) \in Paths /\ file[PathOf(i)].content \in Nat
          BY <2>1 DEF RunRead, Parses, PathOf, RoundInv, Shapes, Files, Contents
    <3>2. file' = file /\ answer' \in [Calls -> Nat]
      <4>1. i \in prefetch => spec[i].content \in Nat
            BY DEF RoundInv, Shapes, NotYet, Reads
      <4> QED BY <2>1, <3>1, <4>1 DEF RunRead, RoundInv, Shapes
    <3> QED BY <3>2 DEF RoundInv, Shapes
  <2>2. CASE RunEdit(i)
    <3> DEFINE c == file[PathOf(i)].content + 1
               m == file[PathOf(i)].mtime + 1
    <3>1. PathOf(i) \in Paths /\ c \in Contents /\ m \in Contents
          BY <2>2 DEF RunEdit, Parses, PathOf, RoundInv, Shapes, Files, Contents
    <3>2. file' = [file EXCEPT ![PathOf(i)] = [content |-> c, mtime |-> m]]
          BY <2>2, <3>1 DEF RunEdit, RoundInv, Shapes
    <3> HIDE DEF c, m
    <3>3. file' \in [Paths -> Files] /\ file'[PathOf(i)].content = c
          BY <3>1, <3>2 DEF RoundInv, Shapes, Files
    <3> QED BY <2>2, <3>1, <3>3 DEF RunEdit, RoundInv, Shapes, Contents
  <2>3. CASE RunNull(i)
        BY <2>3 DEF RunNull, RoundInv, Shapes
  <2> QED BY <2>1, <2>2, <2>3
<1> QED BY <1>1, <1>2 DEF RoundInv, Shapes, Partials, Sourced, NotYet

(* Another program writes: contents and times stay numbers from 1 up.      *)
LEMMA WriteStep ==
    ASSUME RoundInv, NEW p \in Paths, Write(p)
    PROVE  RoundInv'
<1>1. UNCHANGED <<pc, stream, partials, spec, calls, prefetch, answer>>
      BY DEF Write, roundVars, runVars
<1>2. file' \in [Paths -> Files]
  <2>1. PICK keeps \in {0, 1} :
            file' = [file EXCEPT ![p] = [content |-> file[p].content + 1,
                                         mtime |-> file[p].mtime + keeps]]
        BY DEF Write, RoundInv, Shapes
  <2>2. file[p].content + 1 \in Contents /\ file[p].mtime + keeps \in Contents
        BY DEF RoundInv, Shapes, Files, Contents
  <2> QED BY <2>1, <2>2 DEF RoundInv, Shapes, Files
<1> QED BY <1>1, <1>2 DEF RoundInv, Shapes, Partials, Sourced, NotYet

(* The task of a read fills in what it finds, for a read that was started. *)
LEMMA ReadStep ==
    ASSUME RoundInv, NEW i \in Calls, SpecStat(i) \/ SpecRead(i)
    PROVE  RoundInv'
<1>1. spec[i] \in Reads /\ spec[i].path \in Paths
      BY DEF SpecStat, SpecRead, RoundInv, Shapes, Reads
<1>2. PICK x \in Reads : spec' = [spec EXCEPT ![i] = x]
  <2>1. file[spec[i].path].mtime \in Nat /\ file[spec[i].path].content \in Nat
        BY <1>1 DEF RoundInv, Shapes, Files, Contents
  <2>2. [spec[i] EXCEPT !.mtime = file[spec[i].path].mtime] \in Reads
        BY <1>1, <2>1 DEF Reads
  <2>3. [spec[i] EXCEPT !.content = file[spec[i].path].content] \in Reads
        BY <1>1, <2>1 DEF Reads
  <2>4. \/ spec' = [spec EXCEPT ![i] = [spec[i] EXCEPT !.mtime = file[spec[i].path].mtime]]
        \/ spec' = [spec EXCEPT ![i] = [spec[i] EXCEPT !.content = file[spec[i].path].content]]
        BY DEF SpecStat, SpecRead, RoundInv, Shapes
  <2> QED BY <2>2, <2>3, <2>4
<1>3. /\ spec' \in [Calls -> {NoRead} \union Reads]
      /\ \A k \in prefetch : spec'[k] # NoRead
      BY <1>2, StreamRoundAssumption DEF RoundInv, Shapes, NotYet
<1>4. UNCHANGED <<pc, stream, partials, calls, prefetch, answer, file>>
      BY DEF SpecStat, SpecRead, runVars
<1> QED BY <1>3, <1>4, QuietStep

(* Every step keeps the invariant.                                         *)
LEMMA RoundStep == RoundInv /\ [Next]_vars => RoundInv'
<1> SUFFICES ASSUME RoundInv, [Next]_vars PROVE RoundInv'
    OBVIOUS
<1>q. /\ spec \in [Calls -> {NoRead} \union Reads]
      /\ \A i \in prefetch : spec[i] # NoRead
      BY DEF RoundInv, Shapes, NotYet
<1>1. CASE \/ Text \/ Complete \/ OffTrack \/ TooLong \/ StreamEnds \/ StreamFails
           \/ Cancel \/ Poll
  <2>1. UNCHANGED <<stream, partials, spec, calls, prefetch, answer, file>>
        BY <1>1 DEF Text, Complete, OffTrack, TooLong, StreamEnds, StreamFails, Cancel, Poll,
                    roundVars, runVars
  <2>2. pc' # pc => pc = "read" /\ pc' \in {"assemble", "over"}
        BY <1>1 DEF Text, Complete, OffTrack, TooLong, StreamEnds, StreamFails, Cancel, Poll
  <2> QED BY <1>q, <2>1, <2>2, QuietStep
<1>2. CASE Switch
      BY <1>2, SwitchStep
<1>3. ASSUME NEW i \in Calls, NEW tool \in Tools, ToolCallStart(i, tool) PROVE RoundInv'
      BY <1>3, StartStep
<1>4. ASSUME NEW i \in Calls, NEW piece \in Paths \union {Rest}, ToolCallDelta(i, piece)
      PROVE  RoundInv'
      BY <1>4, DeltaStep DEF Pieces
<1>5. ASSUME NEW i \in Calls, SpecStat(i) \/ SpecRead(i) PROVE RoundInv'
      BY <1>5, ReadStep
<1>6. CASE Assemble
      BY <1>6, AssembleStep
<1>7. CASE Validate
      BY <1>7, ValidateStep
<1>8. ASSUME NEW i \in Calls, RunRead(i) \/ RunEdit(i) \/ RunNull(i) PROVE RoundInv'
      BY <1>8, RunStep
<1>9. ASSUME NEW p \in Paths, Write(p) PROVE RoundInv'
      BY <1>9, WriteStep
<1>10. CASE UNCHANGED vars
  <2>1. UNCHANGED <<pc, stream, partials, spec, calls, prefetch, answer, file>>
        BY <1>10 DEF vars
  <2> QED BY <1>q, <2>1, QuietStep
<1> QED BY <1>1, <1>2, <1>3, <1>4, <1>5, <1>6, <1>7, <1>8, <1>9, <1>10 DEF Next

(* So it holds throughout.                                                 *)
LEMMA RoundInvHolds == Spec => []RoundInv
BY RoundInit, RoundStep, PTL DEF Spec

(* Every call that is run comes from the stream the round ended on         *)
(* (agent_loop.rs, stream_round: the switch voids the partials), however   *)
(* many streams, calls and chunks the round had before.                    *)
THEOREM EveryCallHasOneStream == Spec => []CallsOfOneStream
<1>1. RoundInv => CallsOfOneStream
  <2> SUFFICES ASSUME RoundInv, NEW i \in calls PROVE partials[i].from = {stream}
      BY DEF CallsOfOneStream
  <2>1. partials[i].from \in SUBSET {stream} /\ partials[i].from # {}
        BY DEF RoundInv, Shapes, Partials, Sourced, NotYet
  <2> QED BY <2>1
<1> QED BY <1>1, RoundInvHolds, PTL

-----------------------------------------------------------------------------
(* From the moment the calls of the round are about to run, with content n *)
(* in file p: the file never goes back behind n, no accepted read of p is  *)
(* older and none changes any more, and so no answer of p is.              *)
NoOlder(p, n) ==
    /\ pc \in {"dispatch", "run", "over"}
    /\ pc = "dispatch" => prefetch = {}
    /\ file[p].content >= n
    /\ \A i \in prefetch : spec[i].path = p => spec[i].content >= n /\ spec[i].mtime # 0
    /\ \A i \in Calls : answer[i] # 0 /\ PathOf(i) = p => answer[i] >= n

(* A step that leaves the answers alone and takes nothing from the file.   *)
LEMMA KeepStep ==
    ASSUME NEW p \in Paths, NEW n \in Nat, NoOlder(p, n), RoundInv,
           UNCHANGED <<pc, partials, prefetch, answer>>,
           file'[p].content \in Nat, file'[p].content >= file[p].content,
           \A i \in prefetch : spec[i].path = p => spec'[i] = spec[i],
           \A i \in prefetch : spec'[i].path = spec[i].path
    PROVE  NoOlder(p, n)'
<1>1. file[p].content \in Nat
      BY DEF RoundInv, Shapes, Files, Contents
<1> QED BY <1>1 DEF NoOlder, PathOf

(* A read that has ended is not made again.                                *)
LEMMA ReadsStay ==
    ASSUME NEW p \in Paths, NEW n \in Nat \ {0}, NoOlder(p, n), RoundInv,
           NEW i \in Calls, SpecStat(i) \/ SpecRead(i)
    PROVE  NoOlder(p, n)'
<1>1. /\ UNCHANGED <<pc, partials, prefetch, answer, file>>
      BY DEF SpecStat, SpecRead, runVars
<1>2. \A k \in prefetch : spec'[k].path = spec[k].path
  <2>1. ASSUME NEW k \in prefetch PROVE spec'[k].path = spec[k].path
    <3>1. spec[k] \in Reads /\ k \in Calls
          BY DEF RoundInv, Shapes, NotYet
    <3> QED BY <3>1 DEF SpecStat, SpecRead, RoundInv, Shapes, Reads
  <2> QED BY <2>1
<1>3. ASSUME NEW k \in prefetch, spec[k].path = p PROVE spec'[k] = spec[k]
  <2>1. spec[k].content \in Nat /\ spec[k].content >= n /\ spec[k].mtime # 0
        BY <1>3 DEF NoOlder, RoundInv, Shapes, NotYet, Reads
  <2>2. k # i
        BY <2>1 DEF SpecStat, SpecRead
  <2> QED BY <2>2 DEF SpecStat, SpecRead, RoundInv, Shapes
<1>4. file[p].content \in Nat
      BY DEF RoundInv, Shapes, Files, Contents
<1> QED BY <1>1, <1>2, <1>3, <1>4, KeepStep

(* An accepted read is the content of the file at that moment.             *)
LEMMA AcceptStep ==
    ASSUME NEW p \in Paths, NEW n \in Nat \ {0}, NoOlder(p, n), RoundInv, Validate
    PROVE  NoOlder(p, n)'
<1>1. /\ prefetch' = {i \in calls : spec[i] # NoRead /\ Valid(i)} /\ pc' = "run"
      /\ UNCHANGED <<calls, answer, file, partials, spec>>
      BY DEF Validate, roundVars
<1>2. file[p].content \in Nat /\ file[p].content >= n /\ file[p].mtime # 0
      BY DEF NoOlder, RoundInv, Shapes, Files, Contents
<1>3. ASSUME NEW i \in prefetch', spec[i].path = p
      PROVE  spec[i].content >= n /\ spec[i].mtime # 0
      BY <1>1, <1>2, <1>3 DEF Valid
<1> QED BY <1>1, <1>2, <1>3 DEF NoOlder, PathOf

(* A call answers with an accepted read, or with the file as it is.        *)
LEMMA AnswerStep ==
    ASSUME NEW p \in Paths, NEW n \in Nat \ {0}, NoOlder(p, n), RoundInv,
           NEW i \in Calls, RunRead(i) \/ RunEdit(i) \/ RunNull(i)
    PROVE  NoOlder(p, n)'
<1>1. pc' \in {"run", "over"} /\ UNCHANGED <<prefetch, partials, spec>>
      BY DEF RunRead, RunEdit, RunNull, Finished, roundVars
<1>2. file[p].content \in Nat /\ file[p].content >= n
      BY DEF NoOlder, RoundInv, Shapes, Files, Contents
<1>3. /\ file'[p].content >= n
      /\ PathOf(i) = p => answer'[i] = answer[i] \/ answer'[i] >= n
      /\ \A k \in Calls \ {i} : answer'[k] = answer[k]
  <2>1. CASE RunRead(i)
    <3>1. i \in prefetch /\ spec[i].path = p => spec[i].content >= n
          BY DEF NoOlder
    <3>2. \A k \in Calls \ {i} : answer'[k] = answer[k]
          BY <2>1 DEF RunRead, RoundInv, Shapes
    <3>3. PathOf(i) = p => answer'[i] >= n
          BY <1>2, <2>1, <3>1 DEF RunRead, RoundInv, Shapes
    <3> QED BY <1>2, <2>1, <3>2, <3>3 DEF RunRead
  <2>2. CASE RunEdit(i)
    <3> DEFINE q == PathOf(i)
               c == file[q].content + 1
               m == file[q].mtime + 1
    <3>1. q \in Paths /\ c \in Nat /\ c >= file[q].content
          BY <2>2 DEF RunEdit, Parses, PathOf, RoundInv, Shapes, Files, Contents
    <3>2. file' = [file EXCEPT ![q] = [content |-> c, mtime |-> m]]
          BY <2>2, <3>1 DEF RunEdit, RoundInv, Shapes
    <3>3. answer' = [answer EXCEPT ![i] = file'[q].content]
          BY <2>2 DEF RunEdit
    <3>4. q = p => c >= n
          BY <1>2, <3>1
    <3> HIDE DEF q, c, m
    <3>5. file'[q].content = c /\ (p # q => file'[p] = file[p])
          BY <3>1, <3>2 DEF RoundInv, Shapes
    <3> QED BY <1>2, <3>3, <3>4, <3>5 DEF q, RoundInv, Shapes
  <2>3. CASE RunNull(i)
        BY <1>2, <2>3 DEF RunNull
  <2> QED BY <2>1, <2>2, <2>3
<1>4. \A k \in Calls : PathOf(k)' = PathOf(k)
      BY <1>1 DEF PathOf
<1> QED BY <1>1, <1>3, <1>4 DEF NoOlder

(* Another program writes a file: contents only grow.                      *)
LEMMA OutsideStep ==
    ASSUME NEW p \in Paths, NEW n \in Nat \ {0}, NoOlder(p, n), RoundInv,
           NEW q \in Paths, Write(q)
    PROVE  NoOlder(p, n)'
<1>1. UNCHANGED <<pc, partials, spec, prefetch, answer>>
      BY DEF Write, roundVars, runVars
<1>2. file'[p].content \in Nat /\ file'[p].content >= file[p].content
  <2>1. PICK keeps \in {0, 1} :
            file' = [file EXCEPT ![q] = [content |-> file[q].content + 1,
                                         mtime |-> file[q].mtime + keeps]]
        BY DEF Write, RoundInv, Shapes
  <2>2. file[p].content \in Nat
        BY DEF RoundInv, Shapes, Files, Contents
  <2>3. CASE p = q
    <3>1. file'[p].content = file[p].content + 1
          BY <2>1, <2>3 DEF RoundInv, Shapes
    <3> QED BY <2>2, <3>1
  <2>4. CASE p # q
    <3>1. file'[p] = file[p]
          BY <2>1, <2>4 DEF RoundInv, Shapes
    <3> QED BY <2>2, <3>1
  <2> QED BY <2>3, <2>4
<1> QED BY <1>1, <1>2, KeepStep

(* Once the calls are about to run, no step brings an older content back.  *)
LEMMA NoOlderStep ==
    ASSUME NEW p \in Paths, NEW n \in Nat \ {0}
    PROVE  NoOlder(p, n) /\ RoundInv /\ [Next]_vars => NoOlder(p, n)'
<1> SUFFICES ASSUME NoOlder(p, n), RoundInv, [Next]_vars PROVE NoOlder(p, n)'
    OBVIOUS
<1>1. pc \notin {"read", "assemble"}
      BY DEF NoOlder
<1>2. CASE Cancel \/ UNCHANGED vars
  <2>1. UNCHANGED <<pc, partials, spec, prefetch, answer, file>>
        BY <1>2 DEF Cancel, roundVars, runVars, vars
  <2>2. file[p].content \in Nat
        BY DEF RoundInv, Shapes, Files, Contents
  <2> QED BY <2>1, <2>2, KeepStep
<1>3. ASSUME NEW i \in Calls, SpecStat(i) \/ SpecRead(i) PROVE NoOlder(p, n)'
      BY <1>3, ReadsStay
<1>4. CASE Validate
      BY <1>4, AcceptStep
<1>5. ASSUME NEW i \in Calls, RunRead(i) \/ RunEdit(i) \/ RunNull(i) PROVE NoOlder(p, n)'
      BY <1>5, AnswerStep
<1>6. ASSUME NEW q \in Paths, Write(q) PROVE NoOlder(p, n)'
      BY <1>6, OutsideStep
<1>7. CASE \/ Text \/ Complete \/ Switch \/ OffTrack \/ TooLong \/ StreamEnds
           \/ StreamFails \/ Poll \/ Assemble
           \/ \E i \in Calls, tool \in Tools : ToolCallStart(i, tool)
           \/ \E i \in Calls, piece \in Paths \union {Rest} : ToolCallDelta(i, piece)
      BY <1>1, <1>7 DEF Text, Complete, Switch, OffTrack, TooLong, StreamEnds, StreamFails, Poll,
                        Assemble, ToolCallStart, ToolCallDelta
<1> QED BY <1>2, <1>3, <1>4, <1>5, <1>6, <1>7 DEF Next

(* A read made ahead of time is never used stale: no call answers with a   *)
(* content its file no longer had when the calls of the round began to run *)
(* (speculation.rs, validate, and tool_dispatch.rs), whatever other        *)
(* programs write and whatever times they leave on the file.               *)
THEOREM NoAnswerIsStale == Spec => NoStaleAnswer
<1> DEFINE Begins(p, n) == pc = "dispatch" /\ file[p].content = n
           Answers(p, n) == \A i \in Calls : answer[i] # 0 /\ PathOf(i) = p => answer[i] >= n
<1>1. ASSUME NEW p \in Paths, NEW n \in 2 .. MaxWrites + 1
      PROVE  Spec => [](Begins(p, n) => []Answers(p, n))
  <2>1. n \in Nat \ {0}
        BY StreamRoundAssumption
  <2>2. NoOlder(p, n) /\ RoundInv /\ [Next]_vars => NoOlder(p, n)'
        BY <2>1, NoOlderStep
  <2>3. Begins(p, n) /\ RoundInv => NoOlder(p, n)
        BY <2>1 DEF NoOlder, RoundInv, NotYet
  <2>4. NoOlder(p, n) => Answers(p, n)
        BY DEF NoOlder
  <2> HIDE DEF Begins, Answers
  <2> QED BY <2>2, <2>3, <2>4, RoundInvHolds, PTL DEF Spec
<1> QED BY <1>1 DEF NoStaleAnswer
=============================================================================
