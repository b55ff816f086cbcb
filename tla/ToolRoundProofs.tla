--------------------------- MODULE ToolRoundProofs ---------------------------
(***************************************************************************)
(* Proofs about ToolRound, for any number of transcripts, any batches,     *)
(* policies, quota and bounds: no call runs without consent, no sender is  *)
(* left behind in the maps, and how far a quota can be overrun.            *)
(***************************************************************************)
EXTENDS ToolRound, FiniteSetTheorems, SequenceTheorems, WellFoundedInduction, TLAPS

Phases == {"idle", "gate", "register", "approvals", "questions", "serial", "counted", "parallel"}
Dispatching == {"serial", "counted", "parallel"}
Polls == {"try", "empty", "cancelled", "timedout"}
Answers == Decisions \cup {"text"}
Ids == Tables \X Transcripts \X Nat \X Nat
Items == Nat \X Ids
Round == [phase : Phases, live : BOOLEAN, calls : Seq(Kinds), hooked : SUBSET Nat,
          denied : SUBSET Nat, need : SUBSET Nat, req : SUBSET Items,
          queue : Seq(Items), poll : Polls, edited : SUBSET Nat,
          answered : SUBSET Nat, at : Nat, started : SUBSET Nat, running : SUBSET Nat]

(* The shapes of the rounds and of what they share.                        *)
Shapes == /\ rd \in [Transcripts -> Round]
          /\ rounds \in [Transcripts -> Nat]
          /\ pending \subseteq Ids /\ orphans \subseteq Ids
          /\ sent \subseteq Ids \X Answers
          /\ count \in [Kinds -> Nat]

(* q is still awaited by its round.                                        *)
Queued(t, q) == \E k \in DOMAIN rd[t].queue : rd[t].queue[k] = q

Dialog(t, i) == <<i, Id("approval", t, i)>>

(* A round that has not passed the gate has asked nobody; questions come   *)
(* when the approvals are settled; a round that dispatches waits for       *)
(* nobody; nothing is started before the dispatch, and nothing refused is. *)
InOrder(t) ==
    /\ rd[t].phase \in {"idle", "gate"} =>
           rd[t].need = {} /\ rd[t].req = {} /\ rd[t].queue = <<>>
    /\ rd[t].phase = "questions" =>
           \A k \in DOMAIN rd[t].queue : rd[t].queue[k][2][1] = "question"
    /\ rd[t].phase \in Dispatching => rd[t].queue = <<>>
    /\ rd[t].phase \notin Dispatching => rd[t].started = {}
    /\ rd[t].started \cap Refused(t) = {}
    /\ rd[t].phase = "counted" => rd[t].at \in Calls(t) \ Refused(t)
    /\ rd[t].phase = "parallel" => \A i \in Calls(t) : rd[t].calls[i] \notin Mutating

(* The ids of a round are its own.                                         *)
OwnIds(t) == \A q \in rd[t].req : q[2] = Id(q[2][1], t, q[1])

(* Without a consumer every call that needs the user is refused; with one  *)
(* each has its dialog item, once all are registered.                      *)
AllAsked(t) ==
    /\ rd[t].need \subseteq Calls(t)
    /\ ~rd[t].live => rd[t].need \subseteq rd[t].denied
    /\ rd[t].phase \in {"register", "approvals"} => rd[t].live
    /\ rd[t].phase = "register" =>
           /\ \A q \in rd[t].req : q[1] \in rd[t].need /\ q = Dialog(t, q[1])
           /\ IsFiniteSet(rd[t].req)
           /\ Cardinality(rd[t].req) = Cardinality({q[1] : q \in rd[t].req})
    /\ rd[t].phase # "register" /\ rd[t].live =>
           \A i \in rd[t].need : Dialog(t, i) \in rd[t].req

(* A dialog item is still awaited, or was refused, or was approved.        *)
Decided(t) == \A q \in rd[t].req : q[2][1] = "approval" =>
                  Queued(t, q) \/ q[1] \in rd[t].denied \/ Approved(q[2])

RoundInv(t) == InOrder(t) /\ OwnIds(t) /\ AllAsked(t) /\ Decided(t)

(* The inductive invariant of Consent and NoStalePending.                  *)
DialogInv == /\ Shapes
             /\ \A t \in Transcripts : RoundInv(t)
             /\ NoStalePending

-----------------------------------------------------------------------------
(* What the steps of transcript t do not touch: the rounds of the others,  *)
(* and the answers sent to them.                                           *)
OthersKeep(t) ==
    /\ \A u \in Transcripts \ {t} : rd'[u] = rd[u] /\ rounds'[u] = rounds[u]
    /\ \A s \in sent : s[1][2] # t => s \in sent'

(* They keep what holds of their rounds.                                   *)
LEMMA OthersStay ==
    ASSUME DialogInv, NEW t, OthersKeep(t), NEW u \in Transcripts, u # t
    PROVE  RoundInv(u)'
<1>1. rd'[u] = rd[u] /\ rounds'[u] = rounds[u]
      BY DEF OthersKeep
<1>2. RoundInv(u)
      BY DEF DialogInv
<1>3. InOrder(u)' /\ OwnIds(u)' /\ AllAsked(u)'
      BY <1>1, <1>2 DEF RoundInv, InOrder, OwnIds, AllAsked, Refused, Calls, Dialog, Id
<1>4. ASSUME NEW q \in rd[u].req, Approved(q[2]) PROVE Approved(q[2])'
  <2>1. PICK d \in {"Approve", "ApproveWith"} : <<q[2], d>> \in sent
        BY <1>4 DEF Approved
  <2>2. q[2][2] = u
        BY <1>2, <1>4 DEF RoundInv, OwnIds, Id
  <2>3. <<q[2], d>> \in sent'
        BY <2>1, <2>2 DEF OthersKeep
  <2> QED BY <2>3 DEF Approved
<1>5. Decided(u)'
      BY <1>1, <1>2, <1>4 DEF RoundInv, Decided, Queued
<1> QED BY <1>3, <1>5 DEF RoundInv

(* A step that leaves every round as it is, and takes no answer back.      *)
LEMMA RoundsStay ==
    ASSUME DialogInv, UNCHANGED <<rd, rounds>>, sent \subseteq sent',
           NEW u \in Transcripts
    PROVE  RoundInv(u)'
<1>1. RoundInv(u)
      BY DEF DialogInv
<1>2. InOrder(u)' /\ OwnIds(u)' /\ AllAsked(u)'
      BY <1>1 DEF RoundInv, InOrder, OwnIds, AllAsked, Refused, Calls, Dialog, Id
<1>3. Decided(u)'
      BY <1>1 DEF RoundInv, Decided, Queued, Approved
<1> QED BY <1>2, <1>3 DEF RoundInv

(* Before the first round nobody is asked anything.                        *)
LEMMA DialogInit == Init => DialogInv
<1> SUFFICES ASSUME Init PROVE DialogInv
    OBVIOUS
<1>1. NewRound \in Round
      BY DEF NewRound, Round, Phases, Polls
<1>2. Shapes
      BY <1>1 DEF Init, Shapes
<1>3. ASSUME NEW t \in Transcripts PROVE RoundInv(t)
      BY DEF Init, RoundInv, InOrder, OwnIds, AllAsked, Decided, Dispatching, NewRound, Refused,
             Calls
<1>4. NoStalePending
      BY DEF Init, NoStalePending
<1> QED BY <1>2, <1>3, <1>4 DEF DialogInv

-----------------------------------------------------------------------------
(* Polling, sleeping, skipping and returning change only where a round is  *)
(* inside its phase.                                                       *)
LEMMA SideStep ==
    ASSUME DialogInv, NEW t \in Transcripts, NEW r \in Round,
           rd' = [rd EXCEPT ![t] = r], UNCHANGED <<rounds, pending, sent, orphans, count>>,
           r.phase = rd[t].phase, r.live = rd[t].live, r.calls = rd[t].calls,
           r.hooked = rd[t].hooked, r.denied = rd[t].denied, r.need = rd[t].need,
           r.req = rd[t].req, r.queue = rd[t].queue, r.started = rd[t].started,
           r.phase = "counted" => r.at = rd[t].at
    PROVE  DialogInv'
<1>1. rd'[t] = r /\ OthersKeep(t)
      BY DEF DialogInv, Shapes, OthersKeep
<1>2. Shapes'
      BY DEF DialogInv, Shapes
<1>3. RoundInv(t)
      BY DEF DialogInv
<1>4. OwnIds(t)' /\ AllAsked(t)'
      BY <1>1, <1>3 DEF RoundInv, OwnIds, AllAsked, Calls, Dialog, Id
<1>5. Decided(t)'
      BY <1>1, <1>3 DEF RoundInv, Decided, Queued, Approved
<1>6. \A u \in Transcripts : rd'[u].queue = rd[u].queue
      BY <1>1 DEF OthersKeep
<1>8. InOrder(t)'
  <2>1. Calls(t)' = Calls(t) /\ Refused(t)' = Refused(t)
        BY <1>1 DEF Calls, Refused
  <2> QED BY <1>1, <1>3, <2>1 DEF RoundInv, InOrder
<1>7. NoStalePending'
      BY <1>6 DEF DialogInv, NoStalePending
<1> QED BY <1>1, <1>2, <1>4, <1>5, <1>7, <1>8, OthersStay DEF DialogInv, RoundInv

(* A round of no use any more: FinishRound, Drop.                          *)
LEMMA RoundGone ==
    ASSUME DialogInv, NEW t \in Transcripts, rd' = [rd EXCEPT ![t] = NewRound],
           sent' = {s \in sent : \A q \in rd[t].req : s[1] # q[2]},
           UNCHANGED <<rounds, pending, count>>,
           orphans' \subseteq Ids, orphans \subseteq orphans',
           \A k \in DOMAIN rd[t].queue : rd[t].queue[k][2] \in orphans'
    PROVE  DialogInv'
<1>1. NewRound \in Round
      BY DEF NewRound, Round, Phases, Polls
<1>2. Shapes'
      BY <1>1 DEF DialogInv, Shapes
<1>3. rd'[t] = NewRound
      BY DEF DialogInv, Shapes
<1>4. OthersKeep(t)
  <2>1. \A q \in rd[t].req : q[2][2] = t
        BY DEF DialogInv, RoundInv, OwnIds, Id
  <2>2. \A s \in sent : s[1][2] # t => s \in sent'
        BY <2>1
  <2> QED BY <2>2 DEF DialogInv, Shapes, OthersKeep
<1>5. RoundInv(t)'
      BY <1>3 DEF RoundInv, InOrder, OwnIds, AllAsked, Decided, Dispatching, NewRound, Refused, Calls
<1>6. NoStalePending'
      BY <1>4 DEF DialogInv, NoStalePending, OthersKeep
<1> QED BY <1>2, <1>4, <1>5, <1>6, OthersStay DEF DialogInv

(* The pause gate is open and a batch comes in.                            *)
LEMMA BeginRoundStep ==
    ASSUME DialogInv, NEW t \in Transcripts, BeginRound(t)
    PROVE  DialogInv'
<1>1. PICK b \in Batches[t], live \in BOOLEAN : \E h \in SUBSET DOMAIN b :
          rd' = [rd EXCEPT ![t] = [NewRound EXCEPT !.phase = "gate", !.live = live,
                                                   !.calls = b, !.hooked = h]]
      BY DEF BeginRound
<1>2. PICK h \in SUBSET DOMAIN b :
          rd' = [rd EXCEPT ![t] = [NewRound EXCEPT !.phase = "gate", !.live = live,
                                                   !.calls = b, !.hooked = h]]
      BY <1>1
<1>3. b \in Seq(Kinds)
      BY BatchesAssumption
<1>4. h \in SUBSET Nat
      BY <1>3
<1> DEFINE r == [NewRound EXCEPT !.phase = "gate", !.live = live, !.calls = b, !.hooked = h]
<1>5. r \in Round
  <2>1. NewRound \in Round /\ "gate" \in Phases
        BY DEF NewRound, Round, Phases, Polls
  <2> QED BY <1>3, <1>4, <2>1 DEF Round
<1>6. /\ r.phase = "gate" /\ r.need = {} /\ r.req = {} /\ r.queue = <<>> /\ r.started = {}
      /\ r.live = live
      BY DEF NewRound
<1>7. rd' = [rd EXCEPT ![t] = r]
      BY <1>2
<1> HIDE DEF r
<1>8. rd'[t] = r /\ OthersKeep(t) /\ UNCHANGED <<pending, sent, orphans, count>>
      BY <1>7 DEF BeginRound, DialogInv, Shapes, OthersKeep, shared
<1>9. Shapes'
      BY <1>5, <1>7, <1>8 DEF BeginRound, DialogInv, Shapes
<1>10. RoundInv(t)'
       BY <1>6, <1>8 DEF RoundInv, InOrder, OwnIds, AllAsked, Decided, Dispatching
<1>11. NoStalePending'
  <2>1. rd[t].queue = <<>>
        BY DEF BeginRound, DialogInv, RoundInv, InOrder
  <2> QED BY <1>8, <2>1 DEF DialogInv, NoStalePending, OthersKeep
<1> QED BY <1>8, <1>9, <1>10, <1>11, OthersStay DEF DialogInv

(* The gate: nobody has been asked, and without a consumer nobody will be. *)
LEMMA GateStep ==
    ASSUME DialogInv, NEW t \in Transcripts, Gate(t)
    PROVE  DialogInv'
<1> DEFINE Gated(o) == {i \in Calls(t) : gate_tool_call(rd[t].calls[i]) = o}
<1>1. PICK auto \in SUBSET Gated("Ask") :
          rd' = [rd EXCEPT ![t].phase = IF Gated("Ask") \ auto # {} /\ rd[t].live
                                        THEN "register" ELSE "questions",
                           ![t].need = Gated("Ask") \ auto,
                           ![t].denied = IF rd[t].live THEN Gated("Deny")
                                         ELSE Gated("Deny") \cup (Gated("Ask") \ auto)]
      BY DEF Gate
<1> DEFINE need == Gated("Ask") \ auto
           denied == IF rd[t].live THEN Gated("Deny") ELSE Gated("Deny") \cup need
           phase == IF need # {} /\ rd[t].live THEN "register" ELSE "questions"
<1>2. rd[t] \in Round /\ rd[t].phase = "gate"
      BY DEF DialogInv, Shapes, Gate
<1>3. /\ rd[t].need = {} /\ rd[t].req = {} /\ rd[t].queue = <<>> /\ rd[t].started = {}
      BY <1>2 DEF DialogInv, RoundInv, InOrder, Dispatching
<1>4. Calls(t) \in SUBSET Nat
      BY <1>2 DEF Round, Calls
<1>5. /\ need \subseteq Calls(t) /\ denied \subseteq Calls(t)
      /\ ~rd[t].live => need \subseteq denied
      OBVIOUS
<1> HIDE DEF Gated
<1>6. rd' = [rd EXCEPT ![t].phase = phase, ![t].need = need, ![t].denied = denied]
      BY <1>1
<1>7. phase \in {"register", "questions"} /\ (phase = "register" => rd[t].live)
          /\ (phase # "register" => need = {} \/ ~rd[t].live)
      OBVIOUS
<1> HIDE DEF need, denied, phase
<1>8. rd' \in [Transcripts -> Round]
  <2>1. phase \in Phases /\ need \in SUBSET Nat /\ denied \in SUBSET Nat
        BY <1>4, <1>5, <1>7 DEF Phases
  <2>2. [rd[t] EXCEPT !.phase = phase, !.need = need, !.denied = denied] \in Round
        BY <1>2, <2>1 DEF Round
  <2> QED BY <1>6, <2>2 DEF DialogInv, Shapes
<1>9. /\ rd'[t].phase = phase /\ rd'[t].need = need /\ rd'[t].denied = denied
      /\ rd'[t].live = rd[t].live /\ rd'[t].calls = rd[t].calls /\ rd'[t].req = {}
      /\ rd'[t].queue = <<>> /\ rd'[t].started = {}
      BY <1>2, <1>3, <1>6 DEF DialogInv, Shapes, Round
<1>10. OthersKeep(t) /\ UNCHANGED <<rounds, pending, sent, orphans, count>>
       BY <1>6 DEF Gate, DialogInv, Shapes, OthersKeep, shared
<1>11. Shapes'
       BY <1>8, <1>10 DEF DialogInv, Shapes
<1>12. InOrder(t)' /\ OwnIds(t)' /\ Decided(t)'
       BY <1>7, <1>9 DEF InOrder, OwnIds, Decided, Dispatching
<1>13. AllAsked(t)'
  <2>1. Calls(t)' = Calls(t)
        BY <1>9 DEF Calls
  <2>2. {q[1] : q \in {}} = {}
        OBVIOUS
  <2> QED BY <1>5, <1>7, <1>9, <2>1, <2>2, FS_EmptySet DEF AllAsked
<1>14. NoStalePending'
       BY <1>3, <1>10 DEF DialogInv, NoStalePending, OthersKeep
<1> QED BY <1>10, <1>11, <1>12, <1>13, <1>14, OthersStay DEF DialogInv, RoundInv

(* The calls of a round are finitely many.                                 *)
LEMMA CallsFinite ==
    ASSUME Shapes, NEW t \in Transcripts
    PROVE  IsFiniteSet(Calls(t)) /\ Calls(t) = 1 .. Len(rd[t].calls) /\ Len(rd[t].calls) \in Nat
<1>1. rd[t].calls \in Seq(Kinds)
      BY DEF Shapes, Round
<1>2. Calls(t) = 1 .. Len(rd[t].calls) /\ Len(rd[t].calls) \in Nat
      BY <1>1 DEF Calls
<1> QED BY <1>2, FS_Interval

(* What comes behind a queue.                                              *)
LEMMA AppendItem ==
    ASSUME NEW S, NEW q \in Seq(S), NEW x \in S
    PROVE  /\ Append(q, x) \in Seq(S)
           /\ \A k \in DOMAIN q : k \in DOMAIN Append(q, x) /\ Append(q, x)[k] = q[k]
           /\ Len(q) + 1 \in DOMAIN Append(q, x) /\ Append(q, x)[Len(q) + 1] = x
OBVIOUS

(* What a queue is when its head has left.                                 *)
LEMMA HeadLeaves ==
    ASSUME NEW S, NEW q \in Seq(S), q # <<>>
    PROVE  /\ q[1] \in S /\ Tail(q) \in Seq(S)
           /\ \A k \in DOMAIN q : q[k] = q[1] \/ \E j \in DOMAIN Tail(q) : Tail(q)[j] = q[k]
           /\ Len(q) = 1 => Tail(q) = <<>>
<1>1. Len(q) \in Nat \ {0} /\ DOMAIN q = 1 .. Len(q) /\ q[1] \in S /\ Tail(q) \in Seq(S)
      OBVIOUS
<1>3. ASSUME Len(q) = 1 PROVE Tail(q) = <<>>
  <2>1. Len(Tail(q)) = 0
        BY <1>3
  <2> QED BY <1>1, <2>1, EmptySeq
<1>2. ASSUME NEW k \in DOMAIN q, k # 1 PROVE \E j \in DOMAIN Tail(q) : Tail(q)[j] = q[k]
  <2>1. k - 1 \in DOMAIN Tail(q) /\ Tail(q)[k - 1] = q[k]
        BY <1>2
  <2> QED BY <2>1
<1> QED BY <1>1, <1>2, <1>3

(* A dialog item is registered; when it is the last, every call that needs *)
(* the user has one.                                                       *)
LEMMA RegisterStep ==
    ASSUME DialogInv, NEW t \in Transcripts, Register(t)
    PROVE  DialogInv'
<1> DEFINE asked == {q[1] : q \in rd[t].req}
           last == Cardinality(rd[t].req) + 1 = Cardinality(rd[t].need)
<1>1. PICK i \in rd[t].need \ asked :
          /\ pending' = pending \cup {Id("approval", t, i)}
          /\ rd' = [rd EXCEPT ![t].req = @ \cup {<<i, Id("approval", t, i)>>},
                              ![t].queue = Append(@, <<i, Id("approval", t, i)>>),
                              ![t].phase = IF last THEN "approvals" ELSE @]
      BY DEF Register
<1> DEFINE d == Dialog(t, i)
           phase == IF last THEN "approvals" ELSE "register"
<1>2. rd[t] \in Round /\ rd[t].phase = "register" /\ RoundInv(t)
      BY DEF DialogInv, Shapes, Register
<1>3. i \in Nat /\ Id("approval", t, i) \in Ids /\ d \in Items
  <2>1. i \in Nat
        BY <1>2 DEF Round
  <2> QED BY <2>1 DEF DialogInv, Shapes, Id, Ids, Tables, Items, Dialog
<1>4. rd' = [rd EXCEPT ![t].req = @ \cup {d}, ![t].queue = Append(@, d), ![t].phase = phase]
      BY <1>1, <1>2 DEF DialogInv, Shapes, Round, Dialog
<1>5. /\ \A q \in rd[t].req : q[1] \in rd[t].need /\ q = Dialog(t, q[1])
      /\ IsFiniteSet(rd[t].req) /\ Cardinality(rd[t].req) = Cardinality(asked)
      /\ rd[t].need \subseteq Calls(t) /\ rd[t].live /\ rd[t].started = {}
      BY <1>2 DEF RoundInv, AllAsked, InOrder, Dispatching
<1>6. phase \in {"register", "approvals"} /\ (phase = "approvals" <=> last)
      OBVIOUS
<1>7. d \notin rd[t].req /\ d[1] = i /\ d[2] = Id("approval", t, i) /\ d[2][1] = "approval"
      BY <1>1 DEF Dialog, Id
<1> HIDE DEF d, phase
<1>8. Append(rd[t].queue, d) \in Seq(Items) /\ rd[t].queue \in Seq(Items)
      BY <1>2, <1>3, AppendItem DEF Round
<1>9. rd' \in [Transcripts -> Round]
  <2>1. phase \in Phases /\ rd[t].req \cup {d} \in SUBSET Items
        BY <1>2, <1>3, <1>6 DEF Phases, Round
  <2>2. [rd[t] EXCEPT !.req = @ \cup {d}, !.queue = Append(@, d), !.phase = phase] \in Round
        BY <1>2, <1>8, <2>1 DEF Round
  <2> QED BY <1>4, <2>2 DEF DialogInv, Shapes
<1>10. /\ rd'[t].phase = phase /\ rd'[t].req = rd[t].req \cup {d}
       /\ rd'[t].queue = Append(rd[t].queue, d)
       /\ rd'[t].need = rd[t].need /\ rd'[t].denied = rd[t].denied
       /\ rd'[t].live = rd[t].live /\ rd'[t].calls = rd[t].calls
       /\ rd'[t].started = rd[t].started /\ rd'[t].hooked = rd[t].hooked
       BY <1>2, <1>4 DEF DialogInv, Shapes, Round
<1>11. OthersKeep(t) /\ UNCHANGED <<rounds, sent, orphans, count>>
       BY <1>4 DEF Register, DialogInv, Shapes, OthersKeep, shared
<1>12. Shapes'
       BY <1>1, <1>3, <1>9, <1>11 DEF DialogInv, Shapes
<1>13. InOrder(t)'
       BY <1>5, <1>6, <1>10 DEF InOrder, Dispatching
<1>14. OwnIds(t)'
       BY <1>2, <1>7, <1>10, <1>11 DEF RoundInv, OwnIds, Id
<1>15. AllAsked(t)'
  <2>1. {q[1] : q \in rd'[t].req} = asked \cup {i}
        BY <1>7, <1>10
  <2>2. asked \in SUBSET rd[t].need /\ i \notin asked
        BY <1>1, <1>5
  <2> HIDE DEF asked
  <2>3. IsFiniteSet(rd[t].need) /\ IsFiniteSet(asked)
    <3>1. IsFiniteSet(Calls(t))
          BY CallsFinite DEF DialogInv
    <3>2. IsFiniteSet(rd[t].need)
          BY <1>5, <3>1, FS_Subset
    <3> QED BY <2>2, <3>2, FS_Subset
  <2>4. /\ IsFiniteSet(rd[t].req \cup {d})
        /\ Cardinality(rd[t].req \cup {d}) = Cardinality(rd[t].req) + 1
        /\ Cardinality(asked \cup {i}) = Cardinality(asked) + 1
        BY <1>5, <1>7, <2>2, <2>3, FS_AddElement
  <2>5. \A q \in rd'[t].req : q[1] \in rd[t].need /\ q = Dialog(t, q[1])
    <3>1. d[1] \in rd[t].need /\ d = Dialog(t, d[1])
          BY <1>1, <1>7 DEF d
    <3> QED BY <1>5, <1>10, <3>1
  <2>6. last => asked \cup {i} = rd[t].need
    <3>1. asked \cup {i} \in SUBSET rd[t].need
          BY <1>1, <2>2
    <3>2. last => Cardinality(asked \cup {i}) = Cardinality(rd[t].need)
          BY <1>5, <2>4
    <3> QED BY <2>3, <3>1, <3>2, FS_Subset
  <2>7. last => \A j \in rd[t].need : Dialog(t, j) \in rd'[t].req
    <3> SUFFICES ASSUME last, NEW j \in rd[t].need PROVE Dialog(t, j) \in rd'[t].req
        OBVIOUS
    <3>1. PICK q \in rd'[t].req : q[1] = j
          BY <2>1, <2>6
    <3> QED BY <2>5, <3>1
  <2>8. rd'[t].need \subseteq Calls(t)'
        BY <1>5, <1>10 DEF Calls
  <2>9. rounds' = rounds
        BY <1>11
  <2> QED BY <1>5, <1>6, <1>10, <2>1, <2>4, <2>5, <2>7, <2>8, <2>9 DEF AllAsked, Dialog, Id
<1>16. /\ \E k \in DOMAIN rd'[t].queue : rd'[t].queue[k] = d
       /\ \A k \in DOMAIN rd[t].queue :
              k \in DOMAIN rd'[t].queue /\ rd'[t].queue[k] = rd[t].queue[k]
       BY <1>3, <1>8, <1>10, AppendItem
<1>17. Decided(t)'
       BY <1>2, <1>10, <1>11, <1>16 DEF RoundInv, Decided, Approved, Queued
<1>18. NoStalePending'
  <2>1. ASSUME NEW id \in pending
        PROVE  \/ id \in orphans'
               \/ \E u \in Transcripts : \E k \in DOMAIN rd'[u].queue : rd'[u].queue[k][2] = id
    <3>1. CASE id \in orphans
          BY <1>11, <3>1
    <3>2. ASSUME NEW u \in Transcripts, NEW k \in DOMAIN rd[u].queue, rd[u].queue[k][2] = id
          PROVE  \E j \in DOMAIN rd'[u].queue : rd'[u].queue[j][2] = id
      <4>1. CASE u = t
            BY <1>16, <3>2, <4>1
      <4>2. CASE u # t
            BY <1>11, <3>2, <4>2 DEF OthersKeep
      <4> QED BY <4>1, <4>2
    <3> QED BY <3>1, <3>2 DEF DialogInv, NoStalePending
  <2>2. \E k \in DOMAIN rd'[t].queue : rd'[t].queue[k][2] = Id("approval", t, i)
        BY <1>7, <1>16
  <2>3. \A id \in pending' : id \in pending \/ id = Id("approval", t, i)
        BY <1>1
  <2> QED BY <2>1, <2>2, <2>3 DEF NoStalePending
<1> QED BY <1>11, <1>12, <1>13, <1>14, <1>15, <1>17, <1>18, OthersStay DEF DialogInv, RoundInv

(* The wait for the head of a queue is over and its sender is evicted: a   *)
(* dialog item that was not approved is refused.                           *)
LEMMA SettleStep ==
    ASSUME DialogInv, NEW t \in Transcripts, NEW r \in Round,
           rd' = [rd EXCEPT ![t] = r], UNCHANGED <<rounds, sent, orphans, count>>,
           Waiting(t), pending' = pending \ {Head1(t)[2]}, r.queue = Tail(rd[t].queue),
           rd[t].phase \in {"approvals", "questions"},
           r.phase \in {rd[t].phase, "questions"},
           r.phase = "questions" =>
               rd[t].phase = "questions" \/ Len(rd[t].queue) = 1,
           r.live = rd[t].live, r.calls = rd[t].calls, r.need = rd[t].need,
           r.req = rd[t].req, r.started = rd[t].started, rd[t].denied \subseteq r.denied,
           Head1(t)[2][1] = "approval" => Head1(t)[1] \in r.denied \/ Approved(Head1(t)[2])
    PROVE  DialogInv'
<1>1. rd'[t] = r /\ OthersKeep(t)
      BY DEF DialogInv, Shapes, OthersKeep
<1>2. Shapes'
      BY DEF DialogInv, Shapes
<1>3. RoundInv(t) /\ rd[t].queue \in Seq(Items) /\ rd[t].queue # <<>>
      BY DEF DialogInv, Shapes, Round, Waiting
<1> DEFINE q == rd[t].queue
<1>4. /\ \A k \in DOMAIN q : q[k] = q[1] \/ \E j \in DOMAIN Tail(q) : Tail(q)[j] = q[k]
      /\ Len(q) = 1 => Tail(q) = <<>>
      /\ \A j \in DOMAIN Tail(q) : j + 1 \in DOMAIN q /\ Tail(q)[j] = q[j + 1]
      BY <1>3, HeadLeaves
<1>5. InOrder(t)'
  <2>1. rd[t].started = {}
        BY <1>3 DEF RoundInv, InOrder, Dispatching
  <2>2. r.phase = "questions" => \A k \in DOMAIN r.queue : r.queue[k][2][1] = "question"
        BY <1>3, <1>4 DEF RoundInv, InOrder
  <2> QED BY <1>1, <2>1, <2>2 DEF InOrder, Dispatching
<1>6. OwnIds(t)' /\ AllAsked(t)'
      BY <1>1, <1>3 DEF RoundInv, OwnIds, AllAsked, Calls, Dialog, Id
<1>7. Decided(t)'
  <2> SUFFICES ASSUME NEW x \in rd[t].req, x[2][1] = "approval"
               PROVE  \/ \E k \in DOMAIN Tail(q) : Tail(q)[k] = x
                      \/ x[1] \in r.denied
                      \/ Approved(x[2])
    <3>1. /\ rd'[t].req = rd[t].req /\ rd'[t].queue = Tail(q)
          /\ rd'[t].denied = r.denied /\ sent' = sent
          BY <1>1
    <3> HIDE DEF q
    <3> QED BY <3>1 DEF Decided, Queued, Approved
  <2>1. Queued(t, x) \/ x[1] \in rd[t].denied \/ Approved(x[2])
        BY <1>3 DEF RoundInv, Decided
  <2>2. CASE Queued(t, x)
        BY <1>4, <2>2 DEF Queued, Head1
  <2> QED BY <2>1, <2>2
<1>8. NoStalePending'
  <2> SUFFICES ASSUME NEW id \in pending, id # q[1][2]
               PROVE  \/ id \in orphans
                      \/ \E u \in Transcripts : \E k \in DOMAIN rd'[u].queue :
                             rd'[u].queue[k][2] = id
      BY DEF NoStalePending, Head1
  <2>1. ASSUME NEW u \in Transcripts, NEW k \in DOMAIN rd[u].queue, rd[u].queue[k][2] = id
        PROVE  \E j \in DOMAIN rd'[u].queue : rd'[u].queue[j][2] = id
    <3>1. CASE u = t
      <4>1. PICK j \in DOMAIN Tail(q) : Tail(q)[j] = q[k]
            BY <1>4, <2>1, <3>1
      <4>2. rd'[u].queue = Tail(q)
            BY <1>1, <3>1
      <4> QED BY <2>1, <3>1, <4>1, <4>2
    <3>2. CASE u # t
          BY <1>1, <2>1, <3>2 DEF OthersKeep
    <3> QED BY <3>1, <3>2
  <2> QED BY <2>1 DEF DialogInv, NoStalePending
<1> QED BY <1>1, <1>2, <1>5, <1>6, <1>7, <1>8, OthersStay DEF DialogInv, RoundInv

(* An answer that is read was accepted.                                    *)
LEMMA AnswersWereSent ==
    ASSUME Shapes, NEW t \in Transcripts, Answer(t) # "none"
    PROVE  <<Head1(t)[2], Answer(t)>> \in sent
<1>1. Answered(Head1(t)[2]) /\ Answer(t) = (CHOOSE s \in sent : s[1] = Head1(t)[2])[2]
      BY DEF Answer
<1>2. PICK s \in sent : s[1] = Head1(t)[2] /\ Answer(t) = s[2]
      BY <1>1 DEF Answered
<1>3. s = <<s[1], s[2]>>
      BY DEF Shapes
<1> QED BY <1>2, <1>3

(* One dialog item is settled.                                             *)
LEMMA SettleApprovalStep ==
    ASSUME DialogInv, NEW t \in Transcripts, SettleApproval(t)
    PROVE  DialogInv'
<1> DEFINE i == Head1(t)[1]
           a == Answer(t)
           phase == IF Len(rd[t].queue) = 1 THEN "questions" ELSE "approvals"
           edited == IF a = "ApproveWith" THEN rd[t].edited \cup {i} ELSE rd[t].edited
           denied == IF a \in {"Approve", "ApproveWith"} THEN rd[t].denied
                     ELSE rd[t].denied \cup {i}
           r == [rd[t] EXCEPT !.queue = Tail(@), !.poll = "try", !.phase = phase,
                              !.edited = edited, !.denied = denied]
<1>1. rd[t] \in Round /\ rd[t].phase = "approvals" /\ Waiting(t)
      BY DEF DialogInv, Shapes, SettleApproval, Over
<1>2. /\ rd[t].queue \in Seq(Items) /\ rd[t].queue # <<>>
      /\ Head1(t) \in Items /\ Tail(rd[t].queue) \in Seq(Items)
      BY <1>1, HeadLeaves DEF Round, Waiting, Head1
<1>3. i \in Nat
      BY <1>2 DEF Items
<1>4. rd' = [rd EXCEPT ![t] = r]
      BY <1>1 DEF SettleApproval, Settled, DialogInv, Shapes, Round
<1>5. edited \in SUBSET Nat /\ denied \in SUBSET Nat /\ phase \in Phases /\ "try" \in Polls
      BY <1>1, <1>3 DEF Round, Phases, Polls
<1>6. rd[t].denied \subseteq denied /\ (i \in denied \/ Approved(Head1(t)[2]))
      BY AnswersWereSent DEF Approved, DialogInv
<1>7. phase \in {"approvals", "questions"} /\ (phase = "questions" => Len(rd[t].queue) = 1)
      OBVIOUS
<1> HIDE DEF edited, denied, phase
<1>8. r \in Round
      BY <1>1, <1>2, <1>5 DEF Round
<1>9. /\ r.phase = phase /\ r.live = rd[t].live /\ r.calls = rd[t].calls
      /\ r.need = rd[t].need /\ r.req = rd[t].req /\ r.queue = Tail(rd[t].queue)
      /\ r.started = rd[t].started /\ r.denied = denied
      BY <1>1 DEF Round
<1>10. /\ UNCHANGED <<rounds, sent, orphans, count>>
       /\ pending' = pending \ {Head1(t)[2]}
       BY DEF SettleApproval
<1> HIDE DEF r
<1> QED BY <1>1, <1>4, <1>6, <1>7, <1>8, <1>9, <1>10, SettleStep

(* A non-empty set of naturals has a least element.                        *)
LEMMA LeastOfMany ==
    ASSUME NEW S \in SUBSET Nat, S # {}
    PROVE  \E j \in S : \A k \in S : j <= k
<1> DEFINE R == OpToRel(<, Nat)
<1>1. IsWellFoundedOn(R, Nat)
      BY NatLessThanWellFounded
<1>2. \A x, y \in Nat : x < y => <<x, y>> \in R
      BY DEF OpToRel
<1> HIDE DEF R
<1>3. PICK j \in S : \A k \in S : ~(<<k, j>> \in R)
      BY <1>1, WFMin
<1>4. j \in Nat /\ \A k \in S : k \in Nat
      OBVIOUS
<1>5. ASSUME NEW k \in S PROVE j <= k
  <2>1. k \in Nat /\ j \in Nat /\ <<k, j>> \notin R
        BY <1>3, <1>4
  <2>2. ~(k < j)
        BY <1>2, <2>1
  <2> QED BY <2>1, <2>2
<1> QED BY <1>5

(* A question goes out when no dialog and no other question is open.       *)
LEMMA AskStep ==
    ASSUME DialogInv, NEW t \in Transcripts, Ask(t)
    PROVE  DialogInv'
<1> DEFINE i == FirstOf(Unanswered(t))
           id == Id("question", t, i)
           x == <<i, id>>
           r == [rd[t] EXCEPT !.req = @ \cup {x}, !.queue = <<x>>]
<1>1. rd[t] \in Round /\ rd[t].phase = "questions" /\ rd[t].queue = <<>> /\ RoundInv(t)
      BY DEF DialogInv, Shapes, Ask, Waiting
<1>2. i \in Calls(t) /\ i \in Nat
  <2>1. Calls(t) = 1 .. Len(rd[t].calls) /\ Len(rd[t].calls) \in Nat
        BY CallsFinite DEF DialogInv
  <2>2. Unanswered(t) \subseteq Calls(t) /\ Unanswered(t) # {}
        BY DEF Unanswered, Ask
  <2>3. \E j \in Unanswered(t) : \A k \in Unanswered(t) : j <= k
        BY <2>1, <2>2, LeastOfMany
  <2> QED BY <2>1, <2>2, <2>3 DEF FirstOf
<1>3. id \in Ids /\ x \in Items /\ x[1] = i /\ x[2] = id /\ x[2][1] = "question"
      BY <1>2 DEF DialogInv, Shapes, Id, Ids, Tables, Items
<1>4. rd' = [rd EXCEPT ![t] = r] /\ pending' = pending \cup {id}
      BY <1>1 DEF Ask, DialogInv, Shapes, Round
<1> HIDE DEF i
<1>5. <<x>> \in Seq(Items) /\ DOMAIN <<x>> = {1} /\ <<x>>[1] = x
      BY <1>3
<1>6. OwnIds(t) /\ x[2] = Id(x[2][1], t, x[1])
      BY <1>1, <1>3 DEF RoundInv, Id
<1> HIDE DEF x
<1>7. r \in Round
      BY <1>1, <1>3, <1>5 DEF Round
<1>8. /\ r.phase = "questions" /\ r.live = rd[t].live /\ r.calls = rd[t].calls
      /\ r.need = rd[t].need /\ r.req = rd[t].req \cup {x} /\ r.queue = <<x>>
      /\ r.started = rd[t].started /\ r.denied = rd[t].denied /\ r.hooked = rd[t].hooked
      BY <1>1 DEF Round
<1> HIDE DEF r
<1>9. rd'[t] = r /\ OthersKeep(t) /\ UNCHANGED <<rounds, sent, orphans, count>>
      BY <1>4 DEF Ask, DialogInv, Shapes, OthersKeep, shared
<1>10. Shapes'
       BY <1>3, <1>4, <1>7, <1>9 DEF DialogInv, Shapes
<1>11. InOrder(t)'
  <2>1. rd[t].started = {}
        BY <1>1 DEF RoundInv, InOrder, Dispatching
  <2> QED BY <1>3, <1>5, <1>8, <1>9, <2>1 DEF InOrder, Dispatching
<1>12. OwnIds(t)'
       BY <1>6, <1>8, <1>9 DEF OwnIds, Id
<1>13. AllAsked(t)'
       BY <1>1, <1>8, <1>9 DEF RoundInv, AllAsked, Calls, Dialog, Id
<1>14. Decided(t)'
       BY <1>1, <1>3, <1>8, <1>9 DEF RoundInv, Decided, Queued, Approved
<1>15. NoStalePending'
  <2>1. \E k \in DOMAIN rd'[t].queue : rd'[t].queue[k][2] = id
        BY <1>3, <1>5, <1>8, <1>9
  <2>2. ASSUME NEW p \in pending
        PROVE  \/ p \in orphans
               \/ \E u \in Transcripts : \E k \in DOMAIN rd'[u].queue : rd'[u].queue[k][2] = p
    <3>1. ASSUME NEW u \in Transcripts, NEW k \in DOMAIN rd[u].queue, rd[u].queue[k][2] = p
          PROVE  rd'[u].queue = rd[u].queue
          BY <1>1, <1>9, <3>1 DEF OthersKeep
    <3> QED BY <3>1 DEF DialogInv, NoStalePending
  <2>3. \A p \in pending' : p \in pending \/ p = id
        BY <1>4
  <2> QED BY <1>9, <2>1, <2>2, <2>3 DEF NoStalePending
<1> QED BY <1>9, <1>10, <1>11, <1>12, <1>13, <1>14, <1>15, OthersStay DEF DialogInv, RoundInv

(* A question is settled, answered or not.                                 *)
LEMMA SettleQuestionStep ==
    ASSUME DialogInv, NEW t \in Transcripts, SettleQuestion(t)
    PROVE  DialogInv'
<1> DEFINE i == Head1(t)[1]
           r == [rd[t] EXCEPT !.queue = Tail(@), !.poll = "try", !.answered = @ \cup {i}]
<1>1. rd[t] \in Round /\ rd[t].phase = "questions" /\ Waiting(t) /\ RoundInv(t)
      BY DEF DialogInv, Shapes, SettleQuestion, Over
<1>2. /\ rd[t].queue \in Seq(Items) /\ rd[t].queue # <<>>
      /\ Head1(t) \in Items /\ Tail(rd[t].queue) \in Seq(Items)
      BY <1>1, HeadLeaves DEF Round, Waiting, Head1
<1>3. i \in Nat
      BY <1>2 DEF Items
<1>4. rd' = [rd EXCEPT ![t] = r]
      BY <1>1 DEF SettleQuestion, Settled, DialogInv, Shapes, Round
<1>5. Head1(t)[2][1] # "approval"
      BY <1>1, <1>2 DEF RoundInv, InOrder, Head1
<1> HIDE DEF i
<1>6. r \in Round
      BY <1>1, <1>2, <1>3 DEF Round, Polls
<1>7. /\ r.phase = "questions" /\ r.live = rd[t].live /\ r.calls = rd[t].calls
      /\ r.need = rd[t].need /\ r.req = rd[t].req /\ r.queue = Tail(rd[t].queue)
      /\ r.started = rd[t].started /\ r.denied = rd[t].denied
      BY <1>1 DEF Round
<1>8. /\ UNCHANGED <<rounds, sent, orphans, count>>
      /\ pending' = pending \ {Head1(t)[2]}
      BY DEF SettleQuestion, shared
<1> HIDE DEF r
<1> QED BY <1>1, <1>4, <1>5, <1>6, <1>7, <1>8, SettleStep

(* Steps of a round that waits for nobody, around the dispatch: more calls *)
(* may be refused before it, and calls that are not refused are started.   *)
LEMMA DispatchStep ==
    ASSUME DialogInv, NEW t \in Transcripts, NEW r \in Round,
           rd' = [rd EXCEPT ![t] = r], UNCHANGED <<rounds, pending, sent, orphans>>,
           count' \in [Kinds -> Nat],
           rd[t].phase \notin {"idle", "gate", "register", "approvals"},
           rd[t].queue = <<>>, r.queue = <<>>,
           r.phase \in Dispatching, r.live = rd[t].live, r.calls = rd[t].calls,
           r.hooked = rd[t].hooked, r.need = rd[t].need, r.req = rd[t].req,
           rd[t].denied \subseteq r.denied,
           r.started \cap (r.hooked \cup r.denied) = {},
           r.phase = "counted" => r.at \in Calls(t) \ (r.hooked \cup r.denied),
           r.phase = "parallel" => \A i \in Calls(t) : rd[t].calls[i] \notin Mutating
    PROVE  DialogInv'
<1>1. rd'[t] = r /\ OthersKeep(t)
      BY DEF DialogInv, Shapes, OthersKeep
<1>2. Shapes'
      BY DEF DialogInv, Shapes
<1>3. RoundInv(t)
      BY DEF DialogInv
<1>4. InOrder(t)'
  <2>1. Calls(t)' = Calls(t) /\ Refused(t)' = r.hooked \cup r.denied
        BY <1>1 DEF Calls, Refused
  <2> QED BY <1>1, <2>1 DEF InOrder, Dispatching
<1>5. OwnIds(t)' /\ AllAsked(t)'
      BY <1>1, <1>3 DEF RoundInv, OwnIds, AllAsked, Calls, Dialog, Id, Dispatching
<1>6. Decided(t)'
      BY <1>1, <1>3 DEF RoundInv, Decided, Queued, Approved
<1>7. \A u \in Transcripts : rd'[u].queue = rd[u].queue
      BY <1>1 DEF OthersKeep
<1>8. NoStalePending'
      BY <1>7 DEF DialogInv, NoStalePending
<1> QED BY <1>1, <1>2, <1>4, <1>5, <1>6, <1>8, OthersStay DEF DialogInv, RoundInv

(* The edited calls are gated again, and the dispatch begins.              *)
LEMMA GateEditedStep ==
    ASSUME DialogInv, NEW t \in Transcripts, GateEdited(t)
    PROVE  DialogInv'
<1> DEFINE phase == IF Serial(t) THEN "serial" ELSE "parallel"
<1>1. PICK refused \in SUBSET rd[t].edited :
          rd' = [rd EXCEPT ![t].denied = @ \cup refused, ![t].phase = phase]
      BY DEF GateEdited
<1> DEFINE r == [rd[t] EXCEPT !.denied = @ \cup refused, !.phase = phase]
<1>2. rd[t] \in Round /\ rd[t].phase = "questions" /\ rd[t].queue = <<>> /\ RoundInv(t)
      BY DEF DialogInv, Shapes, GateEdited, Waiting
<1>3. rd' = [rd EXCEPT ![t] = r]
      BY <1>1, <1>2 DEF DialogInv, Shapes, Round
<1>4. phase \in Dispatching /\ phase \in Phases /\ phase # "counted"
      /\ (phase = "parallel" => \A i \in Calls(t) : rd[t].calls[i] \notin Mutating)
      BY DEF Dispatching, Phases, Serial
<1> HIDE DEF phase
<1>5. r \in Round
      BY <1>1, <1>2, <1>4 DEF Round
<1>6. /\ r.phase = phase /\ r.live = rd[t].live /\ r.calls = rd[t].calls
      /\ r.need = rd[t].need /\ r.req = rd[t].req /\ r.queue = rd[t].queue
      /\ r.started = rd[t].started /\ r.denied = rd[t].denied \cup refused
      /\ r.hooked = rd[t].hooked
      BY <1>2 DEF Round
<1>7. rd[t].started = {}
      BY <1>2 DEF RoundInv, InOrder, Dispatching
<1>8. UNCHANGED <<rounds, pending, sent, orphans>> /\ count' \in [Kinds -> Nat]
      BY DEF GateEdited, shared, DialogInv, Shapes
<1> HIDE DEF r
<1> QED BY <1>2, <1>3, <1>4, <1>5, <1>6, <1>7, <1>8, DispatchStep

(* A call within the quota is going to be counted.                         *)
LEMMA CheckQuotaStep ==
    ASSUME DialogInv, NEW t \in Transcripts, CheckQuota(t)
    PROVE  DialogInv'
<1>1. /\ rd[t] \in Round /\ rd[t].phase = "serial" /\ RoundInv(t)
      /\ rd[t].at \in Calls(t) \ Refused(t)
      BY DEF DialogInv, Shapes, CheckQuota
<1>2. UNCHANGED <<rounds, pending, sent, orphans, count>> /\ count' \in [Kinds -> Nat]
      BY DEF CheckQuota, shared, DialogInv, Shapes
<1>3. CASE rd' = [rd EXCEPT ![t].at = @ + 1]
  <2> DEFINE r == [rd[t] EXCEPT !.at = @ + 1]
  <2>1. rd' = [rd EXCEPT ![t] = r]
        BY <1>1, <1>3 DEF DialogInv, Shapes, Round
  <2>2. r \in Round
    <3>1. rd[t].at + 1 \in Nat
          BY <1>1 DEF Round
    <3> QED BY <1>1, <3>1 DEF Round
  <2>3. /\ r.phase = rd[t].phase /\ r.live = rd[t].live /\ r.calls = rd[t].calls
        /\ r.hooked = rd[t].hooked /\ r.denied = rd[t].denied /\ r.need = rd[t].need
        /\ r.req = rd[t].req /\ r.queue = rd[t].queue /\ r.started = rd[t].started
        BY <1>1 DEF Round
  <2> HIDE DEF r
  <2> QED BY <1>1, <1>2, <2>1, <2>2, <2>3, SideStep
<1>4. CASE rd' = [rd EXCEPT ![t].phase = "counted"]
  <2> DEFINE r == [rd[t] EXCEPT !.phase = "counted"]
  <2>1. rd' = [rd EXCEPT ![t] = r]
        BY <1>1, <1>4 DEF DialogInv, Shapes, Round
  <2>2. r \in Round
        BY <1>1 DEF Round, Phases
  <2>3. /\ r.phase = "counted" /\ r.live = rd[t].live /\ r.calls = rd[t].calls
        /\ r.hooked = rd[t].hooked /\ r.denied = rd[t].denied /\ r.need = rd[t].need
        /\ r.req = rd[t].req /\ r.queue = rd[t].queue /\ r.started = rd[t].started
        /\ r.at = rd[t].at
        BY <1>1 DEF Round
  <2>4. rd[t].queue = <<>> /\ rd[t].started \cap Refused(t) = {}
        BY <1>1 DEF RoundInv, InOrder, Dispatching
  <2> HIDE DEF r
  <2> QED BY <1>1, <1>2, <2>1, <2>2, <2>3, <2>4, DispatchStep DEF Refused, Dispatching
<1> QED BY <1>3, <1>4 DEF CheckQuota

(* A counted call starts; it was not refused.                              *)
LEMMA LaunchStep ==
    ASSUME DialogInv, NEW t \in Transcripts, Launch(t)
    PROVE  DialogInv'
<1> DEFINE i == rd[t].at
           r == [rd[t] EXCEPT !.phase = "serial", !.started = @ \cup {i}, !.running = {i}]
<1>1. rd[t] \in Round /\ rd[t].phase = "counted" /\ RoundInv(t)
      BY DEF DialogInv, Shapes, Launch
<1>2. /\ i \in Calls(t) \ Refused(t) /\ i \in Nat /\ rd[t].queue = <<>>
      /\ rd[t].started \cap Refused(t) = {}
      BY <1>1 DEF RoundInv, InOrder, Dispatching, Round
<1>3. rd' = [rd EXCEPT ![t] = r]
      BY <1>1 DEF Launch, DialogInv, Shapes, Round
<1>4. r \in Round
      BY <1>1, <1>2 DEF Round, Phases
<1>5. /\ r.phase = "serial" /\ r.live = rd[t].live /\ r.calls = rd[t].calls
      /\ r.hooked = rd[t].hooked /\ r.denied = rd[t].denied /\ r.need = rd[t].need
      /\ r.req = rd[t].req /\ r.queue = rd[t].queue /\ r.started = rd[t].started \cup {i}
      BY <1>1 DEF Round
<1>6. UNCHANGED <<rounds, pending, sent, orphans>>
      BY DEF Launch
<1>7. count' \in [Kinds -> Nat]
  <2>1. rd[t].calls[i] \in Kinds
        BY <1>1, <1>2 DEF Round, Calls
  <2>2. count' = [count EXCEPT ![rd[t].calls[i]] = @ + 1] /\ count \in [Kinds -> Nat]
        BY DEF Launch, DialogInv, Shapes
  <2> QED BY <2>1, <2>2
<1> HIDE DEF r
<1> QED BY <1>1, <1>2, <1>3, <1>4, <1>5, <1>6, <1>7, DispatchStep DEF Refused, Dispatching

(* All the calls of a harmless round that were not refused start.          *)
LEMMA LaunchAllStep ==
    ASSUME DialogInv, NEW t \in Transcripts, LaunchAll(t)
    PROVE  DialogInv'
<1> DEFINE S == Calls(t) \ Refused(t)
           r == [rd[t] EXCEPT !.at = Len(rd[t].calls) + 1, !.started = S, !.running = S]
<1>1. rd[t] \in Round /\ rd[t].phase = "parallel" /\ RoundInv(t)
      BY DEF DialogInv, Shapes, LaunchAll
<1>2. /\ rd[t].queue = <<>> /\ \A i \in Calls(t) : rd[t].calls[i] \notin Mutating
      BY <1>1 DEF RoundInv, InOrder, Dispatching
<1>3. /\ IsFiniteSet(Calls(t)) /\ Len(rd[t].calls) \in Nat /\ S \in SUBSET Nat
      BY CallsFinite DEF DialogInv
<1>4. rd' = [rd EXCEPT ![t] = r]
      BY <1>1 DEF LaunchAll, DialogInv, Shapes, Round
<1>5. S \cap Refused(t) = {}
      OBVIOUS
<1> HIDE DEF S
<1>6. r \in Round
  <2>1. Len(rd[t].calls) + 1 \in Nat
        BY <1>3
  <2> QED BY <1>1, <1>3, <2>1 DEF Round
<1>7. /\ r.phase = "parallel" /\ r.live = rd[t].live /\ r.calls = rd[t].calls
      /\ r.hooked = rd[t].hooked /\ r.denied = rd[t].denied /\ r.need = rd[t].need
      /\ r.req = rd[t].req /\ r.queue = rd[t].queue /\ r.started = S
      BY <1>1 DEF Round
<1>8. UNCHANGED <<rounds, pending, sent, orphans>>
      BY DEF LaunchAll
<1>9. count' \in [Kinds -> Nat]
  <2>1. ASSUME NEW k \in Kinds
        PROVE  Cardinality({i \in Calls(t) : rd[t].calls[i] = k}) \in Nat
    <3>1. {i \in Calls(t) : rd[t].calls[i] = k} \in SUBSET Calls(t)
          OBVIOUS
    <3> QED BY <1>3, <3>1, FS_Subset, FS_CardinalityType
  <2>2. \A k \in Kinds : count[k] \in Nat
        BY DEF DialogInv, Shapes
  <2>3. \A k \in Kinds :
            count[k] + Cardinality({i \in Calls(t) : rd[t].calls[i] = k}) \in Nat
        BY <2>1, <2>2
  <2> QED BY <2>3 DEF LaunchAll
<1> HIDE DEF r
<1> QED BY <1>1, <1>2, <1>4, <1>5, <1>6, <1>7, <1>8, <1>9, DispatchStep
        DEF Refused, Dispatching

(* The steps that stay inside a phase of their round.                      *)
LEMMA SideSteps ==
    ASSUME DialogInv, NEW t \in Transcripts,
           \/ PollEmpty(t) \/ SeeCancel(t) \/ SeeDeadline(t) \/ SleepAndRetry(t)
           \/ AnswerAlone(t) \/ SkipRefused(t) \/ ToolEnds(t)
    PROVE  DialogInv'
<1>1. rd[t] \in Round
      BY DEF DialogInv, Shapes
<1>2. UNCHANGED <<rounds, pending, sent, orphans, count>>
      BY DEF PollEmpty, SeeCancel, SeeDeadline, SleepAndRetry, AnswerAlone, SkipRefused, ToolEnds,
             shared
<1>3. ASSUME NEW p \in Polls, rd' = [rd EXCEPT ![t].poll = p] PROVE DialogInv'
  <2> DEFINE r == [rd[t] EXCEPT !.poll = p]
  <2>1. rd' = [rd EXCEPT ![t] = r] /\ r \in Round
        BY <1>1, <1>3 DEF DialogInv, Shapes, Round
  <2>2. /\ r.phase = rd[t].phase /\ r.live = rd[t].live /\ r.calls = rd[t].calls
        /\ r.hooked = rd[t].hooked /\ r.denied = rd[t].denied /\ r.need = rd[t].need
        /\ r.req = rd[t].req /\ r.queue = rd[t].queue /\ r.started = rd[t].started
        /\ r.at = rd[t].at
        BY <1>1 DEF Round
  <2> HIDE DEF r
  <2> QED BY <1>2, <2>1, <2>2, SideStep
<1>4. CASE PollEmpty(t) \/ SeeCancel(t) \/ SeeDeadline(t) \/ SleepAndRetry(t)
      BY <1>3, <1>4 DEF PollEmpty, SeeCancel, SeeDeadline, SleepAndRetry, Polls
<1>5. CASE AnswerAlone(t)
  <2> DEFINE i == FirstOf(Unanswered(t))
             r == [rd[t] EXCEPT !.answered = @ \cup {i}]
  <2>1. Unanswered(t) \in SUBSET Nat /\ Unanswered(t) # {}
        BY <1>5, CallsFinite DEF DialogInv, AnswerAlone, Unanswered
  <2>2. i \in Nat
        BY <2>1, LeastOfMany DEF FirstOf
  <2>3. rd' = [rd EXCEPT ![t] = r]
        BY <1>1, <1>5 DEF AnswerAlone, DialogInv, Shapes, Round
  <2> HIDE DEF i
  <2>4. r \in Round
        BY <1>1, <2>2 DEF Round
  <2>5. /\ r.phase = rd[t].phase /\ r.live = rd[t].live /\ r.calls = rd[t].calls
        /\ r.hooked = rd[t].hooked /\ r.denied = rd[t].denied /\ r.need = rd[t].need
        /\ r.req = rd[t].req /\ r.queue = rd[t].queue /\ r.started = rd[t].started
        /\ r.at = rd[t].at
        BY <1>1 DEF Round
  <2> HIDE DEF r
  <2> QED BY <1>2, <2>3, <2>4, <2>5, SideStep
<1>6. CASE SkipRefused(t) \/ ToolEnds(t)
  <2>1. PICK running \in SUBSET Nat, at \in Nat :
            /\ rd' = [rd EXCEPT ![t] = [rd[t] EXCEPT !.running = running, !.at = at]]
            /\ rd[t].phase = "counted" => at = rd[t].at
    <3>1. CASE SkipRefused(t)
      <4>1. /\ rd' = [rd EXCEPT ![t] = [rd[t] EXCEPT !.running = rd[t].running,
                                                     !.at = rd[t].at + 1]]
            /\ rd[t].phase = "serial"
            BY <1>1, <3>1 DEF SkipRefused, DialogInv, Shapes, Round
      <4>2. rd[t].running \in SUBSET Nat /\ rd[t].at + 1 \in Nat
            BY <1>1 DEF Round
      <4> QED BY <4>1, <4>2
    <3>2. CASE ToolEnds(t)
      <4>1. PICK i \in rd[t].running :
                rd' = [rd EXCEPT ![t].running = @ \ {i},
                                 ![t].at = IF rd[t].phase = "serial" THEN @ + 1 ELSE @]
            BY <3>2 DEF ToolEnds
      <4> DEFINE at == IF rd[t].phase = "serial" THEN rd[t].at + 1 ELSE rd[t].at
      <4>2. rd' = [rd EXCEPT ![t] = [rd[t] EXCEPT !.running = rd[t].running \ {i}, !.at = at]]
            BY <1>1, <4>1 DEF DialogInv, Shapes, Round
      <4>3. rd[t].running \ {i} \in SUBSET Nat /\ at \in Nat
            BY <1>1 DEF Round
      <4>4. rd[t].phase = "counted" => at = rd[t].at
            OBVIOUS
      <4> QED BY <4>2, <4>3, <4>4
    <3> QED BY <1>6, <3>1, <3>2
  <2> DEFINE r == [rd[t] EXCEPT !.running = running, !.at = at]
  <2>2. r \in Round
        BY <1>1 DEF Round
  <2>3. /\ r.phase = rd[t].phase /\ r.live = rd[t].live /\ r.calls = rd[t].calls
        /\ r.hooked = rd[t].hooked /\ r.denied = rd[t].denied /\ r.need = rd[t].need
        /\ r.req = rd[t].req /\ r.queue = rd[t].queue /\ r.started = rd[t].started
        /\ r.at = at
        BY <1>1 DEF Round
  <2> HIDE DEF r
  <2>4. rd' = [rd EXCEPT ![t] = r]
        BY <2>1 DEF r
  <2> QED BY <1>2, <2>1, <2>2, <2>3, <2>4, SideStep
<1> QED BY <1>4, <1>5, <1>6

(* The round is over: its results leave with it, and nobody is waited for. *)
LEMMA FinishStep ==
    ASSUME DialogInv, NEW t \in Transcripts, FinishRound(t)
    PROVE  DialogInv'
<1>1. rd[t].queue = <<>>
      BY DEF FinishRound, DialogInv, RoundInv, InOrder, Dispatching
<1>2. DOMAIN rd[t].queue = {}
      BY <1>1
<1>3. orphans \subseteq Ids
      BY DEF DialogInv, Shapes
<1> QED BY <1>2, <1>3, RoundGone DEF FinishRound

(* The round is dropped: the map keeps its senders, which are orphans now. *)
LEMMA DropStep ==
    ASSUME DialogInv, NEW t \in Transcripts, Drop(t)
    PROVE  DialogInv'
<1>1. orphans' = orphans \cup {rd[t].queue[k][2] : k \in DOMAIN rd[t].queue}
      BY DEF Drop
<1>2. \A k \in DOMAIN rd[t].queue : rd[t].queue[k][2] \in Ids
  <2>1. rd[t].queue \in Seq(Items)
        BY DEF DialogInv, Shapes, Round
  <2>2. \A k \in DOMAIN rd[t].queue : rd[t].queue[k] \in Items
        BY <2>1
  <2> QED BY <2>2 DEF Items
<1>3. orphans \subseteq Ids
      BY DEF DialogInv, Shapes
<1> QED BY <1>1, <1>2, <1>3, RoundGone DEF Drop, shared

(* A step that answers, or takes senders away, or is about something else. *)
LEMMA AnswerStep ==
    ASSUME DialogInv, UNCHANGED <<rd, rounds, orphans>>, pending' \subseteq pending,
           sent \subseteq sent', sent' \subseteq Ids \X Answers, count' \in [Kinds -> Nat]
    PROVE  DialogInv'
<1>1. Shapes'
      BY DEF DialogInv, Shapes
<1>2. NoStalePending'
      BY DEF DialogInv, NoStalePending
<1> QED BY <1>1, <1>2, RoundsStay DEF DialogInv

(* Whatever the rounds, the user and the shutdown do.                      *)
LEMMA DialogStep == DialogInv /\ [Next]_vars => DialogInv'
<1> SUFFICES ASSUME DialogInv, [Next]_vars PROVE DialogInv'
    OBVIOUS
<1>a. sent \subseteq Ids \X Answers /\ count \in [Kinds -> Nat] /\ pending \subseteq Ids
      BY DEF DialogInv, Shapes
<1>1. ASSUME NEW t \in Transcripts, Step(t) \/ SeeDeadline(t) \/ BeginRound(t) \/ Drop(t)
      PROVE  DialogInv'
      BY <1>1, GateStep, RegisterStep, SideSteps, SettleApprovalStep, AskStep,
         SettleQuestionStep, GateEditedStep, CheckQuotaStep, LaunchStep, LaunchAllStep,
         FinishStep, BeginRoundStep, DropStep
      DEF Step
<1>2. ASSUME NEW t \in Transcripts, BeginTurn(t) \/ Cancel(t) PROVE DialogInv'
  <2>1. UNCHANGED <<rd, rounds, pending, sent, orphans>> /\ count' \in [Kinds -> Nat]
        BY <1>2, <1>a DEF BeginTurn, Cancel, shared
  <2> QED BY <1>a, <2>1, AnswerStep
<1>3. ASSUME NEW id \in pending, NEW d \in Decisions \cup {"text"}, Respond(id, d)
      PROVE  DialogInv'
  <2>1. /\ UNCHANGED <<rd, rounds, orphans, count>> /\ pending' \subseteq pending
        /\ sent' = sent \/ sent' = sent \cup {<<id, d>>}
        BY <1>3 DEF Respond, shared
  <2>2. <<id, d>> \in Ids \X Answers
        BY <1>a DEF Answers
  <2> QED BY <1>a, <2>1, <2>2, AnswerStep
<1>4. CASE DenyAll
  <2>1. UNCHANGED <<rd, rounds, orphans, count>> /\ pending' \subseteq pending
        BY <1>4 DEF DenyAll, shared
  <2>2. /\ sent \subseteq sent'
        /\ sent' \subseteq sent \cup {<<id, "Deny">> : id \in Approvals}
        BY <1>4 DEF DenyAll
  <2>3. {<<id, "Deny">> : id \in Approvals} \subseteq Ids \X Answers
        BY <1>a DEF Approvals, Answers, Decisions
  <2> QED BY <1>a, <2>1, <2>2, <2>3, AnswerStep
<1>5. ASSUME NEW k \in HighImpact, LearnAllow(k) PROVE DialogInv'
      BY <1>5, <1>a, AnswerStep DEF LearnAllow
<1>6. CASE ClearLearned \/ RemoveDenyRule \/ ClearTaint \/ Pause \/ Resume \/ ShutdownCancel
      BY <1>6, <1>a, AnswerStep
      DEF ClearLearned, RemoveDenyRule, ClearTaint, Pause, Resume, ShutdownCancel, shared
<1>7. CASE ShutdownClear
      BY <1>7, <1>a, AnswerStep DEF ShutdownClear, shared
<1>8. CASE UNCHANGED vars
      BY <1>8, <1>a, AnswerStep DEF vars, shared
<1> QED BY <1>1, <1>2, <1>3, <1>4, <1>5, <1>6, <1>7, <1>8 DEF Next

(* The invariant of the dialogs holds of every run.                        *)
LEMMA DialogInvHolds == Spec => []DialogInv
BY DialogInit, DialogStep, PTL DEF Spec

(* Nothing runs without consent, whatever the order of answers, cancels,   *)
(* deadlines, drops and the shutdown, in any number of concurrent rounds.  *)
THEOREM NothingRunsWithoutConsent == Spec => []Consent
<1>1. DialogInv => Consent
  <2> SUFFICES ASSUME DialogInv, NEW t \in Transcripts, NEW i \in rd[t].started
               PROVE  /\ i \notin Refused(t)
                      /\ i \in rd[t].need => rd[t].live /\ Approved(Id("approval", t, i))
      BY DEF Consent
  <2>1. RoundInv(t)
        BY DEF DialogInv
  <2>2. rd[t].phase \in Dispatching /\ rd[t].queue = <<>> /\ i \notin Refused(t)
        BY <2>1 DEF RoundInv, InOrder
  <2>3. i \notin rd[t].denied
        BY <2>2 DEF Refused
  <2>4. ASSUME i \in rd[t].need PROVE rd[t].live /\ Approved(Id("approval", t, i))
    <3>1. rd[t].live
          BY <2>1, <2>3, <2>4 DEF RoundInv, AllAsked
    <3>2. Dialog(t, i) \in rd[t].req
          BY <2>1, <2>2, <2>4, <3>1 DEF RoundInv, AllAsked, Dispatching
    <3>3. Dialog(t, i)[1] = i /\ Dialog(t, i)[2] = Id("approval", t, i)
              /\ Dialog(t, i)[2][1] = "approval"
          BY DEF Dialog, Id
    <3>4. ~Queued(t, Dialog(t, i))
          BY <2>2 DEF Queued
    <3> QED BY <2>1, <2>3, <3>1, <3>2, <3>3, <3>4 DEF RoundInv, Decided
  <2> QED BY <2>2, <2>4
<1> QED BY <1>1, DialogInvHolds, PTL

(* No answered, cancelled, timed-out or finished dialog leaves its sender  *)
(* in the maps; only a round that was dropped does.                        *)
THEOREM NoSenderIsLeftBehind == Spec => []NoStalePending
<1>1. DialogInv => NoStalePending
      BY DEF DialogInv
<1> QED BY <1>1, DialogInvHolds, PTL

-----------------------------------------------------------------------------
(* The transcripts that have passed the quota check of a call of kind k    *)
(* and not counted it yet.                                                 *)
Passed(k) == {t \in Transcripts : rd[t].phase = "counted" /\ rd[t].calls[rd[t].at] = k}

(* Whoever passes the check finds less than the quota, so what is counted  *)
(* and what is about to be stays below the quota and one per transcript.   *)
QuotaInv ==
    PerTurn > 0 =>
        \A k \in Mutating : count[k] + Cardinality(Passed(k)) < PerTurn + Cardinality(Transcripts)

(* The transcripts are finitely many.                                      *)
LEMMA PassedFinite ==
    ASSUME NEW k
    PROVE  /\ IsFiniteSet(Passed(k)) /\ Cardinality(Passed(k)) \in Nat
           /\ Cardinality(Passed(k)) <= Cardinality(Transcripts)
           /\ Cardinality(Transcripts) \in Nat
<1>1. Passed(k) \in SUBSET Transcripts
      BY DEF Passed
<1> QED BY <1>1, RoundAssumption, FS_Subset, FS_CardinalityType

(* Only a check adds to the transcripts that have passed it.               *)
LEMMA QuotaStep ==
    ASSUME DialogInv, QuotaInv, [Next]_vars
    PROVE  QuotaInv'
<1> SUFFICES ASSUME PerTurn > 0, NEW k \in Mutating
             PROVE  count'[k] + Cardinality(Passed(k)') < PerTurn + Cardinality(Transcripts)
    BY DEF QuotaInv
<1> DEFINE Within == count'[k] + Cardinality(Passed(k)') < PerTurn + Cardinality(Transcripts)
<1>a. /\ count[k] \in Nat /\ PerTurn \in Nat /\ k \in Kinds
      /\ count[k] + Cardinality(Passed(k)) < PerTurn + Cardinality(Transcripts)
      BY RoundAssumption DEF DialogInv, Shapes, QuotaInv, Mutating, Kinds
<1>b. /\ IsFiniteSet(Passed(k)) /\ Cardinality(Passed(k)) \in Nat
      /\ Cardinality(Transcripts) \in Nat
      BY PassedFinite
<1>c. Passed(k)' \in SUBSET Transcripts
      BY DEF Passed
<1>d. IsFiniteSet(Passed(k)') /\ Cardinality(Passed(k)') \in Nat
          /\ Cardinality(Passed(k)') <= Cardinality(Transcripts)
      BY <1>c, RoundAssumption, FS_Subset, FS_CardinalityType
<1>e. ASSUME count'[k] = count[k] \/ count'[k] = 0, Passed(k)' \subseteq Passed(k) PROVE Within
  <2>1. Cardinality(Passed(k)') <= Cardinality(Passed(k))
        BY <1>b, <1>e, FS_Subset
  <2> QED BY <1>a, <1>b, <1>d, <1>e, <2>1
<1>1. ASSUME NEW t \in Transcripts, CheckQuota(t) PROVE Within
  <2>1. count' = count
        BY <1>1 DEF CheckQuota, shared
  <2>2. CASE rd[t].calls[rd[t].at] = k /\ count[k] < PerTurn
        BY <1>a, <1>b, <1>d, <2>1, <2>2
  <2>3. CASE ~(rd[t].calls[rd[t].at] = k /\ count[k] < PerTurn)
    <3>1. rd[t] \in Round /\ rd[t].phase = "serial"
          BY <1>1 DEF DialogInv, Shapes, CheckQuota
    <3>2. Passed(k)' \subseteq Passed(k)
      <4>1. CASE rd' = [rd EXCEPT ![t].at = @ + 1]
            BY <3>1, <4>1 DEF Passed, DialogInv, Shapes, Round
      <4>2. CASE rd' = [rd EXCEPT ![t].phase = "counted"] /\ rd[t].calls[rd[t].at] # k
            BY <3>1, <4>2 DEF Passed, DialogInv, Shapes, Round
      <4>3. CASE rd[t].calls[rd[t].at] = k /\ ~(count[k] < PerTurn)
        <5>1. rd' = [rd EXCEPT ![t].at = @ + 1]
              BY <1>1, <1>a, <4>3 DEF CheckQuota
        <5> QED BY <4>1, <5>1
      <4> QED BY <1>1, <2>3, <4>1, <4>2, <4>3 DEF CheckQuota
    <3> QED BY <1>e, <2>1, <3>2
  <2> QED BY <2>2, <2>3
<1>2. ASSUME NEW t \in Transcripts, Launch(t) PROVE Within
  <2>1. rd[t] \in Round /\ rd[t].phase = "counted" /\ rd[t].at \in Calls(t)
        BY <1>2 DEF DialogInv, Shapes, Launch, RoundInv, InOrder
  <2>2. Passed(k)' = Passed(k) \ {t}
        BY <1>2, <2>1 DEF Launch, Passed, DialogInv, Shapes, Round
  <2>3. CASE rd[t].calls[rd[t].at] = k
    <3>1. t \in Passed(k)
          BY <2>1, <2>3 DEF Passed
    <3>2. Cardinality(Passed(k)') = Cardinality(Passed(k)) - 1
          BY <1>b, <2>2, <3>1, FS_RemoveElement
    <3>3. count'[k] = count[k] + 1
          BY <1>2, <1>a, <2>3 DEF Launch, DialogInv, Shapes
    <3> QED BY <1>a, <1>b, <3>2, <3>3
  <2>4. CASE rd[t].calls[rd[t].at] # k
    <3>1. count'[k] = count[k]
          BY <1>2, <1>a, <2>4 DEF Launch, DialogInv, Shapes
    <3> QED BY <1>e, <2>2, <3>1
  <2> QED BY <2>3, <2>4
<1>3. ASSUME NEW t \in Transcripts, LaunchAll(t) PROVE Within
  <2>1. rd[t] \in Round /\ rd[t].phase = "parallel"
        BY <1>3 DEF DialogInv, Shapes, LaunchAll
  <2>2. Passed(k)' \subseteq Passed(k)
        BY <1>3, <2>1 DEF LaunchAll, Passed, DialogInv, Shapes, Round
  <2>3. {i \in Calls(t) : rd[t].calls[i] = k} = {}
        BY <2>1 DEF DialogInv, RoundInv, InOrder
  <2>4. count'[k] = count[k]
        BY <1>3, <1>a, <2>3, FS_EmptySet DEF LaunchAll
  <2> QED BY <1>e, <2>2, <2>4
<1>f. ASSUME NEW t \in Transcripts, count' = count, \A u \in Transcripts \ {t} : rd'[u] = rd[u],
             rd'[t].phase = "counted" =>
                 /\ rd[t].phase = "counted" /\ rd'[t].at = rd[t].at
                 /\ rd'[t].calls = rd[t].calls
      PROVE  Within
  <2>1. Passed(k)' \subseteq Passed(k)
        BY <1>f DEF Passed
  <2> QED BY <1>e, <1>f, <2>1
<1>4. ASSUME NEW t \in Transcripts, BeginTurn(t) PROVE Within
  <2>1. count'[k] = 0 /\ Passed(k)' = Passed(k)
        BY <1>4, <1>a DEF BeginTurn, Passed
  <2> QED BY <1>e, <2>1
<1>5. ASSUME NEW t \in Transcripts,
             \/ BeginRound(t) \/ Gate(t) \/ Register(t) \/ SettleApproval(t)
             \/ GateEdited(t) \/ FinishRound(t) \/ Drop(t)
      PROVE  Within
  <2>1. count' = count /\ \A u \in Transcripts \ {t} : rd'[u] = rd[u]
        BY <1>5 DEF BeginRound, Gate, Register, SettleApproval, GateEdited, FinishRound, Drop,
                    shared, DialogInv, Shapes
  <2>2. rd[t] \in Round
        BY DEF DialogInv, Shapes
  <2>3. CASE BeginRound(t)
    <3>1. rd'[t].phase = "gate"
          BY <2>3 DEF BeginRound, NewRound, DialogInv, Shapes
    <3> QED BY <1>f, <2>1, <3>1
  <2>4. CASE Gate(t)
    <3> DEFINE Gated(o) == {i \in Calls(t) : gate_tool_call(rd[t].calls[i]) = o}
    <3>1. PICK auto \in SUBSET Gated("Ask") :
              rd' = [rd EXCEPT ![t].phase = IF Gated("Ask") \ auto # {} /\ rd[t].live
                                            THEN "register" ELSE "questions",
                               ![t].need = Gated("Ask") \ auto,
                               ![t].denied = IF rd[t].live THEN Gated("Deny")
                                             ELSE Gated("Deny") \cup (Gated("Ask") \ auto)]
          BY <2>4 DEF Gate
    <3> DEFINE need == Gated("Ask") \ auto
               denied == IF rd[t].live THEN Gated("Deny") ELSE Gated("Deny") \cup need
               phase == IF need # {} /\ rd[t].live THEN "register" ELSE "questions"
    <3>2. rd' = [rd EXCEPT ![t].phase = phase, ![t].need = need, ![t].denied = denied]
          BY <3>1
    <3>3. phase \in {"register", "questions"}
          OBVIOUS
    <3> HIDE DEF Gated, need, denied, phase
    <3>4. rd'[t].phase \in {"register", "questions"}
          BY <2>2, <3>2, <3>3 DEF DialogInv, Shapes, Round
    <3> QED BY <1>f, <2>1, <3>4
  <2>5. CASE Register(t)
    <3>1. rd'[t].phase \in {"register", "approvals"}
          BY <2>2, <2>5 DEF Register, DialogInv, Shapes, Round
    <3> QED BY <1>f, <2>1, <3>1
  <2>6. CASE SettleApproval(t)
    <3>1. rd'[t].phase \in {"questions", "approvals"}
          BY <2>2, <2>6 DEF SettleApproval, Settled, DialogInv, Shapes, Round
    <3> QED BY <1>f, <2>1, <3>1
  <2>7. CASE GateEdited(t)
    <3>1. rd'[t].phase \in {"serial", "parallel"}
          BY <2>2, <2>7 DEF GateEdited, DialogInv, Shapes, Round
    <3> QED BY <1>f, <2>1, <3>1
  <2>8. CASE FinishRound(t) \/ Drop(t)
    <3>1. rd'[t].phase = "idle"
          BY <2>8 DEF FinishRound, Drop, NewRound, DialogInv, Shapes
    <3> QED BY <1>f, <2>1, <3>1
  <2> QED BY <1>5, <2>3, <2>4, <2>5, <2>6, <2>7, <2>8
<1>6. ASSUME NEW t \in Transcripts,
             \/ PollEmpty(t) \/ SeeCancel(t) \/ SeeDeadline(t) \/ SleepAndRetry(t)
             \/ AnswerAlone(t) \/ Ask(t) \/ SettleQuestion(t) \/ SkipRefused(t) \/ ToolEnds(t)
      PROVE  Within
  <2>1. count' = count /\ \A u \in Transcripts \ {t} : rd'[u] = rd[u]
        BY <1>6 DEF PollEmpty, SeeCancel, SeeDeadline, SleepAndRetry, AnswerAlone, Ask,
                    SettleQuestion, SkipRefused, ToolEnds, shared, DialogInv, Shapes
  <2>2. rd[t] \in Round
        BY DEF DialogInv, Shapes
  <2>3. CASE PollEmpty(t) \/ SeeCancel(t) \/ SeeDeadline(t) \/ SleepAndRetry(t)
    <3>1. rd'[t].phase = rd[t].phase /\ rd'[t].at = rd[t].at /\ rd'[t].calls = rd[t].calls
          BY <2>2, <2>3 DEF PollEmpty, SeeCancel, SeeDeadline, SleepAndRetry, DialogInv, Shapes,
                            Round
    <3> QED BY <1>f, <2>1, <3>1
  <2>4. CASE AnswerAlone(t) \/ Ask(t) \/ SettleQuestion(t)
    <3>1. CASE AnswerAlone(t)
          BY <1>f, <2>1, <2>2, <3>1 DEF AnswerAlone, DialogInv, Shapes, Round
    <3>2. CASE Ask(t)
      <4> DEFINE x == <<FirstOf(Unanswered(t)), Id("question", t, FirstOf(Unanswered(t)))>>
      <4>1. /\ rd' = [rd EXCEPT ![t].req = @ \cup {x}, ![t].queue = <<x>>]
            /\ rd[t].phase = "questions"
            BY <3>2 DEF Ask
      <4> HIDE DEF x
      <4>2. rd'[t].phase = "questions"
            BY <2>2, <4>1 DEF DialogInv, Shapes, Round
      <4> QED BY <1>f, <2>1, <4>2
    <3>3. CASE SettleQuestion(t)
      <4> DEFINE i == Head1(t)[1]
      <4>1. /\ rd' = [rd EXCEPT ![t] = [Settled(t) EXCEPT !.answered = @ \cup {i}]]
            /\ rd[t].phase = "questions"
            BY <3>3 DEF SettleQuestion
      <4> HIDE DEF i
      <4>2. rd'[t].phase = "questions"
            BY <2>2, <4>1 DEF Settled, DialogInv, Shapes, Round
      <4> QED BY <1>f, <2>1, <4>2
    <3> QED BY <2>4, <3>1, <3>2, <3>3
  <2>5. CASE SkipRefused(t)
    <3>1. rd'[t].phase = "serial"
          BY <2>2, <2>5 DEF SkipRefused, DialogInv, Shapes, Round
    <3> QED BY <1>f, <2>1, <3>1
  <2>6. CASE ToolEnds(t)
    <3>1. /\ rd'[t].phase = rd[t].phase /\ rd'[t].calls = rd[t].calls
          /\ rd[t].phase # "serial" => rd'[t].at = rd[t].at
          BY <2>2, <2>6 DEF ToolEnds, DialogInv, Shapes, Round
    <3> QED BY <1>f, <2>1, <3>1
  <2> QED BY <1>6, <2>3, <2>4, <2>5, <2>6
<1>7. ASSUME UNCHANGED <<rd, count>> PROVE Within
  <2>1. Passed(k)' = Passed(k)
        BY <1>7 DEF Passed
  <2> QED BY <1>e, <1>7, <2>1
<1>8. ASSUME NEW t \in Transcripts, Cancel(t) PROVE Within
      BY <1>7, <1>8 DEF Cancel, shared
<1>9. ASSUME NEW id \in pending, NEW d \in Decisions \cup {"text"}, Respond(id, d) PROVE Within
      BY <1>7, <1>9 DEF Respond, shared
<1>10. ASSUME NEW x \in HighImpact, LearnAllow(x) PROVE Within
       BY <1>7, <1>10 DEF LearnAllow
<1>11. CASE \/ ClearLearned \/ RemoveDenyRule \/ ClearTaint \/ DenyAll \/ Pause \/ Resume
            \/ ShutdownCancel \/ ShutdownClear \/ UNCHANGED vars
       BY <1>7, <1>11 DEF ClearLearned, RemoveDenyRule, ClearTaint, DenyAll, Pause, Resume,
                          ShutdownCancel, ShutdownClear, vars, shared
<1> QED BY <1>1, <1>2, <1>3, <1>4, <1>5, <1>6, <1>8, <1>9, <1>10, <1>11 DEF Next, Step

(* The check and the count are two steps, so the quota of a tool that      *)
(* changes something can be overrun - by less than one call for each       *)
(* transcript, whatever the interleaving of their rounds.                  *)
THEOREM QuotaOverrunIsBounded == Spec => []QuotaOverrun
<1>1. Init => QuotaInv
  <2> SUFFICES ASSUME Init, PerTurn > 0, NEW k \in Mutating
               PROVE  count[k] + Cardinality(Passed(k)) < PerTurn + Cardinality(Transcripts)
      BY DEF QuotaInv
  <2>1. Passed(k) = {} /\ count[k] = 0
        BY DEF Init, Passed, NewRound, Mutating, Kinds
  <2>2. Cardinality(Passed(k)) = 0 /\ Cardinality(Transcripts) \in Nat /\ PerTurn \in Nat
        BY <2>1, PassedFinite, FS_EmptySet, RoundAssumption
  <2> QED BY <2>1, <2>2
<1>2. DialogInv /\ QuotaInv /\ [Next]_vars => QuotaInv'
      BY QuotaStep
<1>3. DialogInv /\ QuotaInv => QuotaOverrun
  <2> SUFFICES ASSUME DialogInv, QuotaInv, PerTurn > 0, NEW k \in Mutating
               PROVE  count[k] < PerTurn + Cardinality(Transcripts)
      BY DEF QuotaOverrun
  <2>1. count[k] \in Nat /\ PerTurn \in Nat
        BY RoundAssumption DEF DialogInv, Shapes, Mutating, Kinds
  <2>2. count[k] + Cardinality(Passed(k)) < PerTurn + Cardinality(Transcripts)
        BY DEF QuotaInv
  <2> QED BY <2>1, <2>2, PassedFinite
<1> QED BY <1>1, <1>2, <1>3, DialogInvHolds, PTL DEF Spec
=============================================================================
