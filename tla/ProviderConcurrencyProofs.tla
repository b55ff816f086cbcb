--------------------- MODULE ProviderConcurrencyProofs ---------------------
(***************************************************************************)
(* Proofs about ProviderConcurrency, for any finite set of callers, any    *)
(* caps and any number of requests: the count of permits is exact, nothing *)
(* is admitted above the cap, and no wake-up is lost.                      *)
(*                                                                         *)
(* The invariant adds one fact about tokio's queue to the checked ones:    *)
(* the registered waiters are distinct and parked (QueueParked).  It is    *)
(* what makes a notification reach somebody who is not holding a permit.   *)
(* The count is what makes NoDeafWaiter inductive: a try that fails saw    *)
(* in_flight >= cap > 0, so there is a holder that has yet to notify.      *)
(***************************************************************************)
EXTENDS ProviderConcurrency, FiniteSetTheorems, TLAPS

QueueParked ==
    /\ \A i \in DOMAIN waiters : pc[waiters[i]] = "parked"
    /\ \A i, j \in DOMAIN waiters : waiters[i] = waiters[j] => i = j

Inv == TypeOK /\ QueueParked /\ InFlightIsHolders /\ NoDeafWaiter

-----------------------------------------------------------------------------
(* The callers are finitely many, and so are those that hold a slot.       *)
LEMMA HoldersFinite == IsFiniteSet(Holders) /\ Cardinality(Holders) \in Nat
<1>1. Holders \subseteq Callers
  BY DEF Holders
<1>2. QED
  BY <1>1, CallersAssumption, FS_Subset, FS_CardinalityType

(* While the count is above zero somebody holds a permit.                  *)
LEMMA SomeHolder ==
    ASSUME TypeOK, InFlightIsHolders, in_flight > 0
    PROVE  \E d \in Callers : pc[d] = "holding"
<1>1. Holders # {}
  <2>1. Cardinality({}) = 0
    BY FS_EmptySet
  <2>2. Holders = {} => in_flight = 0
    BY <2>1 DEF InFlightIsHolders
  <2>3. QED
    BY <2>2
<1>2. QED
  BY <1>1 DEF Holders

(* notify_one leaves the holders alone and somebody to act on it.          *)
LEMMA NotifyOneStep ==
    ASSUME TypeOK, QueueParked, NEW c \in Callers, NotifyOne(c),
           pc[c] \in {"notified", "releasing"}
    PROVE  /\ token' \in BOOLEAN /\ waiters' \in Seq(Callers)
           /\ pc' \in [Callers -> Locations]
           /\ token' => waiters' = <<>>
           /\ QueueParked'
           /\ Holders' = Holders
           /\ token' \/ \E d \in Callers : Stirring(d)'
<1>1. CASE waiters = <<>>
  BY <1>1 DEF NotifyOne, TypeOK, Locations, QueueParked, Holders, Goto
<1>2. CASE waiters # <<>>
  <2>1. /\ pc' = [pc EXCEPT ![c] = "idle", ![Head(waiters)] = "notified"]
        /\ waiters' = Tail(waiters) /\ token' = token
    BY <1>2 DEF NotifyOne
  <2>2. /\ Head(waiters) \in Callers /\ Tail(waiters) \in Seq(Callers)
        /\ Head(waiters) = waiters[1] /\ 1 \in DOMAIN waiters
    BY <1>2 DEF TypeOK
  <2>3. pc[Head(waiters)] = "parked" /\ Head(waiters) # c
    BY <2>2 DEF QueueParked
  <2>4. pc' = [d \in Callers |-> IF d = Head(waiters) THEN "notified"
                                 ELSE IF d = c THEN "idle" ELSE pc[d]]
    BY <2>1, <2>2, <2>3 DEF TypeOK
  <2>5. \A i \in DOMAIN Tail(waiters) : /\ i + 1 \in DOMAIN waiters /\ i + 1 # 1
                                        /\ Tail(waiters)[i] = waiters[i + 1]
    BY <1>2 DEF TypeOK
  <2>6. QueueParked'
    <3>1. \A i \in DOMAIN Tail(waiters) :
              /\ Tail(waiters)[i] \in Callers
              /\ Tail(waiters)[i] # Head(waiters) /\ Tail(waiters)[i] # c
              /\ pc[Tail(waiters)[i]] = "parked"
      BY <2>2, <2>5 DEF QueueParked, TypeOK
    <3>2. \A i \in DOMAIN Tail(waiters) : pc'[Tail(waiters)[i]] = "parked"
      BY <2>4, <3>1
    <3>3. \A i, j \in DOMAIN Tail(waiters) : Tail(waiters)[i] = Tail(waiters)[j] => i = j
      <4> SUFFICES ASSUME NEW i \in DOMAIN Tail(waiters), NEW j \in DOMAIN Tail(waiters),
                          Tail(waiters)[i] = Tail(waiters)[j]
                   PROVE  i = j
        OBVIOUS
      <4>1. i + 1 = j + 1
        BY <2>5 DEF QueueParked
      <4>2. i \in Nat /\ j \in Nat
        BY <2>2
      <4>3. QED
        BY <4>1, <4>2
    <3>4. QED
      BY <2>1, <3>2, <3>3 DEF QueueParked
  <2>7. Holders' = Holders
    BY <2>3, <2>4 DEF Holders
  <2>8. \E d \in Callers : Stirring(d)'
    <3>1. \E d \in Callers : pc'[d] = "notified"
      BY <2>2, <2>4
    <3>2. QED
      BY <3>1 DEF Stirring
  <2>9. QED
    BY <1>2, <2>1, <2>2, <2>4, <2>6, <2>7, <2>8 DEF TypeOK, Locations
<1>3. QED
  BY <1>1, <1>2

(* A parked caller that leaves the queue leaves it in order.               *)
LEMMA UnregisterStep ==
    ASSUME TypeOK, QueueParked, NEW c \in Callers, Unregister(c), pc[c] = "parked",
           Goto(c, "idle")
    PROVE  waiters' \in Seq(Callers) /\ QueueParked' /\ (waiters = <<>> => waiters' = <<>>)
<1>1. PICK i \in DOMAIN waiters :
          /\ waiters[i] = c
          /\ waiters' = [j \in 1 .. Len(waiters) - 1 |->
                            IF j < i THEN waiters[j] ELSE waiters[j + 1]]
  BY DEF Unregister
<1>2. waiters \in Seq(Callers) /\ Len(waiters) \in Nat /\ DOMAIN waiters = 1 .. Len(waiters)
  BY DEF TypeOK
<1>3. waiters' \in Seq(Callers) /\ DOMAIN waiters' = 1 .. Len(waiters) - 1
  BY <1>1, <1>2
<1> DEFINE old(j) == IF j < i THEN j ELSE j + 1
<1>4. \A j \in DOMAIN waiters' : /\ old(j) \in DOMAIN waiters /\ old(j) # i
                                 /\ waiters'[j] = waiters[old(j)]
  BY <1>1, <1>2, <1>3
<1>5. \A j, k \in DOMAIN waiters' : old(j) = old(k) => j = k
  BY <1>1, <1>2, <1>3
<1>6. \A j \in DOMAIN waiters' : pc'[waiters'[j]] = "parked"
  <2> SUFFICES ASSUME NEW j \in DOMAIN waiters'
               PROVE  pc'[waiters'[j]] = "parked"
    OBVIOUS
  <2>1. waiters'[j] # c /\ pc[waiters'[j]] = "parked" /\ waiters'[j] \in Callers
    BY <1>1, <1>2, <1>4 DEF QueueParked
  <2>2. QED
    BY <2>1 DEF Goto, TypeOK
<1>7. \A j, k \in DOMAIN waiters' : waiters'[j] = waiters'[k] => j = k
  <2> SUFFICES ASSUME NEW j \in DOMAIN waiters', NEW k \in DOMAIN waiters',
                      waiters'[j] = waiters'[k]
               PROVE  j = k
    OBVIOUS
  <2> HIDE DEF old
  <2>1. old(j) = old(k)
    BY <1>4 DEF QueueParked
  <2>2. QED
    BY <1>5, <2>1
<1>8. QED
  BY <1>1, <1>3, <1>6, <1>7 DEF QueueParked

(* Registering appends a caller that was not in the queue.                 *)
LEMMA RegisterStep ==
    ASSUME TypeOK, QueueParked, NEW c \in Callers, pc[c] = "window",
           waiters' = Append(waiters, c), Goto(c, "parked")
    PROVE  waiters' \in Seq(Callers) /\ QueueParked'
<1>1. waiters \in Seq(Callers) /\ waiters' \in Seq(Callers)
  BY DEF TypeOK
<1>2. DOMAIN waiters' = DOMAIN waiters \cup {Len(waiters) + 1}
  BY <1>1
<1>3. \A i \in DOMAIN waiters : /\ waiters'[i] = waiters[i] /\ waiters[i] \in Callers
                                /\ pc[waiters[i]] = "parked" /\ waiters[i] # c
  BY <1>1 DEF QueueParked
<1>4. waiters'[Len(waiters) + 1] = c
  BY <1>1
<1>5. \A i \in DOMAIN waiters' : pc'[waiters'[i]] = "parked"
  BY <1>2, <1>3, <1>4 DEF Goto, TypeOK
<1>6. \A i, j \in DOMAIN waiters' : waiters'[i] = waiters'[j] => i = j
  BY <1>2, <1>3, <1>4 DEF QueueParked
<1>7. QED
  BY <1>1, <1>5, <1>6 DEF QueueParked

(* A caller that moves outside the queue leaves the queue as it is.        *)
LEMMA SameQueue ==
    ASSUME TypeOK, QueueParked, NEW c \in Callers, NEW l, Goto(c, l),
           pc[c] # "parked", waiters' = waiters
    PROVE  QueueParked'
<1>1. \A i \in DOMAIN waiters : waiters[i] \in Callers /\ waiters[i] # c
  BY DEF TypeOK, QueueParked
<1>2. QED
  BY <1>1 DEF TypeOK, QueueParked, Goto

(* A caller that neither had nor gets a permit does not count.             *)
LEMMA SameHolders ==
    ASSUME TypeOK, NEW c \in Callers, NEW l, Goto(c, l), pc[c] # "holding", l # "holding"
    PROVE  Holders' = Holders
BY DEF TypeOK, Goto, Holders

(* A new ProviderConcurrency has no permits out and nobody waiting.        *)
LEMMA InitInv == Init => Inv
<1> SUFFICES ASSUME Init PROVE Inv
  OBVIOUS
<1>1. TypeOK
  <2>1. <<>> \in Seq(Callers)
    OBVIOUS
  <2>2. /\ cap \in Nat /\ in_flight \in Nat
        /\ pc \in [Callers -> Locations]
    BY CapsAssumption DEF Init, Locations
  <2>3. /\ token \in BOOLEAN /\ resizing \in BOOLEAN
        /\ token => waiters = <<>>
    BY Zenon DEF Init
  <2>4. waiters \in Seq(Callers)
    BY <2>1, Zenon DEF Init
  <2>5. QED
    BY <2>2, <2>3, <2>4, Zenon DEF TypeOK
<1>2. QueueParked /\ NoDeafWaiter
  BY DEF Init, QueueParked, NoDeafWaiter, Waiting
<1>3. Holders = {}
  BY DEF Init, Holders
<1>4. InFlightIsHolders
  <2>1. Cardinality({}) = 0
    BY FS_EmptySet
  <2>2. QED
    BY <1>3, <2>1 DEF Init, InFlightIsHolders
<1>5. QED
  BY <1>1, <1>2, <1>4 DEF Inv

(* A try that succeeds adds a holder; one that fails saw one.              *)
LEMMA TryAcquireInv ==
    ASSUME Inv, NEW c \in Callers, TryAcquire(c)
    PROVE  Inv'
<1> USE DEF Inv
<1>1. CASE can_acquire /\ in_flight' = in_flight + 1 /\ Goto(c, "holding")
  <2>1. TypeOK'
    BY <1>1 DEF TryAcquire, TypeOK, Goto, Locations
  <2>2. QueueParked'
    BY <1>1, SameQueue DEF TryAcquire
  <2>3. Holders' = Holders \cup {c} /\ c \notin Holders
    BY <1>1 DEF TryAcquire, TypeOK, Goto, Holders
  <2>4. Cardinality(Holders') = Cardinality(Holders) + 1
    BY <2>3, HoldersFinite, FS_AddElement
  <2>5. InFlightIsHolders'
    BY <1>1, <2>4 DEF InFlightIsHolders
  <2>6. pc'[c] = "holding"
    BY <1>1 DEF TypeOK, Goto
  <2>7. NoDeafWaiter'
    BY <2>6 DEF NoDeafWaiter, Stirring
  <2>8. QED
    BY <2>1, <2>2, <2>5, <2>7
<1>2. CASE ~can_acquire /\ Goto(c, "window") /\ in_flight' = in_flight
  <2>1. TypeOK'
    BY <1>2 DEF TryAcquire, TypeOK, Goto, Locations
  <2>2. QueueParked'
    BY <1>2, SameQueue DEF TryAcquire
  <2>3. InFlightIsHolders'
    BY <1>2, SameHolders DEF TryAcquire, InFlightIsHolders
  <2>4. in_flight > 0
    BY <1>2 DEF can_acquire, TypeOK
  <2>5. PICK d \in Callers : pc[d] = "holding"
    BY <2>4, SomeHolder
  <2>6. pc'[d] = "holding"
    BY <1>2, <2>5 DEF TryAcquire, TypeOK, Goto
  <2>7. NoDeafWaiter'
    BY <2>6 DEF NoDeafWaiter, Stirring
  <2>8. QED
    BY <2>1, <2>2, <2>3, <2>7
<1>3. QED
  BY <1>1, <1>2 DEF TryAcquire

(* A release removes a holder, and the holder has yet to notify.           *)
LEMMA ReleaseInv ==
    ASSUME Inv, NEW c \in Callers, Release(c)
    PROVE  Inv'
<1> USE DEF Inv
<1>1. c \in Holders /\ Holders' = Holders \ {c}
  BY DEF Release, TypeOK, Goto, Holders
<1>2. Cardinality(Holders') = Cardinality(Holders) - 1
  BY <1>1, HoldersFinite, FS_RemoveElement
<1>3. Cardinality(Holders') \in Nat
  BY <1>1, HoldersFinite, FS_RemoveElement, FS_CardinalityType
<1>4. in_flight' = in_flight - 1
  BY <1>2, <1>3, HoldersFinite DEF Release, InFlightIsHolders
<1>5. InFlightIsHolders'
  BY <1>2, <1>4 DEF InFlightIsHolders
<1>6. TypeOK'
  BY DEF Release, TypeOK, Goto, Locations
<1>7. QueueParked'
  BY SameQueue DEF Release
<1>8. pc'[c] = "releasing"
  BY DEF Release, TypeOK, Goto
<1>9. NoDeafWaiter'
  BY <1>8 DEF NoDeafWaiter, Stirring
<1>10. QED
  BY <1>5, <1>6, <1>7, <1>9

(* Registering on the Notify, or taking its token, loses no wake-up.       *)
LEMMA RegisterInv ==
    ASSUME Inv, NEW c \in Callers, Register(c)
    PROVE  Inv'
<1> USE DEF Inv
<1>1. CASE token /\ token' = FALSE /\ Goto(c, "try") /\ UNCHANGED waiters
  <2>1. TypeOK'
    BY <1>1 DEF Register, TypeOK, Goto, Locations, state
  <2>2. QueueParked'
    BY <1>1, SameQueue DEF Register
  <2>3. InFlightIsHolders'
    BY <1>1, SameHolders DEF Register, InFlightIsHolders, state
  <2>4. pc'[c] = "try"
    BY <1>1 DEF TypeOK, Goto
  <2>5. NoDeafWaiter'
    BY <2>4 DEF NoDeafWaiter, Stirring
  <2>6. QED
    BY <2>1, <2>2, <2>3, <2>5
<1>2. CASE ~token /\ waiters' = Append(waiters, c) /\ Goto(c, "parked") /\ UNCHANGED token
  <2>1. waiters' \in Seq(Callers) /\ QueueParked'
    BY <1>2, RegisterStep DEF Register
  <2>2. TypeOK'
    BY <1>2, <2>1 DEF Register, TypeOK, Goto, Locations, state
  <2>3. InFlightIsHolders'
    BY <1>2, SameHolders DEF Register, InFlightIsHolders, state
  <2>4. PICK d \in Callers : Stirring(d)
    BY <1>2 DEF Register, NoDeafWaiter, Waiting
  <2>5. pc'[d] = pc[d]
    BY <1>2, <2>4 DEF Register, Stirring, TypeOK, Goto
  <2>6. NoDeafWaiter'
    BY <2>4, <2>5 DEF NoDeafWaiter, Stirring
  <2>7. QED
    BY <2>1, <2>2, <2>3, <2>6
<1>3. QED
  BY <1>1, <1>2 DEF Register

(* notify_one, by a release or passed on by a cancelled waiter.            *)
LEMMA NotifyInv ==
    ASSUME Inv, NEW c \in Callers, pc[c] \in {"notified", "releasing"}, NotifyOne(c),
           UNCHANGED <<state, resizing>>
    PROVE  Inv'
<1> USE DEF Inv
<1>1. TypeOK'
  BY NotifyOneStep DEF TypeOK, state
<1>2. QueueParked'
  BY NotifyOneStep
<1>3. InFlightIsHolders'
  BY NotifyOneStep DEF InFlightIsHolders, state
<1>4. NoDeafWaiter'
  BY NotifyOneStep DEF NoDeafWaiter
<1>5. QED
  BY <1>1, <1>2, <1>3, <1>4

(* A cancelled caller was not the one to stir, or passes the wake-up on.   *)
LEMMA CancelInv ==
    ASSUME Inv, NEW c \in Callers, Cancel(c)
    PROVE  Inv'
<1> USE DEF Inv
<1>1. CASE pc[c] = "notified" /\ NotifyOne(c)
  BY <1>1, NotifyInv DEF Cancel
<1>2. CASE /\ pc[c] \in {"parked", "swept"} /\ Goto(c, "idle") /\ UNCHANGED token
           /\ \/ pc[c] = "parked" /\ Unregister(c)
              \/ pc[c] = "swept" /\ UNCHANGED waiters
  <2>1. waiters' \in Seq(Callers) /\ QueueParked' /\ (waiters = <<>> => waiters' = <<>>)
    BY <1>2, UnregisterStep, SameQueue DEF TypeOK
  <2>2. TypeOK'
    BY <1>2, <2>1 DEF Cancel, TypeOK, Goto, Locations, state
  <2>3. InFlightIsHolders'
    BY <1>2, SameHolders DEF Cancel, InFlightIsHolders, state
  <2>4. \A d \in Callers : Waiting(d)' => Waiting(d)
    BY <1>2 DEF Waiting, TypeOK, Goto
  <2>5. \A d \in Callers : Stirring(d) => Stirring(d)'
    BY <1>2 DEF Stirring, TypeOK, Goto
  <2>6. NoDeafWaiter'
    BY <1>2, <2>4, <2>5 DEF NoDeafWaiter
  <2>7. QED
    BY <2>1, <2>2, <2>3, <2>6
<1>3. QED
  BY <1>1, <1>2 DEF Cancel

(* A caller that starts, or wakes up, will look at the state.              *)
LEMMA TryInv ==
    ASSUME Inv, NEW c \in Callers, Request(c) \/ Wake(c)
    PROVE  Inv'
<1> USE DEF Inv
<1>1. Goto(c, "try") /\ pc[c] \in {"idle", "notified", "swept"}
  BY DEF Request, Wake
<1>2. TypeOK'
  BY <1>1 DEF Request, Wake, TypeOK, Goto, Locations, state
<1>3. QueueParked'
  BY <1>1, SameQueue DEF Request, Wake
<1>4. InFlightIsHolders'
  BY <1>1, SameHolders DEF Request, Wake, InFlightIsHolders, state
<1>5. pc'[c] = "try"
  BY <1>1 DEF TypeOK, Goto
<1>6. NoDeafWaiter'
  BY <1>5 DEF NoDeafWaiter, Stirring
<1>7. QED
  BY <1>2, <1>3, <1>4, <1>6

(* notify_waiters empties the queue and stirs nobody else.                 *)
LEMMA SetCapNotifyInv ==
    ASSUME Inv, SetCapNotify
    PROVE  Inv'
<1> USE DEF Inv
<1>1. TypeOK' /\ QueueParked'
  <2>1. <<>> \in Seq(Callers) /\ DOMAIN <<>> = {}
    OBVIOUS
  <2>2. TypeOK'
    BY <2>1 DEF SetCapNotify, TypeOK, Locations, state
  <2>3. QueueParked'
    BY <2>1 DEF SetCapNotify, QueueParked
  <2>4. QED
    BY <2>2, <2>3
<1>2. Holders' = Holders
  BY DEF SetCapNotify, TypeOK, Holders
<1>3. InFlightIsHolders'
  BY <1>2 DEF SetCapNotify, InFlightIsHolders, state
<1>4. \A d \in Callers : (Waiting(d)' => Waiting(d)) /\ (Stirring(d) => Stirring(d)')
  BY DEF SetCapNotify, Waiting, Stirring, TypeOK
<1>5. NoDeafWaiter'
  BY <1>4 DEF SetCapNotify, NoDeafWaiter
<1>6. QED
  BY <1>1, <1>3, <1>5

(* Every step of acquire, drop and set_cap keeps the invariant.            *)
LEMMA StepInv == Inv /\ [Next]_vars => Inv'
<1> SUFFICES ASSUME Inv, [Next]_vars PROVE Inv'
  OBVIOUS
<1>1. ASSUME NEW c \in Callers, ReleaseNotify(c) PROVE Inv'
  BY <1>1, NotifyInv DEF ReleaseNotify
<1>2. ASSUME NEW n \in Caps, SetCap(n) PROVE Inv'
  <2>1. TypeOK'
    BY <1>2, CapsAssumption DEF SetCap, Inv, TypeOK
  <2>2. QueueParked' /\ InFlightIsHolders' /\ NoDeafWaiter'
    BY <1>2 DEF SetCap, Inv, QueueParked, InFlightIsHolders, Holders, NoDeafWaiter,
                Waiting, Stirring
  <2>3. QED
    BY <2>1, <2>2 DEF Inv
<1>3. CASE UNCHANGED vars
  BY <1>3 DEF vars, Inv, TypeOK, QueueParked, InFlightIsHolders, Holders, NoDeafWaiter,
              Waiting, Stirring
<1>4. QED
  BY <1>1, <1>2, <1>3, TryAcquireInv, ReleaseInv, RegisterInv, CancelInv, TryInv,
     SetCapNotifyInv DEF Next

-----------------------------------------------------------------------------
(* The invariant holds of every behaviour.                                 *)
THEOREM Invariance == Spec => []Inv
BY InitInv, StepInv, PTL DEF Spec

(* Every reachable state is well typed.                                    *)
THEOREM TypeCorrect == Spec => []TypeOK
<1>1. Inv => TypeOK
  BY DEF Inv
<1>2. QED
  BY <1>1, Invariance, PTL

(* in_flight is the number of permits alive, whatever is cancelled or      *)
(* resized; the saturating decrement never saturates.                      *)
THEOREM CountIsExact == Spec => []InFlightIsHolders
<1>1. Inv => InFlightIsHolders
  BY DEF Inv
<1>2. QED
  BY <1>1, Invariance, PTL

(* No wake-up is lost: while a caller waits, a notification is stored or   *)
(* somebody will still notify or try.                                      *)
THEOREM NoWakeUpIsLost == Spec => []NoDeafWaiter
<1>1. Inv => NoDeafWaiter
  BY DEF Inv
<1>2. QED
  BY <1>1, Invariance, PTL

(* No permit is given out above the cap of the moment.                     *)
THEOREM CapIsRespected == Spec => CapAdmits
<1> DEFINE Admits == in_flight' > in_flight => (cap = 0 \/ in_flight' <= cap)
<1>1. TypeOK /\ [Next]_vars => [Admits]_vars
  <2> SUFFICES ASSUME TypeOK, Next PROVE Admits
    BY DEF vars
  <2>1. ASSUME NEW c \in Callers, TryAcquire(c) PROVE Admits
    BY <2>1 DEF TryAcquire, can_acquire, TypeOK
  <2>2. ASSUME NEW c \in Callers, Release(c) PROVE Admits
    BY <2>2 DEF Release, TypeOK
  <2>3. ASSUME NEW c \in Callers,
               Request(c) \/ Register(c) \/ Wake(c) \/ Cancel(c) \/ ReleaseNotify(c)
        PROVE  Admits
    BY <2>3 DEF Request, Register, Wake, Cancel, ReleaseNotify, state, TypeOK
  <2>4. ASSUME NEW n \in Caps, SetCap(n) PROVE Admits
    BY <2>4 DEF SetCap, TypeOK
  <2>5. CASE SetCapNotify
    BY <2>5 DEF SetCapNotify, state, TypeOK
  <2>6. QED
    BY <2>1, <2>2, <2>3, <2>4, <2>5 DEF Next
<1>2. QED
  BY <1>1, TypeCorrect, PTL DEF Spec, CapAdmits
=============================================================================
