------------------------ MODULE ProviderConcurrency ------------------------
(***************************************************************************)
(* kod-provider/src/concurrency.rs: the cap on concurrent requests to one  *)
(* provider endpoint.  The state mutex guards {cap, in_flight}; waiting is *)
(* done on a tokio Notify, outside that mutex, so an acquire is: try,      *)
(* (window), register, park, try again - and a release or a resize is:     *)
(* change the state, (window), notify.                                     *)
(*                                                                         *)
(* tokio's Notify: notify_one pops the oldest waiter, or stores a single   *)
(* token if there is none; notify_waiters wakes the registered waiters and *)
(* stores nothing; registering consumes the token instead of parking; a    *)
(* waiter dropped after a notify_one reached it passes it on.              *)
(***************************************************************************)
EXTENDS Naturals, Sequences, FiniteSets

CONSTANTS Callers,     \* tasks that issue requests
          Caps,        \* the values set_cap is called with
          InitialCap

ASSUME CapsAssumption == Caps \subseteq Nat /\ InitialCap \in Nat
ASSUME CallersAssumption == IsFiniteSet(Callers)

VARIABLES cap, in_flight,
          token,     \* Notify holds a stored notification
          waiters,   \* registered Notified futures, oldest first
          pc,        \* caller -> location
          resizing   \* set_cap grew the cap and has not notified yet

vars == <<cap, in_flight, token, waiters, pc, resizing>>
state == <<cap, in_flight>>

(* "idle"      no request                                                  *)
(* "try"       about to call try_acquire                                   *)
(* "window"    try_acquire failed; notified() not registered yet           *)
(* "parked"    registered                                                  *)
(* "notified"  a notify_one reached it; not polled yet                     *)
(* "swept"     a notify_waiters reached it; not polled yet                 *)
(* "holding"   has the permit, the request is running                      *)
(* "releasing" in_flight is decremented; notify_one is next                *)
Locations == {"idle", "try", "window", "parked", "notified", "swept",
              "holding", "releasing"}

Init == /\ cap = InitialCap /\ in_flight = 0
        /\ token = FALSE /\ waiters = <<>>
        /\ pc = [c \in Callers |-> "idle"]
        /\ resizing = FALSE

-----------------------------------------------------------------------------
(* Mutant: off by one.                                                     *)
can_acquire_one_more == cap = 0 \/ in_flight <= cap

can_acquire == cap = 0 \/ in_flight < cap

Goto(c, l) == pc' = [pc EXCEPT ![c] = l]

(* Notify::notify_one by caller c, which is idle after it.                 *)
NotifyOne(c) ==
    \/ /\ waiters = <<>>
       /\ token' = TRUE
       /\ Goto(c, "idle") /\ UNCHANGED waiters
    \/ /\ waiters # <<>>
       /\ pc' = [pc EXCEPT ![c] = "idle", ![Head(waiters)] = "notified"]
       /\ waiters' = Tail(waiters) /\ UNCHANGED token

(* A caller starts a request, at any time and as often as it likes.        *)
Request(c) ==
    /\ pc[c] = "idle"
    /\ Goto(c, "try")
    /\ UNCHANGED <<state, token, waiters, resizing>>

(* Mutant: counted before the check, as if the wait held a slot.           *)
TryAcquireEager(c) ==
    /\ pc[c] = "try"
    /\ in_flight' = in_flight + 1
    /\ \/ can_acquire /\ Goto(c, "holding")
       \/ ~can_acquire /\ Goto(c, "window")
    /\ UNCHANGED <<cap, token, waiters, resizing>>

(* try_acquire                                                             *)
TryAcquire(c) ==
    /\ pc[c] = "try"
    /\ \/ can_acquire /\ in_flight' = in_flight + 1 /\ Goto(c, "holding")
       \/ ~can_acquire /\ Goto(c, "window") /\ UNCHANGED in_flight
    /\ UNCHANGED <<cap, token, waiters, resizing>>

(* Mutant: parks although a notification is stored.                        *)
RegisterDeaf(c) ==
    /\ pc[c] = "window"
    /\ waiters' = Append(waiters, c) /\ Goto(c, "parked")
    /\ UNCHANGED <<state, token, resizing>>

(* notified().await up to the first poll: take the token or register.      *)
Register(c) ==
    /\ pc[c] = "window"
    /\ \/ token /\ token' = FALSE /\ Goto(c, "try") /\ UNCHANGED waiters
       \/ ~token /\ waiters' = Append(waiters, c) /\ Goto(c, "parked") /\ UNCHANGED token
    /\ UNCHANGED <<state, resizing>>

(* The task is polled after a notification and loops.                      *)
Wake(c) ==
    /\ pc[c] \in {"notified", "swept"}
    /\ Goto(c, "try")
    /\ UNCHANGED <<state, token, waiters, resizing>>

(* A parked caller leaves the queue.                                       *)
Unregister(c) ==
    \E i \in DOMAIN waiters :
        /\ waiters[i] = c
        /\ waiters' = [j \in 1 .. Len(waiters) - 1 |->
                          IF j < i THEN waiters[j] ELSE waiters[j + 1]]

(* Mutant: a cancelled waiter swallows the notification it received.       *)
CancelSwallow(c) ==
    /\ \/ pc[c] = "parked" /\ Unregister(c)
       \/ pc[c] \in {"swept", "notified"} /\ UNCHANGED waiters
    /\ Goto(c, "idle")
    /\ UNCHANGED <<state, token, resizing>>

(* The acquire future is dropped while it waits.                           *)
Cancel(c) ==
    /\ \/ /\ pc[c] = "parked" /\ Goto(c, "idle")
          /\ Unregister(c)
          /\ UNCHANGED token
       \/ pc[c] = "swept" /\ Goto(c, "idle") /\ UNCHANGED <<token, waiters>>
       \/ pc[c] = "notified" /\ NotifyOne(c)
    /\ UNCHANGED <<state, resizing>>

(* Drop of the permit: decrement under the mutex ...                       *)
Release(c) ==
    /\ pc[c] = "holding"
    /\ in_flight' = IF in_flight = 0 THEN 0 ELSE in_flight - 1
    /\ Goto(c, "releasing")
    /\ UNCHANGED <<cap, token, waiters, resizing>>

(* Mutant: notify_waiters on release, which stores nothing.                *)
ReleaseNotifyWaiters(c) ==
    /\ pc[c] = "releasing"
    /\ pc' = [d \in Callers |-> IF d = c THEN "idle"
                               ELSE IF pc[d] = "parked" THEN "swept" ELSE pc[d]]
    /\ waiters' = <<>>
    /\ UNCHANGED <<state, token, resizing>>

(* ... and notify_one after it.                                            *)
ReleaseNotify(c) ==
    /\ pc[c] = "releasing" /\ NotifyOne(c)
    /\ UNCHANGED <<state, resizing>>

(* set_cap: growth is decided by permission, 0 being the largest cap.      *)
SetCap(n) ==
    /\ ~resizing
    /\ cap' = n
    /\ resizing' = (cap # 0 /\ (n = 0 \/ n > cap))
    /\ UNCHANGED <<in_flight, token, waiters, pc>>

(* ... and notify_waiters outside the mutex when it grew.                  *)
SetCapNotify ==
    /\ resizing
    /\ pc' = [c \in Callers |-> IF pc[c] = "parked" THEN "swept" ELSE pc[c]]
    /\ waiters' = <<>>
    /\ resizing' = FALSE
    /\ UNCHANGED <<state, token>>

Progress(c) == \/ TryAcquire(c) \/ Register(c) \/ Wake(c)
               \/ Release(c) \/ ReleaseNotify(c)

Next == \/ \E c \in Callers : \/ Request(c)
                              \/ TryAcquire(c)
                              \/ Register(c)
                              \/ Wake(c)
                              \/ Cancel(c)
                              \/ Release(c)
                              \/ ReleaseNotify(c)
        \/ \E n \in Caps : SetCap(n)
        \/ SetCapNotify

Spec == Init /\ [][Next]_vars

(* Tasks are polled, and a request ends (an assumption on the provider,    *)
(* see TurnLoop); the permit is dropped with it.                           *)
FairSpec == Spec /\ \A c \in Callers : WF_vars(Progress(c))

-----------------------------------------------------------------------------
(* Shapes; Notify is empty, waited on or notified, never two of them.      *)
TypeOK == /\ cap \in Nat /\ in_flight \in Nat
          /\ token \in BOOLEAN /\ resizing \in BOOLEAN
          /\ waiters \in Seq(Callers)
          /\ pc \in [Callers -> Locations]
          /\ token => waiters = <<>>

Holders == {c \in Callers : pc[c] = "holding"}

(* in_flight is the number of live permits: cancelled acquires, resizes    *)
(* and the saturating decrement never make it drift.                       *)
InFlightIsHolders == in_flight = Cardinality(Holders)

(* The caller is waiting, or has decided to wait.                          *)
Waiting(c) == pc[c] \in {"window", "parked"}

(* The caller will notify, or look at the state again, even if it is       *)
(* cancelled first.                                                        *)
Stirring(c) == pc[c] \in {"holding", "releasing", "notified", "try"}

(* No deaf waiter: while somebody waits there is a stored token, or a      *)
(* caller that still has to notify or to try again.  A notification lost   *)
(* in the window, with a cancelled waiter or at a resize would leave a     *)
(* caller parked that nothing ever wakes.                                  *)
NoDeafWaiter == (\E c \in Callers : Waiting(c)) => (token \/ \E d \in Callers : Stirring(d))

(* The cap admits: no step lets a permit in above the cap of the moment,   *)
(* so a resize-down overshoot only drains.                                 *)
CapAdmits == [][in_flight' > in_flight => (cap = 0 \/ in_flight' <= cap)]_vars

(* The caller is inside acquire, wherever its loop stands.                 *)
Acquiring(c) == pc[c] \in {"try", "window", "parked", "notified", "swept"}

(* An acquire that never returns is starved, never stuck: permits keep     *)
(* being granted to other callers for as long as it waits.  The loop does  *)
(* not promise more: a newcomer starts with try_acquire and may take the   *)
(* slot a notified waiter was woken for, and that waiter registers again   *)
(* at the back.  Once no new request is started, every acquire returns.    *)
StarvedOnlyByGrants ==
    \A c \in Callers : <>[]Acquiring(c) => []<><<in_flight' > in_flight>>_vars
=============================================================================
