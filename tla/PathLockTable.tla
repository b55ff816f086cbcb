--------------------------- MODULE PathLockTable ---------------------------
(***************************************************************************)
(* kod-tools/src/path_lock.rs: the in-process table of advisory locks, one *)
(* per canonical path.  The outer RwLock is held for one lookup, one       *)
(* insertion or one sweep, so each of those is one action; the per-path    *)
(* tokio Mutex is a FIFO semaphore with one permit that an unlock hands    *)
(* straight to the first waiter.                                           *)
(*                                                                         *)
(* A cell is the identity of one Arc<Mutex<()>>.  Its strong count is the  *)
(* number of callers whose `cell' is that Arc, plus one if the table has   *)
(* it; a cell nobody refers to is freed, and the pool may reuse it.        *)
(***************************************************************************)
EXTENDS Naturals, Sequences

CONSTANTS Callers,  \* the writers: tool calls of the session and of the agents
          Paths,    \* canonical paths
          Cells,    \* identities of mutexes
          NoCell,   \* the path has no cell / the caller holds no Arc
          NoCaller  \* the permit is available

ASSUME NoCellAssumption == NoCell \notin Cells
ASSUME NoCallerAssumption == NoCaller \notin Callers

VARIABLES table,    \* path -> cell: the HashMap
          owner,    \* cell -> the caller its permit is assigned to
          waiters,  \* cell -> callers queued on its semaphore, oldest first
          pc,       \* caller -> where it is in acquire / in its critical section
          target,   \* caller -> the path of its current acquire
          cell      \* caller -> the Arc it has cloned

vars == <<table, owner, waiters, pc, target, cell>>

(* "idle"    no acquire in progress                                        *)
(* "create"  the lookup missed; about to take the write lock               *)
(* "lock"    has its Arc; about to poll lock_owned() for the first time    *)
(* "queued"  polled once and found the permit taken                        *)
(* "held"    has the PathLockGuard                                         *)
(* "drop"    gave the permit or its queue entry back; its Arc goes next    *)
Locations == {"idle", "create", "lock", "queued", "held", "drop"}

Init == /\ table = [p \in Paths |-> NoCell]
        /\ owner = [k \in Cells |-> NoCaller]
        /\ waiters = [k \in Cells |-> <<>>]
        /\ pc = [c \in Callers |-> "idle"]
        /\ target \in [Callers -> Paths]
        /\ cell = [c \in Callers |-> NoCell]

-----------------------------------------------------------------------------
(* The callers that own a reference to a cell.                             *)
Referrers(k) == {c \in Callers : cell[c] = k}

(* Arc::new: an identity no live Arc has.                                  *)
Unused == {k \in Cells : Referrers(k) = {} /\ \A p \in Paths : table[p] # k}

(* Mutant: the permit goes to the waiter that came last.                   *)
HandOverToLast(k) ==
    \/ waiters[k] = <<>> /\ owner' = [owner EXCEPT ![k] = NoCaller] /\ UNCHANGED waiters
    \/ /\ waiters[k] # <<>>
       /\ owner' = [owner EXCEPT ![k] = waiters[k][Len(waiters[k])]]
       /\ waiters' = [waiters EXCEPT ![k] = SubSeq(@, 1, Len(@) - 1)]

(* tokio's batch_semaphore release(1): the permit goes to the first waiter,*)
(* or back to the semaphore when nobody waits.                             *)
HandOver(k) ==
    \/ /\ waiters[k] = <<>>
       /\ owner' = [owner EXCEPT ![k] = NoCaller]
       /\ UNCHANGED waiters
    \/ /\ waiters[k] # <<>>
       /\ owner' = [owner EXCEPT ![k] = Head(waiters[k])]
       /\ waiters' = [waiters EXCEPT ![k] = Tail(@)]

(* A waiter leaves the semaphore's queue before it was given the permit.   *)
LeaveQueue(c, k) ==
    \E i \in DOMAIN waiters[k] :
        /\ waiters[k][i] = c
        /\ waiters' = [waiters EXCEPT ![k] =
               [j \in 1 .. Len(@) - 1 |-> IF j < i THEN @[j] ELSE @[j + 1]]]
        /\ UNCHANGED owner

-----------------------------------------------------------------------------
(* acquire, under the read lock: clone the path's cell if there is one.    *)
Lookup(c, p) ==
    /\ pc[c] = "idle"
    /\ target' = [target EXCEPT ![c] = p]
    /\ \/ /\ table[p] # NoCell
          /\ cell' = [cell EXCEPT ![c] = table[p]]
          /\ pc' = [pc EXCEPT ![c] = "lock"]
       \/ /\ table[p] = NoCell
          /\ pc' = [pc EXCEPT ![c] = "create"]
          /\ UNCHANGED cell
    /\ UNCHANGED <<table, owner, waiters>>

(* acquire, under the write lock: entry(path).or_insert_with(..).clone().  *)
(* A creator that came first wins.                                         *)
CreateCell(c) ==
    /\ pc[c] = "create"
    /\ \/ /\ table[target[c]] # NoCell
          /\ cell' = [cell EXCEPT ![c] = table[target[c]]]
          /\ UNCHANGED table
       \/ /\ table[target[c]] = NoCell
          /\ \E k \in Unused : /\ table' = [table EXCEPT ![target[c]] = k]
                               /\ cell' = [cell EXCEPT ![c] = k]
    /\ pc' = [pc EXCEPT ![c] = "lock"]
    /\ UNCHANGED <<owner, waiters, target>>

(* The caller's task is aborted while it awaits the write lock.            *)
AbortCreate(c) ==
    /\ pc[c] = "create"
    /\ pc' = [pc EXCEPT ![c] = "idle"]
    /\ UNCHANGED <<table, owner, waiters, target, cell>>

(* First poll of cell.lock_owned(): take the permit or join the queue.     *)
LockOwned(c) ==
    /\ pc[c] = "lock"
    /\ \/ /\ owner[cell[c]] = NoCaller
          /\ owner' = [owner EXCEPT ![cell[c]] = c]
          /\ pc' = [pc EXCEPT ![c] = "held"]
          /\ UNCHANGED waiters
       \/ /\ owner[cell[c]] # NoCaller
          /\ waiters' = [waiters EXCEPT ![cell[c]] = Append(@, c)]
          /\ pc' = [pc EXCEPT ![c] = "queued"]
          /\ UNCHANGED owner
    /\ UNCHANGED <<table, target, cell>>

(* A later poll finds that the permit was handed to this waiter.           *)
Granted(c) ==
    /\ pc[c] = "queued"
    /\ owner[cell[c]] = c
    /\ pc' = [pc EXCEPT ![c] = "held"]
    /\ UNCHANGED <<table, owner, waiters, target, cell>>

(* Mutant: a waiter that gives up keeps a permit it was handed meanwhile.  *)
TimeoutKeepsPermit(c) ==
    /\ pc[c] = "queued"
    /\ \/ owner[cell[c]] = c /\ UNCHANGED <<owner, waiters>>
       \/ owner[cell[c]] # c /\ LeaveQueue(c, cell[c])
    /\ pc' = [pc EXCEPT ![c] = "drop"]
    /\ UNCHANGED <<table, target, cell>>

(* The timeout fires, or the task is aborted, while it waits.  Dropping    *)
(* the Acquire future leaves the queue, or passes the permit on if it was  *)
(* assigned after the last poll.                                           *)
Timeout(c) ==
    /\ pc[c] = "queued"
    /\ \/ owner[cell[c]] = c /\ HandOver(cell[c])
       \/ owner[cell[c]] # c /\ LeaveQueue(c, cell[c])
    /\ pc' = [pc EXCEPT ![c] = "drop"]
    /\ UNCHANGED <<table, target, cell>>

(* Drop of the OwnedMutexGuard: the permit is released first ...           *)
Unlock(c) ==
    /\ pc[c] = "held"
    /\ HandOver(cell[c])
    /\ pc' = [pc EXCEPT ![c] = "drop"]
    /\ UNCHANGED <<table, target, cell>>

(* Mutant: the guard leaks its Arc.                                        *)
DropArcLeak(c) ==
    /\ pc[c] = "drop"
    /\ pc' = [pc EXCEPT ![c] = "idle"]
    /\ UNCHANGED <<table, owner, waiters, target, cell>>

(* ... and the Arc after it.                                               *)
DropArc(c) ==
    /\ pc[c] = "drop"
    /\ cell' = [cell EXCEPT ![c] = NoCell]
    /\ pc' = [pc EXCEPT ![c] = "idle"]
    /\ UNCHANGED <<table, owner, waiters, target>>

(* Mutant: cells.clear(), the body before the P2 fix.                      *)
ReleaseAllClear ==
    /\ table' = [p \in Paths |-> NoCell]
    /\ UNCHANGED <<owner, waiters, pc, target, cell>>

(* release_all, under the write lock: keep the cells whose strong count is *)
(* more than the table's own reference.                                    *)
ReleaseAll ==
    /\ table' = [p \in Paths |-> IF Referrers(table[p]) = {} THEN NoCell ELSE table[p]]
    /\ UNCHANGED <<owner, waiters, pc, target, cell>>

-----------------------------------------------------------------------------
Progress(c) == CreateCell(c) \/ LockOwned(c) \/ Granted(c) \/ Unlock(c) \/ DropArc(c)

Next == \/ \E c \in Callers : \/ \E p \in Paths : Lookup(c, p)
                              \/ CreateCell(c)
                              \/ AbortCreate(c)
                              \/ LockOwned(c)
                              \/ Granted(c)
                              \/ Timeout(c)
                              \/ Unlock(c)
                              \/ DropArc(c)
        \/ ReleaseAll

Spec == Init /\ [][Next]_vars

(* Every task that can take a step is polled, and a critical section ends: *)
(* the bodies of write_file and patch_file hold no await after the lock.   *)
FairSpec == Spec /\ \A c \in Callers : WF_vars(Progress(c))

-----------------------------------------------------------------------------
(* The variables have the shapes the code gives them; a caller owns an Arc *)
(* exactly from the lookup to the drop of its guard.                       *)
TypeOK == /\ table \in [Paths -> Cells \cup {NoCell}]
          /\ owner \in [Cells -> Callers \cup {NoCaller}]
          /\ waiters \in [Cells -> Seq(Callers)]
          /\ pc \in [Callers -> Locations]
          /\ target \in [Callers -> Paths]
          /\ cell \in [Callers -> Cells \cup {NoCell}]
          /\ \A c \in Callers : cell[c] = NoCell <=> pc[c] \in {"idle", "create"}

(* Two callers never hold guards on the same path, whatever release_all,   *)
(* racing creators, timeouts and hand-overs do in between.                 *)
MutualExclusion ==
    \A c, d \in Callers :
        (pc[c] = "held" /\ pc[d] = "held" /\ target[c] = target[d]) => c = d

(* A permit is never lost: whoever it is assigned to is still going to take*)
(* it or is in its critical section, and a free permit has no one queued   *)
(* behind it.                                                              *)
NoLostPermit ==
    \A k \in Cells :
        /\ owner[k] # NoCaller =>
               pc[owner[k]] \in {"queued", "held"} /\ cell[owner[k]] = k
        /\ owner[k] = NoCaller => waiters[k] = <<>>

(* The guard of a path is the permit of its cell.                          *)
HolderOwnsPermit ==
    \A c \in Callers : pc[c] = "held" => owner[cell[c]] = c

(* release_all frees only cells without users, so all users of a path meet *)
(* in the table's cell, and distinct paths never share one.                *)
OneCellPerPath ==
    /\ \A c \in Callers : cell[c] # NoCell => table[target[c]] = cell[c]
    /\ \A p, q \in Paths : table[p] = table[q] /\ table[p] # NoCell => p = q

(* The table is a lock per path: the turn is with whoever has the permit   *)
(* of the path's cell, the queue is that cell's.                           *)
turn == [p \in Paths |-> IF table[p] = NoCell THEN NoCaller
                         ELSE owner[table[p]]]
behind == [p \in Paths |-> IF table[p] = NoCell THEN <<>>
                           ELSE waiters[table[p]]]

Lock == INSTANCE PathLock WITH holder <- turn, queue <- behind,
                               inside <- {c \in Callers : pc[c] = "held"}

(* Through lookups that race with creators, sweeps that free cells and     *)
(* timeouts that race with hand-overs, a caller sees one first-come-first- *)
(* served lock per path: every step is a step of PathLock or none at all.  *)
ImplementsPathLock == Lock!Spec

(* A caller that waits for a path gets the lock or times out: a permit     *)
(* assigned to a waiter that gave up never blocks the ones behind it.      *)
WaitersAreServed ==
    \A c \in Callers : pc[c] = "queued" ~> pc[c] \in {"held", "drop"}
=============================================================================
