--------------------------- MODULE PathLockProofs ---------------------------
(***************************************************************************)
(* Proofs about the path locks and about the tools that take them, for any *)
(* number of callers, paths and cells.                                     *)
(*                                                                         *)
(* First the table, PathLockTable: types, mutual exclusion, no permit      *)
(* lost, and that it implements PathLock.  Then FileTools: the tools use   *)
(* the table as its specification allows, so what is proved about it holds *)
(* under them; on top of it, a reported change is lost only to a call      *)
(* under the other of the two locks, and a patch keeps every save that     *)
(* landed before its second read.                                          *)
(***************************************************************************)
EXTENDS FileTools, TLAPS

(* Handing a permit over keeps owners and queues well typed.               *)
LEMMA HandOverType ==
    ASSUME TypeOK, NEW k \in Cells, HandOver(k)
    PROVE  /\ owner' \in [Cells -> Callers \cup {NoCaller}]
           /\ waiters' \in [Cells -> Seq(Callers)]
<1>1. CASE waiters[k] = <<>>
  BY <1>1 DEF HandOver, TypeOK
<1>2. CASE waiters[k] # <<>>
  <2>1. waiters[k] \in Seq(Callers)
    BY DEF TypeOK
  <2>2. Head(waiters[k]) \in Callers /\ Tail(waiters[k]) \in Seq(Callers)
    BY <1>2, <2>1
  <2>3. QED
    BY <1>2, <2>2 DEF HandOver, TypeOK
<1>3. QED
  BY <1>1, <1>2

(* So does leaving a queue.                                                *)
LEMMA LeaveQueueType ==
    ASSUME TypeOK, NEW c \in Callers, NEW k \in Cells, LeaveQueue(c, k)
    PROVE  waiters' \in [Cells -> Seq(Callers)]
<1>1. PICK i \in DOMAIN waiters[k] :
          waiters' = [waiters EXCEPT ![k] =
              [j \in 1 .. Len(@) - 1 |-> IF j < i THEN @[j] ELSE @[j + 1]]]
  BY DEF LeaveQueue
<1>2. waiters[k] \in Seq(Callers)
  BY DEF TypeOK
<1>3. [j \in 1 .. Len(waiters[k]) - 1 |->
          IF j < i THEN waiters[k][j] ELSE waiters[k][j + 1]] \in Seq(Callers)
  BY <1>1, <1>2
<1>4. QED
  BY <1>1, <1>3 DEF TypeOK

(* Every reachable state is well typed, and a caller owns an Arc exactly   *)
(* between its lookup and the drop of its guard.                           *)
THEOREM TypeCorrect == Spec => []TypeOK
<1>1. Init => TypeOK
  BY DEF Init, TypeOK, Locations
<1>2. TypeOK /\ [Next]_vars => TypeOK'
  <2> SUFFICES ASSUME TypeOK, [Next]_vars
               PROVE  TypeOK'
    OBVIOUS
  <2>1. ASSUME NEW c \in Callers, NEW p \in Paths, Lookup(c, p)
        PROVE  TypeOK'
    BY <2>1, NoCellAssumption DEF Lookup, TypeOK, Locations
  <2>2. ASSUME NEW c \in Callers, CreateCell(c)
        PROVE  TypeOK'
    <3>1. target[c] \in Paths /\ pc[c] = "create"
      BY <2>2 DEF CreateCell, TypeOK
    <3>2. CASE table[target[c]] # NoCell
      BY <2>2, <3>1, <3>2 DEF CreateCell, TypeOK, Locations
    <3>3. CASE table[target[c]] = NoCell
      <4>1. PICK k \in Cells : /\ table' = [table EXCEPT ![target[c]] = k]
                               /\ cell' = [cell EXCEPT ![c] = k]
        BY <2>2, <3>3 DEF CreateCell, Unused
      <4>2. k # NoCell
        BY NoCellAssumption
      <4>3. QED
        BY <2>2, <3>1, <4>1, <4>2 DEF CreateCell, TypeOK, Locations
    <3>4. QED
      BY <3>2, <3>3
  <2>3. ASSUME NEW c \in Callers, AbortCreate(c)
        PROVE  TypeOK'
    BY <2>3 DEF AbortCreate, TypeOK, Locations
  <2>4. ASSUME NEW c \in Callers, LockOwned(c)
        PROVE  TypeOK'
    <3>1. cell[c] \in Cells
      BY <2>4 DEF LockOwned, TypeOK
    <3>2. Append(waiters[cell[c]], c) \in Seq(Callers)
      BY <3>1 DEF TypeOK
    <3>3. CASE owner[cell[c]] = NoCaller
      BY <2>4, <3>1, <3>3 DEF LockOwned, TypeOK, Locations
    <3>4. CASE owner[cell[c]] # NoCaller
      <4>1. waiters' = [waiters EXCEPT ![cell[c]] = Append(waiters[cell[c]], c)]
        BY <2>4, <3>4 DEF LockOwned
      <4>2. waiters' \in [Cells -> Seq(Callers)]
        BY <3>2, <4>1 DEF TypeOK
      <4>3. QED
        BY <2>4, <3>4, <4>2 DEF LockOwned, TypeOK, Locations
    <3>5. QED
      BY <3>3, <3>4
  <2>5. ASSUME NEW c \in Callers, Granted(c)
        PROVE  TypeOK'
    BY <2>5 DEF Granted, TypeOK, Locations
  <2>6. ASSUME NEW c \in Callers, Timeout(c)
        PROVE  TypeOK'
    <3>1. cell[c] \in Cells
      BY <2>6 DEF Timeout, TypeOK
    <3>2. /\ owner' \in [Cells -> Callers \cup {NoCaller}]
          /\ waiters' \in [Cells -> Seq(Callers)]
      <4>1. CASE HandOver(cell[c])
        BY <4>1, <3>1, HandOverType
      <4>2. CASE LeaveQueue(c, cell[c])
        BY <4>2, <3>1, LeaveQueueType DEF LeaveQueue, TypeOK
      <4>3. QED
        BY <2>6, <4>1, <4>2 DEF Timeout
    <3>3. QED
      BY <2>6, <3>2 DEF Timeout, TypeOK, Locations
  <2>7. ASSUME NEW c \in Callers, Unlock(c)
        PROVE  TypeOK'
    <3>1. cell[c] \in Cells
      BY <2>7 DEF Unlock, TypeOK
    <3>2. /\ owner' \in [Cells -> Callers \cup {NoCaller}]
          /\ waiters' \in [Cells -> Seq(Callers)]
      BY <2>7, <3>1, HandOverType DEF Unlock
    <3>3. QED
      BY <2>7, <3>2 DEF Unlock, TypeOK, Locations
  <2>8. ASSUME NEW c \in Callers, DropArc(c)
        PROVE  TypeOK'
    BY <2>8 DEF DropArc, TypeOK, Locations
  <2>9. CASE ReleaseAll
    BY <2>9 DEF ReleaseAll, TypeOK
  <2>10. CASE UNCHANGED vars
    BY <2>10 DEF vars, TypeOK
  <2>11. QED
    BY <2>1, <2>2, <2>3, <2>4, <2>5, <2>6, <2>7, <2>8, <2>9, <2>10 DEF Next
<1>3. QED
  BY <1>1, <1>2, PTL DEF Spec

-----------------------------------------------------------------------------
(* Mutual exclusion.  Two holders of a path have cloned the same cell,     *)
(* because the table never forgets or replaces a cell somebody refers to,  *)
(* and the permit of that cell is assigned to both: they are one caller.   *)
MutexInv == TypeOK /\ OneCellPerPath /\ HolderOwnsPermit

(* A step that gives the permit of k away leaves every other holder's      *)
(* permit in place.                                                        *)
LEMMA HandOverKeepsHolders ==
    ASSUME TypeOK, HolderOwnsPermit, NEW c \in Callers, cell[c] \in Cells,
           owner[cell[c]] = c, HandOver(cell[c]),
           NEW d \in Callers, d # c, pc[d] = "held"
    PROVE  owner'[cell[d]] = d
<1>1. cell[d] \in Cells /\ owner[cell[d]] = d
  BY DEF HolderOwnsPermit, TypeOK
<1>2. cell[d] # cell[c]
  BY <1>1
<1>3. QED
  BY <1>1, <1>2 DEF HandOver, TypeOK

(* An empty table has no users and no holders.                             *)
LEMMA MutexInvInit == Init => MutexInv
<1>1. Init => TypeOK
  BY DEF Init, TypeOK, Locations
<1>2. QED
  BY <1>1 DEF Init, MutexInv, OneCellPerPath, HolderOwnsPermit

(* No step of acquire, of a guard's drop or of release_all breaks it.      *)
LEMMA MutexInvStep == MutexInv /\ TypeOK' /\ [Next]_vars => MutexInv'
<1> SUFFICES ASSUME MutexInv, TypeOK', [Next]_vars
             PROVE  OneCellPerPath' /\ HolderOwnsPermit'
  BY DEF MutexInv
<1> USE DEF MutexInv
<1>1. ASSUME NEW c \in Callers, NEW p \in Paths, Lookup(c, p)
      PROVE  OneCellPerPath' /\ HolderOwnsPermit'
  <2>1. HolderOwnsPermit'
    BY <1>1 DEF Lookup, HolderOwnsPermit, TypeOK
  <2>2. OneCellPerPath'
    BY <1>1, NoCellAssumption DEF Lookup, OneCellPerPath, TypeOK
  <2>3. QED
    BY <2>1, <2>2
<1>2. ASSUME NEW c \in Callers, CreateCell(c)
      PROVE  OneCellPerPath' /\ HolderOwnsPermit'
  <2>1. HolderOwnsPermit'
    <3>1. \A d \in Callers : pc'[d] = "held" => d # c /\ pc[d] = "held" /\ cell'[d] = cell[d]
      BY <1>2 DEF CreateCell, TypeOK
    <3>2. QED
      BY <1>2, <3>1 DEF CreateCell, HolderOwnsPermit
  <2>2. CASE table[target[c]] # NoCell
    <3>1. table' = table /\ target' = target
      BY <1>2, <2>2 DEF CreateCell
    <3>2. cell' = [cell EXCEPT ![c] = table[target[c]]]
      BY <1>2, <2>2 DEF CreateCell
    <3>3. \A d \in Callers : cell'[d] # NoCell => table[target[d]] = cell'[d]
      BY <3>2 DEF OneCellPerPath, TypeOK
    <3>4. QED
      BY <2>1, <3>1, <3>3 DEF OneCellPerPath
  <2>3. CASE table[target[c]] = NoCell
    <3>1. PICK k \in Unused : /\ table' = [table EXCEPT ![target[c]] = k]
                              /\ cell' = [cell EXCEPT ![c] = k]
      BY <1>2, <2>3 DEF CreateCell
    <3>2. k \in Cells /\ \A q \in Paths : table[q] # k
      BY DEF Unused
    <3>3. target' = target /\ target[c] \in Paths
      BY <1>2 DEF CreateCell, TypeOK
    <3>4. \A p, q \in Paths : table'[p] = table'[q] /\ table'[p] # NoCell => p = q
      BY <3>1, <3>2, <3>3 DEF OneCellPerPath, TypeOK
    <3>5. ASSUME NEW d \in Callers, cell'[d] # NoCell
          PROVE  table'[target'[d]] = cell'[d]
      <4>1. CASE d = c
        BY <3>1, <3>3, <4>1 DEF TypeOK
      <4>2. CASE d # c
        <5>1. cell'[d] = cell[d] /\ table[target[d]] = cell[d]
          BY <3>1, <3>5, <4>2 DEF OneCellPerPath, TypeOK
        <5>2. target[d] # target[c]
          BY <2>3, <3>5, <5>1
        <5>3. QED
          BY <3>1, <3>3, <5>1, <5>2 DEF TypeOK
      <4>3. QED
        BY <4>1, <4>2
    <3>6. QED
      BY <2>1, <3>4, <3>5 DEF OneCellPerPath
  <2>4. QED
    BY <2>1, <2>2, <2>3
<1>3. ASSUME NEW c \in Callers, AbortCreate(c)
      PROVE  OneCellPerPath' /\ HolderOwnsPermit'
  BY <1>3 DEF AbortCreate, OneCellPerPath, HolderOwnsPermit, TypeOK
<1>4. ASSUME NEW c \in Callers, LockOwned(c)
      PROVE  OneCellPerPath' /\ HolderOwnsPermit'
  <2>1. OneCellPerPath'
    BY <1>4 DEF LockOwned, OneCellPerPath
  <2>2. cell[c] \in Cells
    BY <1>4 DEF LockOwned, TypeOK
  <2>3. CASE owner[cell[c]] = NoCaller
    <3>1. ASSUME NEW d \in Callers, pc'[d] = "held"
          PROVE  owner'[cell'[d]] = d
      <4>1. CASE d = c
        BY <1>4, <2>2, <2>3, <4>1 DEF LockOwned, TypeOK
      <4>2. CASE d # c
        BY <1>4, <2>2, <2>3, <3>1, <4>2, NoCallerAssumption
           DEF LockOwned, HolderOwnsPermit, TypeOK
      <4>3. QED
        BY <4>1, <4>2
    <3>2. QED
      BY <2>1, <3>1 DEF HolderOwnsPermit
  <2>4. CASE owner[cell[c]] # NoCaller
    BY <1>4, <2>1, <2>4 DEF LockOwned, HolderOwnsPermit, TypeOK
  <2>5. QED
    BY <2>3, <2>4
<1>5. ASSUME NEW c \in Callers, Granted(c)
      PROVE  OneCellPerPath' /\ HolderOwnsPermit'
  BY <1>5 DEF Granted, OneCellPerPath, HolderOwnsPermit, TypeOK
<1>6. ASSUME NEW c \in Callers, Timeout(c)
      PROVE  OneCellPerPath' /\ HolderOwnsPermit'
  <2>1. OneCellPerPath'
    BY <1>6 DEF Timeout, OneCellPerPath
  <2>2. cell[c] \in Cells /\ cell' = cell
    BY <1>6 DEF Timeout, TypeOK
  <2>3. ASSUME NEW d \in Callers, pc'[d] = "held"
        PROVE  owner'[cell[d]] = d
    <3>1. d # c /\ pc[d] = "held"
      BY <1>6, <2>3 DEF Timeout, TypeOK
    <3>2. CASE owner[cell[c]] = c /\ HandOver(cell[c])
      BY <2>2, <3>1, <3>2, HandOverKeepsHolders
    <3>3. CASE LeaveQueue(c, cell[c])
      BY <3>1, <3>3 DEF LeaveQueue, HolderOwnsPermit
    <3>4. QED
      BY <1>6, <3>2, <3>3 DEF Timeout
  <2>4. QED
    BY <2>1, <2>2, <2>3 DEF HolderOwnsPermit
<1>7. ASSUME NEW c \in Callers, Unlock(c)
      PROVE  OneCellPerPath' /\ HolderOwnsPermit'
  <2>1. OneCellPerPath'
    BY <1>7 DEF Unlock, OneCellPerPath
  <2>2. cell[c] \in Cells /\ cell' = cell /\ owner[cell[c]] = c
    BY <1>7 DEF Unlock, TypeOK, HolderOwnsPermit
  <2>3. ASSUME NEW d \in Callers, pc'[d] = "held"
        PROVE  owner'[cell[d]] = d
    <3>1. d # c /\ pc[d] = "held"
      BY <1>7, <2>3 DEF Unlock, TypeOK
    <3>2. QED
      BY <1>7, <2>2, <3>1, HandOverKeepsHolders DEF Unlock
  <2>4. QED
    BY <2>1, <2>2, <2>3 DEF HolderOwnsPermit
<1>8. ASSUME NEW c \in Callers, DropArc(c)
      PROVE  OneCellPerPath' /\ HolderOwnsPermit'
  BY <1>8 DEF DropArc, OneCellPerPath, HolderOwnsPermit, TypeOK
<1>9. CASE ReleaseAll
  <2>1. HolderOwnsPermit'
    BY <1>9 DEF ReleaseAll, HolderOwnsPermit
  <2>2. ASSUME NEW c \in Callers, cell'[c] # NoCell
        PROVE  table'[target'[c]] = cell'[c]
    <3>1. table[target[c]] = cell[c] /\ target[c] \in Paths
      BY <1>9, <2>2 DEF ReleaseAll, OneCellPerPath, TypeOK
    <3>2. c \in Referrers(table[target[c]])
      BY <3>1 DEF Referrers
    <3>3. QED
      BY <1>9, <3>1, <3>2 DEF ReleaseAll
  <2>3. \A p, q \in Paths : table'[p] = table'[q] /\ table'[p] # NoCell => p = q
    BY <1>9 DEF ReleaseAll, OneCellPerPath
  <2>4. QED
    BY <2>1, <2>2, <2>3 DEF OneCellPerPath
<1>10. CASE UNCHANGED vars
  BY <1>10 DEF vars, OneCellPerPath, HolderOwnsPermit
<1>11. QED
  BY <1>1, <1>2, <1>3, <1>4, <1>5, <1>6, <1>7, <1>8, <1>9, <1>10 DEF Next

(* Two callers never hold guards on the same path.                         *)
THEOREM PathMutualExclusion == Spec => []MutualExclusion
<1>1. MutexInv => MutualExclusion
  <2> SUFFICES ASSUME MutexInv, NEW c \in Callers, NEW d \in Callers,
                      pc[c] = "held", pc[d] = "held", target[c] = target[d]
               PROVE  c = d
    BY DEF MutualExclusion
  <2>1. cell[c] # NoCell /\ cell[d] # NoCell
    BY DEF MutexInv, TypeOK
  <2>2. cell[c] = cell[d]
    BY <2>1 DEF MutexInv, OneCellPerPath
  <2>3. QED
    BY <2>2 DEF MutexInv, HolderOwnsPermit
<1>2. QED
  BY <1>1, MutexInvInit, MutexInvStep, TypeCorrect, PTL DEF Spec

(* The users of a path all meet in the cell the table has for it, and no   *)
(* two paths share one.                                                    *)
THEOREM PathHasOneCell == Spec => []OneCellPerPath
<1>1. MutexInv => OneCellPerPath
  BY DEF MutexInv
<1>2. QED
  BY <1>1, MutexInvInit, MutexInvStep, TypeCorrect, PTL DEF Spec

-----------------------------------------------------------------------------
(* The permits.  A queue holds distinct callers that wait for its cell and *)
(* do not have the permit already.                                         *)
WaitersWait ==
    \A k \in Cells : \A i \in DOMAIN waiters[k] :
        /\ pc[waiters[k][i]] = "queued" /\ cell[waiters[k][i]] = k
        /\ waiters[k][i] # owner[k]
        /\ \A j \in DOMAIN waiters[k] : waiters[k][j] = waiters[k][i] => j = i

PermitInv == MutexInv /\ NoLostPermit /\ WaitersWait

(* The head of a queue and the others behind it.                           *)
LEMMA HeadAndTail ==
    ASSUME NEW S, NEW q \in Seq(S), q # <<>>
    PROVE  /\ Head(q) = q[1] /\ 1 \in DOMAIN q /\ Head(q) \in S
           /\ DOMAIN Tail(q) = 1 .. Len(q) - 1
           /\ \A i \in DOMAIN Tail(q) : i + 1 \in DOMAIN q /\ Tail(q)[i] = q[i + 1]
  OBVIOUS

(* Leaving a queue takes out one index and keeps the order of the others.  *)
LEMMA WithoutIndex ==
    ASSUME NEW S, NEW q \in Seq(S), NEW i \in DOMAIN q, NEW r,
           r = [j \in 1 .. Len(q) - 1 |-> IF j < i THEN q[j] ELSE q[j + 1]]
    PROVE  /\ DOMAIN r = 1 .. Len(q) - 1
           /\ \A j \in DOMAIN r :
                 LET m == IF j < i THEN j ELSE j + 1
                 IN  m \in DOMAIN q /\ m # i /\ r[j] = q[m]
  OBVIOUS

(* The owner of a permit gives it away and stops using its cell: the next  *)
(* in line has it, and nobody else is touched.                             *)
LEMMA HandOverKeepsPermits ==
    ASSUME PermitInv, NEW c \in Callers, cell[c] \in Cells,
           owner[cell[c]] = c, HandOver(cell[c]),
           pc' = [pc EXCEPT ![c] = "drop"], cell' = cell
    PROVE  NoLostPermit' /\ WaitersWait'
<1> DEFINE k == cell[c]
<1> USE DEF PermitInv, MutexInv
<1>1. \A d \in Callers : d # c => pc'[d] = pc[d]
  BY DEF TypeOK
<1>2. waiters[k] \in Seq(Callers)
  BY DEF TypeOK
<1>3. \A h \in Cells : h # k => owner'[h] = owner[h] /\ waiters'[h] = waiters[h]
  BY DEF HandOver, TypeOK
<1>4. \A h \in Cells : h # k => owner[h] # c
  BY NoCallerAssumption DEF NoLostPermit, TypeOK
<1>5. \A h \in Cells : \A i \in DOMAIN waiters[h] : waiters[h][i] \in Callers
  BY DEF TypeOK
<1>6. \A h \in Cells : \A i \in DOMAIN waiters[h] : waiters[h][i] # c
  BY DEF WaitersWait, TypeOK
<1>7. CASE waiters[k] = <<>>
  <2>1. owner'[k] = NoCaller /\ waiters'[k] = <<>>
    BY <1>7 DEF HandOver, TypeOK
  <2>2. NoLostPermit'
    BY <1>1, <1>3, <1>4, <2>1 DEF NoLostPermit, TypeOK
  <2>3. WaitersWait'
    BY <1>1, <1>3, <1>5, <1>6, <2>1 DEF WaitersWait
  <2>4. QED
    BY <2>2, <2>3
<1>8. CASE waiters[k] # <<>>
  <2>1. owner'[k] = Head(waiters[k]) /\ waiters'[k] = Tail(waiters[k])
    BY <1>8 DEF HandOver, TypeOK
  <2>2. /\ Head(waiters[k]) = waiters[k][1] /\ 1 \in DOMAIN waiters[k]
        /\ Head(waiters[k]) \in Callers
        /\ DOMAIN Tail(waiters[k]) = 1 .. Len(waiters[k]) - 1
        /\ \A i \in DOMAIN Tail(waiters[k]) :
              i + 1 \in DOMAIN waiters[k] /\ Tail(waiters[k])[i] = waiters[k][i + 1]
    BY <1>2, <1>8, HeadAndTail
  <2>3. /\ owner'[k] \in Callers /\ owner'[k] # c
        /\ pc[owner'[k]] = "queued" /\ cell[owner'[k]] = k
    BY <1>6, <2>1, <2>2 DEF WaitersWait
  <2>4. NoLostPermit'
    <3>1. ASSUME NEW h \in Cells
          PROVE  /\ owner'[h] # NoCaller =>
                       pc'[owner'[h]] \in {"queued", "held"} /\ cell'[owner'[h]] = h
                 /\ owner'[h] = NoCaller => waiters'[h] = <<>>
      <4>1. CASE h = k
        BY <1>1, <2>3, <4>1, NoCallerAssumption
      <4>2. CASE h # k
        BY <1>1, <1>3, <1>4, <4>2 DEF NoLostPermit, TypeOK
      <4>3. QED
        BY <4>1, <4>2
    <3>2. QED
      BY <3>1 DEF NoLostPermit
  <2>5. WaitersWait'
    <3>1. ASSUME NEW h \in Cells, NEW i \in DOMAIN waiters'[h]
          PROVE  /\ pc'[waiters'[h][i]] = "queued" /\ cell'[waiters'[h][i]] = h
                 /\ waiters'[h][i] # owner'[h]
                 /\ \A j \in DOMAIN waiters'[h] :
                       waiters'[h][j] = waiters'[h][i] => j = i
      <4>1. CASE h = k
        <5>1. \A j \in DOMAIN waiters'[k] :
                 j \in Nat \ {0} /\ j + 1 \in DOMAIN waiters[k]
                   /\ waiters'[k][j] = waiters[k][j + 1]
          BY <1>2, <2>1, <2>2
        <5>2. i + 1 \in DOMAIN waiters[k] /\ waiters'[k][i] = waiters[k][i + 1]
                /\ i \in Nat \ {0} /\ i + 1 # 1
          BY <3>1, <4>1, <5>1
        <5>3. pc[waiters[k][i + 1]] = "queued" /\ cell[waiters[k][i + 1]] = k
          BY <5>2 DEF WaitersWait
        <5>4. waiters[k][i + 1] \in Callers /\ waiters[k][i + 1] # c
          BY <1>5, <1>6, <5>2
        <5>5. waiters[k][i + 1] # waiters[k][1]
          BY <2>2, <5>2 DEF WaitersWait
        <5>6. \A j \in DOMAIN waiters'[k] :
                 waiters'[k][j] = waiters'[k][i] => j = i
          <6>1. ASSUME NEW j \in DOMAIN waiters'[k], waiters'[k][j] = waiters'[k][i]
                PROVE  j = i
            <7>1. waiters[k][j + 1] = waiters[k][i + 1] /\ j + 1 \in DOMAIN waiters[k]
                    /\ j \in Nat
              BY <5>1, <5>2, <6>1
            <7>2. j + 1 = i + 1
              BY <5>2, <7>1 DEF WaitersWait
            <7>3. QED
              BY <5>2, <7>1, <7>2
          <6>2. QED
            BY <6>1
        <5>7. QED
          BY <1>1, <2>1, <2>2, <4>1, <5>2, <5>3, <5>4, <5>5, <5>6
      <4>2. CASE h # k
        BY <1>1, <1>3, <1>5, <1>6, <3>1, <4>2 DEF WaitersWait
      <4>3. QED
        BY <4>1, <4>2
    <3>2. QED
      BY <3>1 DEF WaitersWait
  <2>6. QED
    BY <2>4, <2>5
<1>9. QED
  BY <1>7, <1>8

(* A waiter that gives up before its turn leaves the permit alone.         *)
LEMMA LeaveQueueKeepsPermits ==
    ASSUME PermitInv, NEW c \in Callers, cell[c] \in Cells,
           owner[cell[c]] # c, LeaveQueue(c, cell[c]),
           pc' = [pc EXCEPT ![c] = "drop"], cell' = cell, pc[c] = "queued"
    PROVE  NoLostPermit' /\ WaitersWait'
<1> DEFINE k == cell[c]
<1> USE DEF PermitInv, MutexInv
<1>1. \A d \in Callers : d # c => pc'[d] = pc[d]
  BY DEF TypeOK
<1>2. waiters[k] \in Seq(Callers)
  BY DEF TypeOK
<1>3. PICK i \in DOMAIN waiters[k] :
         /\ waiters[k][i] = c
         /\ waiters' = [waiters EXCEPT ![k] =
               [j \in 1 .. Len(@) - 1 |-> IF j < i THEN @[j] ELSE @[j + 1]]]
  BY DEF LeaveQueue
<1>4. owner' = owner /\ \A h \in Cells : h # k => waiters'[h] = waiters[h]
  BY <1>3 DEF LeaveQueue, TypeOK
<1>5. \A h \in Cells : owner[h] # c
  <2>1. ASSUME NEW h \in Cells, owner[h] = c
        PROVE  FALSE
    BY <2>1, NoCallerAssumption DEF NoLostPermit
  <2>2. QED
    BY <2>1
<1>6. NoLostPermit'
  <2>1. ASSUME NEW h \in Cells
        PROVE  /\ owner'[h] # NoCaller =>
                     pc'[owner'[h]] \in {"queued", "held"} /\ cell'[owner'[h]] = h
               /\ owner'[h] = NoCaller => waiters'[h] = <<>>
    <3>1. owner[h] # NoCaller =>
             pc'[owner[h]] \in {"queued", "held"} /\ cell'[owner[h]] = h
      BY <1>1, <1>5 DEF NoLostPermit, TypeOK
    <3>2. owner[k] # NoCaller
      BY <1>2, <1>3 DEF NoLostPermit
    <3>3. owner[h] = NoCaller => waiters'[h] = <<>>
      BY <1>4, <3>2 DEF NoLostPermit
    <3>4. QED
      BY <1>4, <3>1, <3>3
  <2>2. QED
    BY <2>1 DEF NoLostPermit
<1>7. WaitersWait'
  <2>1. ASSUME NEW h \in Cells, NEW m \in DOMAIN waiters'[h]
        PROVE  /\ pc'[waiters'[h][m]] = "queued" /\ cell'[waiters'[h][m]] = h
               /\ waiters'[h][m] # owner'[h]
               /\ \A j \in DOMAIN waiters'[h] :
                     waiters'[h][j] = waiters'[h][m] => j = m
    <3>1. CASE h = k
      <4> DEFINE Old(j) == IF j < i THEN j ELSE j + 1
      <4>1. waiters'[k] = [j \in 1 .. Len(waiters[k]) - 1 |->
                             IF j < i THEN waiters[k][j] ELSE waiters[k][j + 1]]
        BY <1>3 DEF TypeOK
      <4>2. /\ DOMAIN waiters'[k] = 1 .. Len(waiters[k]) - 1
            /\ \A j \in DOMAIN waiters'[k] :
                  /\ Old(j) \in DOMAIN waiters[k] /\ Old(j) # i
                  /\ waiters'[k][j] = waiters[k][Old(j)]
        BY <1>2, <1>3, <4>1, WithoutIndex
      <4>3. m \in DOMAIN waiters'[k]
        BY <2>1, <3>1
      <4> HIDE DEF Old
      <4>4. /\ pc[waiters[k][Old(m)]] = "queued" /\ cell[waiters[k][Old(m)]] = k
            /\ waiters[k][Old(m)] # owner[k] /\ waiters[k][Old(m)] # c
        <5>1. Old(m) \in DOMAIN waiters[k] /\ Old(m) # i
          BY <4>2, <4>3
        <5>2. waiters[k][Old(m)] # waiters[k][i]
          BY <1>3, <5>1 DEF WaitersWait
        <5>3. QED
          BY <1>3, <5>1, <5>2 DEF WaitersWait
      <4>5. waiters[k][Old(m)] \in Callers
        BY <1>2, <4>2, <4>3
      <4>6. ASSUME NEW j \in DOMAIN waiters'[k], waiters'[k][j] = waiters'[k][m]
            PROVE  j = m
        <5>1. Old(j) = Old(m)
          BY <4>2, <4>3, <4>6 DEF WaitersWait
        <5>2. j \in Nat /\ m \in Nat /\ i \in Nat
          BY <1>2, <1>3, <4>2, <4>3, <4>6
        <5>3. QED
          BY <5>1, <5>2 DEF Old
      <4>7. QED
        BY <1>1, <1>4, <3>1, <4>2, <4>3, <4>4, <4>5, <4>6
    <3>2. CASE h # k
      <4>1. m \in DOMAIN waiters[h] /\ waiters'[h] = waiters[h]
        BY <1>4, <2>1, <3>2
      <4>2. waiters[h][m] \in Callers
        BY <4>1 DEF TypeOK
      <4>3. waiters[h][m] # c
        BY <3>2, <4>1 DEF WaitersWait
      <4>4. QED
        BY <1>1, <1>4, <4>1, <4>2, <4>3 DEF WaitersWait
    <3>3. QED
      BY <3>1, <3>2
  <2>2. QED
    BY <2>1 DEF WaitersWait
<1>8. QED
  BY <1>6, <1>7

(* At the start no permit is taken and nobody waits.                       *)
LEMMA PermitInvInit == Init => PermitInv
  BY MutexInvInit DEF Init, PermitInv, NoLostPermit, WaitersWait

(* Steps that leave the permits, the queues and the callers at them alone. *)
LEMMA BystandersKeepPermits ==
    ASSUME PermitInv, UNCHANGED <<owner, waiters>>,
           \A d \in Callers : pc[d] \in {"queued", "held"} =>
                                 pc'[d] = pc[d] /\ cell'[d] = cell[d]
    PROVE  NoLostPermit' /\ WaitersWait'
<1> USE DEF PermitInv, MutexInv
<1>1. NoLostPermit'
  BY DEF NoLostPermit, TypeOK
<1>2. \A k \in Cells : \A i \in DOMAIN waiters[k] : waiters[k][i] \in Callers
  BY DEF TypeOK
<1>3. WaitersWait'
  BY <1>2 DEF WaitersWait
<1>4. QED
  BY <1>1, <1>3

(* No step of acquire, of a guard's drop or of release_all loses a permit. *)
LEMMA PermitInvStep == PermitInv /\ MutexInv' /\ [Next]_vars => PermitInv'
<1> SUFFICES ASSUME PermitInv, MutexInv', [Next]_vars
             PROVE  NoLostPermit' /\ WaitersWait'
  BY DEF PermitInv
<1> USE DEF PermitInv, MutexInv
<1>1. ASSUME NEW c \in Callers, NEW p \in Paths, Lookup(c, p)
      PROVE  NoLostPermit' /\ WaitersWait'
  <2>1. \A d \in Callers : pc[d] \in {"queued", "held"} =>
                              pc'[d] = pc[d] /\ cell'[d] = cell[d]
    BY <1>1 DEF Lookup, TypeOK
  <2>2. QED
    BY <1>1, <2>1, BystandersKeepPermits DEF Lookup
<1>2. ASSUME NEW c \in Callers, CreateCell(c)
      PROVE  NoLostPermit' /\ WaitersWait'
  <2>1. \A d \in Callers : pc[d] \in {"queued", "held"} =>
                              pc'[d] = pc[d] /\ cell'[d] = cell[d]
    BY <1>2 DEF CreateCell, TypeOK
  <2>2. QED
    BY <1>2, <2>1, BystandersKeepPermits DEF CreateCell
<1>3. ASSUME NEW c \in Callers, AbortCreate(c) \/ DropArc(c)
      PROVE  NoLostPermit' /\ WaitersWait'
  <2>1. \A d \in Callers : pc[d] \in {"queued", "held"} =>
                              pc'[d] = pc[d] /\ cell'[d] = cell[d]
    BY <1>3 DEF AbortCreate, DropArc, TypeOK
  <2>2. QED
    BY <1>3, <2>1, BystandersKeepPermits DEF AbortCreate, DropArc
<1>4. ASSUME NEW c \in Callers, LockOwned(c)
      PROVE  NoLostPermit' /\ WaitersWait'
  <2> DEFINE k == cell[c]
  <2>1. k \in Cells /\ pc[c] = "lock"
    BY <1>4 DEF LockOwned, TypeOK
  <2>2. cell' = cell /\ \A d \in Callers : d # c => pc'[d] = pc[d]
    BY <1>4 DEF LockOwned, TypeOK
  <2>3. \A h \in Cells : owner[h] # c
    BY <2>1, NoCallerAssumption DEF NoLostPermit
  <2>4. \A h \in Cells : \A i \in DOMAIN waiters[h] :
           waiters[h][i] \in Callers /\ waiters[h][i] # c
    BY <2>1 DEF WaitersWait, TypeOK
  <2>5. CASE owner[k] = NoCaller
    <3>1. /\ owner' = [owner EXCEPT ![k] = c] /\ pc'[c] = "held"
          /\ waiters' = waiters
      BY <1>4, <2>1, <2>5 DEF LockOwned, TypeOK
    <3>2. waiters[k] = <<>>
      BY <2>1, <2>5 DEF NoLostPermit
    <3>3. NoLostPermit'
      BY <2>1, <2>2, <2>3, <3>1, <3>2, NoCallerAssumption DEF NoLostPermit, TypeOK
    <3>4. WaitersWait'
      BY <2>1, <2>2, <2>4, <3>1, <3>2 DEF WaitersWait, TypeOK
    <3>5. QED
      BY <3>3, <3>4
  <2>6. CASE owner[k] # NoCaller
    <3>1. /\ owner' = owner /\ pc'[c] = "queued"
          /\ waiters' = [waiters EXCEPT ![k] = Append(waiters[k], c)]
      BY <1>4, <2>1, <2>6 DEF LockOwned, TypeOK
    <3>2. NoLostPermit'
      BY <2>1, <2>2, <2>3, <2>6, <3>1 DEF NoLostPermit, TypeOK
    <3>3. ASSUME NEW h \in Cells, NEW i \in DOMAIN waiters'[h]
          PROVE  /\ pc'[waiters'[h][i]] = "queued" /\ cell'[waiters'[h][i]] = h
                 /\ waiters'[h][i] # owner'[h]
                 /\ \A j \in DOMAIN waiters'[h] :
                       waiters'[h][j] = waiters'[h][i] => j = i
      <4>1. CASE h = k
        <5>1. waiters[k] \in Seq(Callers) /\ waiters'[k] = Append(waiters[k], c)
          BY <2>1, <3>1 DEF TypeOK
        <5>2. /\ DOMAIN waiters'[k] = 1 .. Len(waiters[k]) + 1
              /\ DOMAIN waiters[k] = 1 .. Len(waiters[k])
              /\ Len(waiters[k]) \in Nat
              /\ waiters'[k][Len(waiters[k]) + 1] = c
              /\ \A j \in DOMAIN waiters[k] : waiters'[k][j] = waiters[k][j]
          BY <5>1
        <5>3. CASE i \in DOMAIN waiters[k]
          <6>1. waiters'[k][i] = waiters[k][i]
            BY <5>2, <5>3
          <6>2. /\ pc'[waiters[k][i]] = "queued" /\ cell'[waiters[k][i]] = k
                /\ waiters[k][i] # owner'[k] /\ waiters[k][i] # c
            BY <2>1, <2>2, <2>4, <3>1, <5>3 DEF WaitersWait
          <6>3. \A j \in DOMAIN waiters'[k] : waiters'[k][j] = waiters[k][i] => j = i
            <7>1. ASSUME NEW j \in DOMAIN waiters'[k], waiters'[k][j] = waiters[k][i]
                  PROVE  j = i
              <8>1. j \in DOMAIN waiters[k]
                BY <5>2, <6>2, <7>1
              <8>2. QED
                BY <2>1, <5>2, <5>3, <7>1, <8>1 DEF WaitersWait
            <7>2. QED
              BY <7>1
          <6>4. QED
            BY <4>1, <6>1, <6>2, <6>3
        <5>4. CASE i = Len(waiters[k]) + 1
          BY <2>1, <2>2, <2>3, <2>4, <3>1, <3>3, <4>1, <5>2, <5>4
        <5>5. QED
          BY <3>3, <4>1, <5>2, <5>3, <5>4
      <4>2. CASE h # k
        <5>1. waiters'[h] = waiters[h]
          BY <3>1, <4>2 DEF TypeOK
        <5>2. /\ i \in DOMAIN waiters[h] /\ waiters[h][i] \in Callers
              /\ waiters[h][i] # c
          BY <2>4, <3>3, <5>1
        <5>3. pc'[waiters[h][i]] = pc[waiters[h][i]] /\ owner'[h] = owner[h]
          BY <2>2, <3>1, <5>2
        <5>4. QED
          BY <2>2, <5>1, <5>2, <5>3 DEF WaitersWait
      <4>3. QED
        BY <4>1, <4>2
    <3>4. QED
      BY <3>2, <3>3 DEF WaitersWait
  <2>7. QED
    BY <2>5, <2>6
<1>5. ASSUME NEW c \in Callers, Granted(c)
      PROVE  NoLostPermit' /\ WaitersWait'
  <2>1. /\ owner' = owner /\ waiters' = waiters /\ cell' = cell
        /\ pc[c] = "queued" /\ owner[cell[c]] = c /\ cell[c] \in Cells
        /\ pc'[c] = "held" /\ \A d \in Callers : d # c => pc'[d] = pc[d]
    BY <1>5 DEF Granted, TypeOK
  <2>2. NoLostPermit'
    BY <2>1 DEF NoLostPermit, TypeOK
  <2>3. \A h \in Cells : \A i \in DOMAIN waiters[h] :
           waiters[h][i] \in Callers /\ waiters[h][i] # c
    BY <2>1 DEF WaitersWait, TypeOK
  <2>4. WaitersWait'
    BY <2>1, <2>3 DEF WaitersWait
  <2>5. QED
    BY <2>2, <2>4
<1>6. ASSUME NEW c \in Callers, Timeout(c)
      PROVE  NoLostPermit' /\ WaitersWait'
  <2>1. /\ cell[c] \in Cells /\ cell' = cell /\ pc[c] = "queued"
        /\ pc' = [pc EXCEPT ![c] = "drop"]
    BY <1>6 DEF Timeout, TypeOK
  <2>2. CASE owner[cell[c]] = c /\ HandOver(cell[c])
    BY <2>1, <2>2, HandOverKeepsPermits
  <2>3. CASE owner[cell[c]] # c /\ LeaveQueue(c, cell[c])
    BY <2>1, <2>3, LeaveQueueKeepsPermits
  <2>4. QED
    BY <1>6, <2>2, <2>3 DEF Timeout
<1>7. ASSUME NEW c \in Callers, Unlock(c)
      PROVE  NoLostPermit' /\ WaitersWait'
  <2>1. /\ cell[c] \in Cells /\ cell' = cell /\ owner[cell[c]] = c
        /\ pc' = [pc EXCEPT ![c] = "drop"] /\ HandOver(cell[c])
    BY <1>7 DEF Unlock, HolderOwnsPermit, TypeOK
  <2>2. QED
    BY <2>1, HandOverKeepsPermits
<1>8. CASE ReleaseAll
  BY <1>8, BystandersKeepPermits DEF ReleaseAll
<1>9. CASE UNCHANGED vars
  BY <1>9, BystandersKeepPermits DEF vars
<1>10. QED
  BY <1>1, <1>2, <1>3, <1>4, <1>5, <1>6, <1>7, <1>8, <1>9 DEF Next

(* The invariant of the permits holds in every reachable state.            *)
LEMMA PermitInvHolds == Spec => []PermitInv
<1>1. PermitInv /\ [Next]_vars /\ TypeOK' => PermitInv'
  BY MutexInvStep, PermitInvStep DEF PermitInv
<1>2. QED
  BY <1>1, PermitInvInit, TypeCorrect, PTL DEF Spec

(* A permit is never lost to a caller that timed out or was aborted, and   *)
(* never free while somebody waits for it.                                 *)
THEOREM PermitsAreKept == Spec => []NoLostPermit
  BY PermitInvHolds, PTL DEF PermitInv

-----------------------------------------------------------------------------
(* The refinement: the table of cells implements one lock per path.        *)
inside == {c \in Callers : pc[c] = "held"}

(* The lock of a path is the cell the table has for it, and a change of    *)
(* that cell is a change of that lock only.                                *)
LEMMA CellIsLock ==
    ASSUME MutexInv, NEW p \in Paths, table[p] \in Cells, table' = table
    PROVE  /\ turn[p] = owner[table[p]] /\ behind[p] = waiters[table[p]]
           /\ \A v : owner' = [owner EXCEPT ![table[p]] = v] =>
                        turn' = [turn EXCEPT ![p] = v]
           /\ \A q : waiters' = [waiters EXCEPT ![table[p]] = q] =>
                        behind' = [behind EXCEPT ![p] = q]
<1>1. \A q \in Paths : q # p => table[q] # table[p]
  BY NoCellAssumption DEF MutexInv, OneCellPerPath
<1>2. table[p] # NoCell
  BY NoCellAssumption
<1>3. \A q \in Paths : table[q] \in Cells \cup {NoCell}
  BY DEF MutexInv, TypeOK
<1>4. turn[p] = owner[table[p]] /\ behind[p] = waiters[table[p]]
  BY <1>2 DEF turn, behind
<1>5. ASSUME NEW v, owner' = [owner EXCEPT ![table[p]] = v]
      PROVE  turn' = [turn EXCEPT ![p] = v]
  <2>1. \A q \in Paths : turn'[q] = IF q = p THEN v ELSE turn[q]
    <3>1. ASSUME NEW q \in Paths
          PROVE  turn'[q] = IF q = p THEN v ELSE turn[q]
      <4>1. turn'[q] = IF table[q] = NoCell THEN NoCaller ELSE owner'[table[q]]
        BY DEF turn
      <4>2. turn[q] = IF table[q] = NoCell THEN NoCaller ELSE owner[table[q]]
        BY DEF turn
      <4>3. table[q] # NoCell =>
               owner'[table[q]] = IF table[q] = table[p] THEN v ELSE owner[table[q]]
        BY <1>3, <1>5 DEF MutexInv, TypeOK
      <4>4. QED
        BY <1>1, <1>2, <4>1, <4>2, <4>3
    <3>2. QED
      BY <3>1
  <2>2. turn' = [q \in Paths |-> turn'[q]] /\ turn = [q \in Paths |-> turn[q]]
    BY DEF turn
  <2>3. QED
    BY <2>1, <2>2
<1>6. ASSUME NEW w, waiters' = [waiters EXCEPT ![table[p]] = w]
      PROVE  behind' = [behind EXCEPT ![p] = w]
  <2>1. \A q \in Paths : behind'[q] = IF q = p THEN w ELSE behind[q]
    <3>1. ASSUME NEW q \in Paths
          PROVE  behind'[q] = IF q = p THEN w ELSE behind[q]
      <4>1. behind'[q] = IF table[q] = NoCell THEN <<>> ELSE waiters'[table[q]]
        BY DEF behind
      <4>2. behind[q] = IF table[q] = NoCell THEN <<>> ELSE waiters[table[q]]
        BY DEF behind
      <4>3. table[q] # NoCell =>
               waiters'[table[q]] = IF table[q] = table[p] THEN w ELSE waiters[table[q]]
        BY <1>3, <1>6 DEF MutexInv, TypeOK
      <4>4. QED
        BY <1>1, <1>2, <4>1, <4>2, <4>3
    <3>2. QED
      BY <3>1
  <2>2. behind' = [q \in Paths |-> behind'[q]] /\ behind = [q \in Paths |-> behind[q]]
    BY DEF behind
  <2>3. QED
    BY <2>1, <2>2
<1>7. QED
  BY <1>4, <1>5, <1>6

(* A cell nobody refers to has a free permit and an empty queue: it may    *)
(* come into the table, or go, without a change of any lock.               *)
LEMMA UnreferredIsFree ==
    ASSUME PermitInv, NEW k \in Cells, Referrers(k) = {}
    PROVE  owner[k] = NoCaller /\ waiters[k] = <<>>
  BY DEF PermitInv, MutexInv, NoLostPermit, TypeOK, Referrers

(* Handing over a permit is a Leave of the lock.                           *)
LEMMA HandOverIsLeave ==
    ASSUME PermitInv, NEW c \in Callers, pc[c] \in {"queued", "held"},
           owner[cell[c]] = c, HandOver(cell[c]),
           pc' = [pc EXCEPT ![c] = "drop"], table' = table
    PROVE  Lock!Leave(c, target[c])
<1> DEFINE p == target[c]
<1>1. p \in Paths /\ cell[c] \in Cells /\ table[p] = cell[c]
  BY DEF PermitInv, MutexInv, TypeOK, OneCellPerPath
<1>2. /\ turn[p] = owner[table[p]] /\ behind[p] = waiters[table[p]]
      /\ \A v : owner' = [owner EXCEPT ![table[p]] = v] =>
                   turn' = [turn EXCEPT ![p] = v]
      /\ \A q : waiters' = [waiters EXCEPT ![table[p]] = q] =>
                   behind' = [behind EXCEPT ![p] = q]
  BY <1>1, CellIsLock DEF PermitInv
<1>3. inside' = inside \ {c}
  BY DEF inside, PermitInv, MutexInv, TypeOK
<1>4. CASE waiters[cell[c]] = <<>>
  <2>1. owner' = [owner EXCEPT ![cell[c]] = NoCaller] /\ waiters' = waiters
    BY <1>4 DEF HandOver
  <2>2. turn' = [turn EXCEPT ![p] = NoCaller] /\ behind' = behind
    BY <1>1, <1>2, <2>1 DEF behind
  <2>3. QED
    BY <1>1, <1>2, <1>3, <1>4, <2>2 DEF Lock!Leave, inside
<1>5. CASE waiters[cell[c]] # <<>>
  <2>1. /\ owner' = [owner EXCEPT ![cell[c]] = Head(waiters[cell[c]])]
        /\ waiters' = [waiters EXCEPT ![cell[c]] = Tail(waiters[cell[c]])]
    BY <1>5 DEF HandOver
  <2>2. /\ turn' = [turn EXCEPT ![p] = Head(behind[p])]
        /\ behind' = [behind EXCEPT ![p] = Tail(behind[p])]
    BY <1>1, <1>2, <2>1
  <2>3. QED
    BY <1>1, <1>2, <1>3, <1>5, <2>2 DEF Lock!Leave, inside
<1>6. QED
  BY <1>4, <1>5

(* Every step of the table is a step of the lock of one path, or none.     *)
LEMMA LockStep == PermitInv /\ [Next]_vars => [Lock!Next]_(Lock!vars)
<1> SUFFICES ASSUME PermitInv, [Next]_vars
             PROVE  [Lock!Next]_(Lock!vars)
  OBVIOUS
<1> USE DEF PermitInv
<1>0. ASSUME turn' = turn, behind' = behind, inside' = inside
      PROVE  UNCHANGED Lock!vars
  BY <1>0 DEF Lock!vars, inside
<1>1. ASSUME NEW c \in Callers, NEW p \in Paths, Lookup(c, p)
      PROVE  UNCHANGED Lock!vars
  <2>1. turn' = turn /\ behind' = behind
    BY <1>1 DEF Lookup, turn, behind
  <2>2. inside' = inside
    BY <1>1 DEF Lookup, inside, MutexInv, TypeOK
  <2>3. QED
    BY <1>0, <2>1, <2>2
<1>2. ASSUME NEW c \in Callers, CreateCell(c)
      PROVE  UNCHANGED Lock!vars
  <2>1. inside' = inside
    BY <1>2 DEF CreateCell, inside, MutexInv, TypeOK
  <2>2. CASE table[target[c]] # NoCell
    <3>1. turn' = turn /\ behind' = behind
      BY <1>2, <2>2 DEF CreateCell, turn, behind
    <3>2. QED
      BY <1>0, <2>1, <3>1
  <2>3. CASE table[target[c]] = NoCell
    <3>1. PICK k \in Unused : table' = [table EXCEPT ![target[c]] = k]
      BY <1>2, <2>3 DEF CreateCell
    <3>2. k \in Cells /\ k # NoCell /\ owner[k] = NoCaller /\ waiters[k] = <<>>
      BY UnreferredIsFree, NoCellAssumption DEF Unused
    <3>3. owner' = owner /\ waiters' = waiters
      BY <1>2 DEF CreateCell
    <3>4. \A q \in Paths : table'[q] = IF q = target[c] THEN k ELSE table[q]
      BY <3>1 DEF MutexInv, TypeOK
    <3>5. turn' = turn
      BY <2>3, <3>2, <3>3, <3>4 DEF turn
    <3>6. behind' = behind
      BY <2>3, <3>2, <3>3, <3>4 DEF behind
    <3>7. QED
      BY <1>0, <2>1, <3>5, <3>6
  <2>4. QED
    BY <2>2, <2>3
<1>3. ASSUME NEW c \in Callers, AbortCreate(c) \/ DropArc(c)
      PROVE  UNCHANGED Lock!vars
  <2>1. turn' = turn /\ behind' = behind
    BY <1>3 DEF AbortCreate, DropArc, turn, behind
  <2>2. inside' = inside
    BY <1>3 DEF AbortCreate, DropArc, inside, MutexInv, TypeOK
  <2>3. QED
    BY <1>0, <2>1, <2>2
<1>4. ASSUME NEW c \in Callers, LockOwned(c)
      PROVE  Lock!Ask(c, target[c])
  <2> DEFINE p == target[c]
  <2>1. /\ pc[c] = "lock" /\ p \in Paths /\ cell[c] \in Cells /\ table[p] = cell[c]
        /\ table' = table
    BY <1>4 DEF LockOwned, MutexInv, TypeOK, OneCellPerPath
  <2>2. /\ turn[p] = owner[table[p]] /\ behind[p] = waiters[table[p]]
        /\ \A v : owner' = [owner EXCEPT ![table[p]] = v] =>
                     turn' = [turn EXCEPT ![p] = v]
        /\ \A q : waiters' = [waiters EXCEPT ![table[p]] = q] =>
                     behind' = [behind EXCEPT ![p] = q]
    BY <2>1, CellIsLock
  <2>3. \A k \in Cells : /\ owner[k] # c
                         /\ \A i \in DOMAIN waiters[k] : waiters[k][i] # c
    BY <2>1, NoCallerAssumption DEF NoLostPermit, WaitersWait
  <2>4. Lock!Out(c)
    <3>1. ASSUME NEW q \in Paths
          PROVE  turn[q] # c /\ \A i \in DOMAIN behind[q] : behind[q][i] # c
      <4>1. CASE table[q] = NoCell
        <5>1. turn[q] = NoCaller /\ behind[q] = <<>>
          BY <4>1 DEF turn, behind
        <5>2. QED
          BY <5>1, NoCallerAssumption
      <4>2. CASE table[q] # NoCell
        <5>1. table[q] \in Cells /\ turn[q] = owner[table[q]] /\ behind[q] = waiters[table[q]]
          BY <4>2 DEF turn, behind, MutexInv, TypeOK
        <5>2. QED
          BY <2>3, <5>1
      <4>3. QED
        BY <4>1, <4>2
    <3>2. QED
      BY <3>1 DEF Lock!Out
  <2>5. CASE owner[cell[c]] = NoCaller
    <3>1. owner' = [owner EXCEPT ![cell[c]] = c] /\ waiters' = waiters
      BY <1>4, <2>5 DEF LockOwned
    <3>2. inside' = inside \cup {c}
      BY <1>4, <2>5 DEF LockOwned, inside, MutexInv, TypeOK
    <3>3. turn' = [turn EXCEPT ![p] = c] /\ behind' = behind
      BY <2>1, <2>2, <3>1 DEF behind
    <3>4. QED
      BY <2>1, <2>2, <2>4, <2>5, <3>2, <3>3 DEF Lock!Ask, inside
  <2>6. CASE owner[cell[c]] # NoCaller
    <3>1. owner' = owner /\ waiters' = [waiters EXCEPT ![cell[c]] = Append(waiters[cell[c]], c)]
      BY <1>4, <2>6 DEF LockOwned
    <3>2. inside' = inside
      BY <1>4, <2>6 DEF LockOwned, inside, MutexInv, TypeOK
    <3>3. turn' = turn /\ behind' = [behind EXCEPT ![p] = Append(behind[p], c)]
      BY <2>1, <2>2, <3>1 DEF turn
    <3>4. QED
      BY <2>1, <2>2, <2>4, <2>6, <3>2, <3>3 DEF Lock!Ask, inside
  <2>7. QED
    BY <2>5, <2>6
<1>5. ASSUME NEW c \in Callers, Granted(c)
      PROVE  Lock!Enter(c, target[c])
  <2>1. /\ target[c] \in Paths /\ cell[c] \in Cells /\ table[target[c]] = cell[c]
        /\ pc[c] = "queued" /\ owner[cell[c]] = c
    BY <1>5 DEF Granted, MutexInv, TypeOK, OneCellPerPath
  <2>2. turn[target[c]] = c
    BY <2>1, NoCellAssumption DEF turn
  <2>3. turn' = turn /\ behind' = behind
    BY <1>5 DEF Granted, turn, behind
  <2>4. c \notin inside /\ inside' = inside \cup {c}
    BY <1>5 DEF Granted, inside, MutexInv, TypeOK
  <2>5. QED
    BY <2>2, <2>3, <2>4 DEF Lock!Enter, inside
<1>6. ASSUME NEW c \in Callers, Timeout(c)
      PROVE  Lock!Leave(c, target[c]) \/ Lock!GiveUp(c, target[c])
  <2> DEFINE p == target[c]
  <2>1. /\ pc[c] = "queued" /\ p \in Paths /\ cell[c] \in Cells /\ table[p] = cell[c]
        /\ table' = table /\ pc' = [pc EXCEPT ![c] = "drop"]
    BY <1>6 DEF Timeout, MutexInv, TypeOK, OneCellPerPath
  <2>2. CASE owner[cell[c]] = c /\ HandOver(cell[c])
    BY <2>1, <2>2, HandOverIsLeave
  <2>3. CASE LeaveQueue(c, cell[c])
    <3>1. PICK i \in DOMAIN waiters[cell[c]] :
             /\ waiters[cell[c]][i] = c
             /\ waiters' = [waiters EXCEPT ![cell[c]] =
                  [j \in 1 .. Len(waiters[cell[c]]) - 1 |->
                     IF j < i THEN waiters[cell[c]][j] ELSE waiters[cell[c]][j + 1]]]
      BY <2>3 DEF LeaveQueue
    <3>2. /\ behind[p] = waiters[table[p]]
          /\ \A q : waiters' = [waiters EXCEPT ![table[p]] = q] =>
                       behind' = [behind EXCEPT ![p] = q]
      BY <2>1, CellIsLock
    <3>3. /\ i \in DOMAIN behind[p] /\ behind[p][i] = c
          /\ behind' = [behind EXCEPT ![p] =
                [j \in 1 .. Len(behind[p]) - 1 |->
                   IF j < i THEN behind[p][j] ELSE behind[p][j + 1]]]
      BY <2>1, <3>1, <3>2
    <3>4. turn' = turn
      BY <2>1, <2>3 DEF LeaveQueue, turn
    <3>5. inside' = inside
      BY <2>1 DEF inside, MutexInv, TypeOK
    <3>6. QED
      BY <3>3, <3>4, <3>5 DEF Lock!GiveUp, inside
  <2>4. QED
    BY <1>6, <2>2, <2>3 DEF Timeout
<1>7. ASSUME NEW c \in Callers, Unlock(c)
      PROVE  Lock!Leave(c, target[c])
  BY <1>7, HandOverIsLeave DEF Unlock, MutexInv, HolderOwnsPermit
<1>8. CASE ReleaseAll
  <2>1. inside' = inside /\ owner' = owner /\ waiters' = waiters
    BY <1>8 DEF ReleaseAll, inside
  <2>2. \A q \in Paths :
           \/ table'[q] = table[q]
           \/ /\ table'[q] = NoCell /\ table[q] \in Cells
              /\ owner[table[q]] = NoCaller /\ waiters[table[q]] = <<>>
    <3>1. ASSUME NEW q \in Paths, table'[q] # table[q]
          PROVE  /\ table'[q] = NoCell /\ table[q] \in Cells
                 /\ owner[table[q]] = NoCaller /\ waiters[table[q]] = <<>>
      <4>1. table'[q] = NoCell /\ Referrers(table[q]) = {} /\ table[q] \in Cells
        BY <1>8, <3>1 DEF ReleaseAll, MutexInv, TypeOK
      <4>2. QED
        BY <4>1, UnreferredIsFree
    <3>2. QED
      BY <3>1
  <2>3. turn' = turn
    BY <2>1, <2>2, NoCellAssumption DEF turn
  <2>4. behind' = behind
    BY <2>1, <2>2, NoCellAssumption DEF behind
  <2>5. QED
    BY <1>0, <2>1, <2>3, <2>4
<1>9. CASE UNCHANGED vars
  BY <1>0, <1>9 DEF vars, turn, behind, inside
<1>10. \A c \in Callers : target[c] \in Paths
  BY DEF MutexInv, TypeOK
<1>11. ASSUME NEW c \in Callers,
              LockOwned(c) \/ Granted(c) \/ Timeout(c) \/ Unlock(c)
       PROVE  Lock!Next
  <2>1. \/ Lock!Ask(c, target[c]) \/ Lock!Enter(c, target[c])
        \/ Lock!Leave(c, target[c]) \/ Lock!GiveUp(c, target[c])
    BY <1>4, <1>5, <1>6, <1>7, <1>11
  <2>2. target[c] \in Paths
    BY <1>10
  <2>3. QED
    BY <2>1, <2>2 DEF Lock!Next, Lock!Ask, Lock!Enter, Lock!Leave, Lock!GiveUp
<1>12. Lock!Next \/ UNCHANGED Lock!vars
  BY <1>1, <1>2, <1>3, <1>8, <1>9, <1>11 DEF Next
<1>13. QED
  BY <1>12

(* The table of cells - with creators that race, sweeps that free cells    *)
(* and timeouts that race hand-overs - implements one first-come first-    *)
(* served lock per path.                                                   *)
THEOREM TableImplementsLock == Spec => ImplementsPathLock
<1>1. Init => Lock!Init
  BY DEF Init, Lock!Init, turn, behind
<1>2. QED
  BY <1>1, LockStep, PermitInvHolds, PTL DEF Spec, ImplementsPathLock, Lock!Spec

-----------------------------------------------------------------------------
(* The tools.                                                              *)

(* What the tools keep between steps; a call has its result when it ends.  *)
Shapes == /\ file \in [Paths -> Text]
          /\ tool \in [Callers -> AllTools]
          /\ DOMAIN stage = Callers /\ DOMAIN result = Callers
          /\ DOMAIN text = Callers /\ DOMAIN fresh = Callers
          /\ expected \in [Paths -> SUBSET Callers]
          /\ \A c \in Callers : stage[c] # "done" => result[c] = "none"

(* A call that has read, or checked, what it is going to change.           *)
PatchPending(c) == tool[c] = "patch" /\ stage[c] \in {"patched", "checked"}
EditPending(c) == tool[c] = "edit" /\ stage[c] = "checked"
Pending(c) == PatchPending(c) \/ EditPending(c)

(* Of the reported changes, a text to be saved by c has those under c's    *)
(* lock that are in the file, and none under the other lock that is not.   *)
Agrees(c, content) ==
    \A d \in expected[target[c]] :
        IF SameLock(c, d) THEN d \in file[target[c]] => d \in content
                          ELSE d \in content => d \in file[target[c]]

(* A pending call has the lock of its kind, and its text agrees.           *)
Guarded ==
    \A c \in Callers :
        /\ PatchPending(c) => pc[c] = "held"
        /\ tool[c] = "edit" /\ stage[c] \in {"guarded", "checked"} => store = c
        /\ Pending(c) => text[c] \in Text /\ Agrees(c, text[c])

(* The inductive invariant behind LostOnlyAcrossLocks; that holders of one *)
(* path are one caller comes from the lock table.                          *)
ToolsInv == Shapes /\ Guarded

(* What LostOnlyAcrossLocks says of one step.                              *)
LossExplained ==
    \A p \in Paths : \A d \in expected[p] \cap expected'[p] :
        d \in file[p] \ file'[p]
            => \E c \in Callers : result'[c] # result[c] /\ ~SameLock(c, d)

-----------------------------------------------------------------------------
(* A call is made for one path.                                            *)
Targets == target \in [Callers -> Paths]

(* A step of the tools is a step of the lock table, or leaves it alone.    *)
LEMMA ToolsUseTheTable ==
    ASSUME Targets, [FNext]_<<vars, tvars>>
    PROVE  [Next]_vars /\ target' = target
<1>1. ASSUME NEW c \in Callers,
             Begin(c) \/ Create(c) \/ TryLock(c) \/ Enter(c) \/ GiveUp(c) \/ Leave(c) \/ Forget(c)
      PROVE  Next /\ target' = target
  <2>1. target[c] \in Paths
        BY DEF Targets
  <2>2. Next
        BY <1>1, <2>1 DEF Begin, Create, TryLock, Enter, GiveUp, Leave, Forget, Next
  <2>3. target' = target
        BY <1>1 DEF Begin, Create, TryLock, Enter, GiveUp, Leave, Forget, Lookup, CreateCell,
                    LockOwned, Granted, AbortCreate, Timeout, Unlock, DropArc, Targets
  <2> QED BY <2>2, <2>3
<1>2. ASSUME NEW c \in Callers,
             \/ WriteFile(c) \/ PatchRead(c) \/ PatchRecheck(c) \/ PatchWrite(c)
             \/ ReadNumbered(c) \/ RecordSnapshot(c)
             \/ EditGuard(c) \/ EditCompare(c) \/ EditWrite(c)
      PROVE  UNCHANGED vars
      BY <1>2 DEF WriteFile, PatchRead, PatchRecheck, PatchWrite, ReadNumbered,
                  RecordSnapshot, EditGuard, EditCompare, EditWrite
<1>3. CASE Shutdown
      BY <1>3 DEF Shutdown, ReleaseAll, Next
<1>4. ASSUME NEW p \in Paths, ExternalSave(p) PROVE UNCHANGED vars
      BY <1>4 DEF ExternalSave
<1> QED BY <1>1, <1>2, <1>3, <1>4 DEF FNext, vars

(* The tools, the reads and the editor around the table only ever use it   *)
(* as PathLockTable lets its callers, so its theorems hold under them.     *)
THEOREM ToolsKeepTheProtocol == FSpec => Spec
<1>1. FInit => Init /\ Targets
      BY DEF FInit, Init, Targets
<1>2. Targets /\ [FNext]_<<vars, tvars>> => Targets' /\ [Next]_vars
      BY ToolsUseTheTable DEF Targets
<1> QED BY <1>1, <1>2, PTL DEF FSpec, Spec

-----------------------------------------------------------------------------
(* The steps of the lock, and a tool error on a lock that never came, keep *)
(* files and reports as they are; no pending call is in one of them.       *)
LEMMA LockSteps ==
    ASSUME TypeOK, ToolsInv, target \in [Callers -> Paths], target' = target, NEW c \in Callers,
           Begin(c) \/ Create(c) \/ TryLock(c) \/ Enter(c) \/ GiveUp(c) \/ Leave(c) \/ Forget(c)
    PROVE  ToolsInv' /\ file' = file
<1>1. UNCHANGED <<file, tool, text, fresh, store, expected>>
      BY DEF Begin, Create, TryLock, Enter, GiveUp, Leave, Forget, tvars, evars
<1>2. \A d \in Callers \ {c} : stage'[d] = stage[d] /\ result'[d] = result[d]
      BY DEF Begin, Create, TryLock, Enter, GiveUp, Leave, Forget, tvars, Goto, Done, ToolsInv, Shapes
<1>3. \/ stage'[c] = stage[c] /\ result'[c] = result[c]
      \/ stage[c] = "new" /\ stage'[c] = "run" /\ result'[c] = result[c]
      \/ stage'[c] = "done"
      BY DEF Begin, Create, TryLock, Enter, GiveUp, Leave, Forget, tvars, Goto, Done, At,
             ToolsInv, Shapes
<1>4. DOMAIN stage' = Callers /\ DOMAIN result' = Callers
      BY DEF Begin, Create, TryLock, Enter, GiveUp, Leave, Forget, tvars, Goto, Done, ToolsInv, Shapes
<1>5. ASSUME NEW d \in Callers, pc[d] = "held", stage[d] # "done" PROVE pc'[d] = "held"
      BY <1>5 DEF Begin, Create, TryLock, Enter, GiveUp, Leave, Forget, Lookup, CreateCell,
                  LockOwned, Granted, AbortCreate, Timeout, Unlock, DropArc, TypeOK
<1>6. Shapes'
      BY <1>1, <1>2, <1>3, <1>4 DEF ToolsInv, Shapes
<1>7. \A d \in Callers : Pending(d)' => Agrees(d, text[d])' = Agrees(d, text[d])
      BY <1>1 DEF Agrees, SameLock
<1>8. Guarded'
      BY <1>1, <1>2, <1>3, <1>5, <1>7 DEF ToolsInv, Guarded, Pending, PatchPending, EditPending
<1> QED BY <1>1, <1>6, <1>8 DEF ToolsInv

(* A save by call c of a text that agrees leaves the other pending calls   *)
(* in agreement: those on c's path are under the other lock.               *)
LEMMA SaveStep ==
    ASSUME ToolsInv, UNCHANGED <<vars, tool, text, fresh>>, target \in [Callers -> Paths],
           NEW c \in Callers, NEW content, NEW keeps, Save(c, target[c], content, keeps),
           content \in Text, c \in content, keeps \subseteq expected[target[c]],
           \A d \in keeps : IF SameLock(c, d) THEN d \in file[target[c]] => d \in content
                                             ELSE d \in content => d \in file[target[c]],
           stage[c] # "done", store' = store \/ store = c,
           \A d \in Callers \ {c} : Pending(d) /\ target[d] = target[c] => ~SameLock(c, d)
    PROVE  ToolsInv' /\ LossExplained
<1> DEFINE p == target[c]
<1>1. target' = target /\ pc' = pc
      BY DEF vars
<1>2. /\ file' = [file EXCEPT ![p] = content]
      /\ expected' = [expected EXCEPT ![p] = keeps \cup {c}]
      /\ stage' = [stage EXCEPT ![c] = "done"]
      /\ result' = [result EXCEPT ![c] = "ok"]
      BY DEF Save, Done
<1>3. Shapes'
      BY <1>2 DEF ToolsInv, Shapes
<1>4. \A d \in Callers : stage'[d] = IF d = c THEN "done" ELSE stage[d]
      BY <1>2 DEF ToolsInv, Shapes
<1>5. /\ file'[p] = content /\ expected'[p] = keeps \cup {c}
      /\ \A q \in Paths \ {p} : file'[q] = file[q] /\ expected'[q] = expected[q]
      BY <1>2 DEF ToolsInv, Shapes
<1>6. ASSUME NEW d \in Callers, Pending(d)'
      PROVE  text[d] \in Text /\ Agrees(d, text[d])'
  <2>1. d # c /\ Pending(d)
        BY <1>4, <1>6 DEF Pending, PatchPending, EditPending
  <2>2. text[d] \in Text /\ Agrees(d, text[d])
        BY <2>1 DEF ToolsInv, Guarded
  <2>3. CASE target[d] # p
        BY <1>1, <1>5, <2>2, <2>3 DEF Agrees, SameLock
  <2>4. CASE target[d] = p
    <3>1. ~SameLock(c, d)
          BY <2>1, <2>4
    <3>2. ASSUME NEW x \in keeps \cup {c}
          PROVE  IF SameLock(d, x) THEN x \in content => x \in text[d]
                                   ELSE x \in text[d] => x \in content
      <4>1. CASE x = c
            BY <3>1, <4>1 DEF SameLock
      <4>2. CASE x \in keeps
        <5>1. /\ IF SameLock(d, x) THEN x \in file[p] => x \in text[d]
                                   ELSE x \in text[d] => x \in file[p]
              /\ IF SameLock(c, x) THEN x \in file[p] => x \in content
                                   ELSE x \in content => x \in file[p]
              BY <2>2, <2>4, <4>2 DEF Agrees
        <5>2. SameLock(d, x) <=> ~SameLock(c, x)
              BY <3>1 DEF SameLock
        <5> QED BY <5>1, <5>2
      <4> QED BY <4>1, <4>2
    <3>3. \A x : SameLock(d, x)' = SameLock(d, x)
          BY DEF SameLock
    <3> QED BY <1>1, <1>5, <2>2, <2>4, <3>2, <3>3 DEF Agrees
  <2> QED BY <2>3, <2>4
<1>7. ASSUME NEW d \in Callers, tool[d] = "edit", stage'[d] \in {"guarded", "checked"}
      PROVE  store' = d
      BY <1>4, <1>7 DEF ToolsInv, Guarded
<1>8. Guarded'
      BY <1>1, <1>4, <1>6, <1>7 DEF ToolsInv, Guarded, Pending, PatchPending, EditPending
<1>9. LossExplained
  <2> SUFFICES ASSUME NEW q \in Paths, NEW d \in expected[q] \cap expected'[q],
                      d \in file[q] \ file'[q]
               PROVE  \E e \in Callers : result'[e] # result[e] /\ ~SameLock(e, d)
      BY DEF LossExplained
  <2>1. q = p
        BY <1>5
  <2>2. d \in keeps /\ ~SameLock(c, d)
        BY <1>5, <2>1
  <2>3. result'[c] # result[c]
        BY <1>2 DEF ToolsInv, Shapes
  <2> QED BY <2>2, <2>3
<1> QED BY <1>3, <1>8, <1>9 DEF ToolsInv

(* A step that changes no file keeps what holds of the files, provided a   *)
(* call that becomes pending has its lock and a text that agrees.          *)
LEMMA QuietStep ==
    ASSUME ToolsInv, UNCHANGED <<vars, file, tool, expected>>, NEW c \in Callers,
           DOMAIN stage' = Callers, DOMAIN result' = Callers,
           DOMAIN text' = Callers, DOMAIN fresh' = Callers,
           \A d \in Callers \ {c} : stage'[d] = stage[d] /\ result'[d] = result[d] /\ text'[d] = text[d],
           stage'[c] = "done" \/ result'[c] = "none",
           store' = store \/ store \in {c, NoCaller},
           PatchPending(c)' => pc[c] = "held",
           tool[c] = "edit" /\ stage'[c] \in {"guarded", "checked"} => store' = c,
           Pending(c)' => text'[c] \in Text /\ Agrees(c, text'[c])
    PROVE  ToolsInv' /\ LossExplained
<1>1. target' = target /\ pc' = pc
      BY DEF vars
<1>2. Shapes' /\ LossExplained
      BY DEF ToolsInv, Shapes, LossExplained
<1>3. \A d \in Callers : Agrees(d, text[d])' <=> Agrees(d, text'[d])
      BY <1>1 DEF Agrees, SameLock
<1>4. ASSUME NEW d \in Callers, d # c
      PROVE  /\ PatchPending(d)' => pc[d] = "held"
             /\ tool[d] = "edit" /\ stage'[d] \in {"guarded", "checked"} => store' = d
             /\ Pending(d)' => text'[d] \in Text /\ Agrees(d, text'[d])
      BY <1>4, NoCallerAssumption DEF ToolsInv, Guarded, Pending, PatchPending, EditPending
<1>5. Guarded'
      BY <1>1, <1>3, <1>4 DEF Guarded, PatchPending
<1> QED BY <1>2, <1>5 DEF ToolsInv

(* A step that only adds to a file something no call under the lock of a   *)
(* pending call has reported.                                              *)
LEMMA GrowStep ==
    ASSUME ToolsInv, target \in [Callers -> Paths], NEW p \in Paths, NEW new \in Callers \cup {Editor},
           UNCHANGED <<vars, tool, text, fresh, store, expected>>,
           file' = [file EXCEPT ![p] = @ \cup {new}], Shapes',
           \A d \in Callers : stage'[d] = stage[d] \/ stage'[d] = "done",
           \A d \in Callers : Pending(d) /\ Pending(d)' /\ target[d] = p /\ new \in expected[p]
                                   => ~SameLock(d, new)
    PROVE  ToolsInv' /\ LossExplained
<1>1. target' = target /\ pc' = pc
      BY DEF vars
<1>2. \A q \in Paths : file[q] \subseteq file'[q] /\ (file'[q] = file[q] \/ q = p)
      BY DEF ToolsInv, Shapes
<1>3. LossExplained
      BY <1>2 DEF LossExplained
<1>4. file'[p] = file[p] \cup {new}
      BY DEF ToolsInv, Shapes
<1>5. ASSUME NEW d \in Callers, Pending(d)' PROVE text[d] \in Text /\ Agrees(d, text[d])'
  <2>1. Pending(d)
        BY <1>5 DEF Pending, PatchPending, EditPending
  <2>2. text[d] \in Text /\ Agrees(d, text[d])
        BY <2>1 DEF ToolsInv, Guarded
  <2>3. \A x : SameLock(d, x)' = SameLock(d, x)
        BY DEF SameLock
  <2>4. CASE target[d] # p
        BY <1>1, <1>2, <2>2, <2>3, <2>4 DEF Agrees
  <2>5. CASE target[d] = p
    <3>1. ASSUME NEW x \in expected[p]
          PROVE  IF SameLock(d, x) THEN x \in file'[p] => x \in text[d]
                                   ELSE x \in text[d] => x \in file'[p]
      <4>1. IF SameLock(d, x) THEN x \in file[p] => x \in text[d]
                              ELSE x \in text[d] => x \in file[p]
            BY <2>2, <2>5 DEF Agrees
      <4>2. x = new => ~SameLock(d, x)
            BY <1>5, <2>1, <2>5
      <4> QED BY <1>4, <4>1, <4>2
    <3> QED BY <1>1, <2>2, <2>3, <2>5, <3>1 DEF Agrees
  <2> QED BY <2>4, <2>5
<1>6. Guarded'
      BY <1>1, <1>5 DEF ToolsInv, Guarded, Pending, PatchPending, EditPending
<1> QED BY <1>3, <1>6 DEF ToolsInv

(* Whatever the tools and the editor do, a reported change goes only in a  *)
(* step of a call under the other lock.                                    *)
LEMMA ToolsStep ==
    ASSUME TypeOK, MutualExclusion, ToolsInv, [FNext]_<<vars, tvars>>, target' = target
    PROVE  ToolsInv' /\ LossExplained
<1>a. target \in [Callers -> Paths]
      BY DEF TypeOK
<1>b. \A d \in Callers : file[target[d]] \in Text /\ Agrees(d, file[target[d]])
      BY <1>a DEF ToolsInv, Shapes, Agrees
<1>1. ASSUME NEW c \in Callers,
             Begin(c) \/ Create(c) \/ TryLock(c) \/ Enter(c) \/ GiveUp(c) \/ Leave(c) \/ Forget(c)
      PROVE  ToolsInv' /\ LossExplained
      BY <1>1, <1>a, LockSteps DEF LossExplained
<1>2. ASSUME NEW c \in Callers, pc[c] = "held", tool[c] \in Locking, NEW d \in Callers \ {c},
             Pending(d), target[d] = target[c]
      PROVE  ~SameLock(c, d)
  <2>1. ~PatchPending(d)
        BY <1>2 DEF ToolsInv, Guarded, MutualExclusion
  <2> QED BY <1>2, <2>1 DEF Pending, EditPending, SameLock, Locking
<1>3. ASSUME NEW c \in Callers, WriteFile(c) PROVE ToolsInv' /\ LossExplained
  <2> DEFINE p == target[c]
  <2>1. /\ pc[c] = "held" /\ tool[c] \in Locking /\ stage[c] = "run" /\ p \in Paths
        /\ UNCHANGED <<vars, tool, text, fresh, store>>
        BY <1>3, <1>a DEF WriteFile, At, Locking, evars
  <2>2. CASE Save(c, p, file[p] \cup {c}, expected[p])
    <3>1. file[p] \cup {c} \in Text
          BY <1>b DEF Text
    <3>2. \A d \in expected[p] : IF SameLock(c, d) THEN d \in file[p] => d \in file[p] \cup {c}
                                      ELSE d \in file[p] \cup {c} => d \in file[p]
          BY DEF SameLock
    <3> QED BY <1>2, <1>a, <2>1, <2>2, <3>1, <3>2, SaveStep
  <2>3. CASE Save(c, p, {c}, {})
    <3>1. {c} \in Text
          BY DEF Text
    <3> QED BY <1>2, <1>a, <2>1, <2>3, <3>1, SaveStep
  <2>4. CASE Done(c, "error") /\ UNCHANGED <<file, expected>>
    <3>1. /\ \A d \in Callers : stage'[d] = IF d = c THEN "done" ELSE stage[d]
          /\ \A d \in Callers \ {c} : result'[d] = result[d]
          /\ DOMAIN stage' = Callers /\ DOMAIN result' = Callers
          BY <2>4 DEF Done, ToolsInv, Shapes
    <3> QED BY <2>1, <2>4, <3>1, QuietStep
            DEF ToolsInv, Shapes, Pending, PatchPending, EditPending
  <2>5. CASE /\ tool[c] = "append" /\ Done(c, "error")
             /\ file' = [file EXCEPT ![p] = @ \cup {c}] /\ UNCHANGED expected
    <3>1. \A d \in Callers : stage'[d] = IF d = c THEN "done" ELSE stage[d]
          BY <2>5 DEF Done, ToolsInv, Shapes
    <3>2. Shapes'
          BY <2>1, <2>5 DEF Done, ToolsInv, Shapes, Text
    <3>3. \A d \in Callers : Pending(d) /\ Pending(d)' /\ target[d] = p => ~SameLock(d, c)
          BY <1>2, <2>1, <3>1 DEF Pending, PatchPending, EditPending, SameLock
    <3> QED BY <1>a, <2>1, <2>5, <3>1, <3>2, <3>3, GrowStep
  <2> QED BY <1>3, <2>2, <2>3, <2>4, <2>5 DEF WriteFile
<1>4. ASSUME NEW c \in Callers, PatchRead(c) PROVE ToolsInv' /\ LossExplained
  <2>1. /\ pc[c] = "held" /\ tool[c] \in Locking /\ stage[c] = "run"
        /\ UNCHANGED <<vars, file, tool, fresh, store, expected>>
        /\ text' = [text EXCEPT ![c] = file[target[c]]]
        BY <1>4 DEF PatchRead, At, Locking, evars
  <2>2. /\ DOMAIN stage' = Callers /\ DOMAIN result' = Callers
        /\ DOMAIN text' = Callers /\ text'[c] = file[target[c]]
        /\ \A d \in Callers \ {c} : stage'[d] = stage[d] /\ result'[d] = result[d] /\ text'[d] = text[d]
        /\ stage'[c] = "done" \/ result'[c] = "none"
        BY <1>4, <2>1 DEF PatchRead, Goto, Done, ToolsInv, Shapes
  <2> QED BY <1>b, <2>1, <2>2, QuietStep DEF Locking, ToolsInv, Shapes
<1>5. ASSUME NEW c \in Callers, PatchRecheck(c) PROVE ToolsInv' /\ LossExplained
  <2>1. /\ PatchPending(c) /\ stage[c] # "done"
        /\ UNCHANGED <<vars, file, tool, text, store, expected>>
        BY <1>5 DEF PatchRecheck, At, PatchPending, evars
  <2>2. /\ DOMAIN stage' = Callers /\ DOMAIN result' = Callers /\ DOMAIN fresh' = Callers
        /\ \A d \in Callers \ {c} : stage'[d] = stage[d] /\ result'[d] = result[d]
        /\ stage'[c] = "done" \/ result'[c] = "none"
        BY <1>5, <2>1 DEF PatchRecheck, Goto, Done, ToolsInv, Shapes
  <2>3. /\ pc[c] = "held" /\ tool[c] = "patch"
        /\ text[c] \in Text /\ Agrees(c, text[c])
        BY <2>1 DEF ToolsInv, Guarded, Pending, PatchPending
  <2> QED BY <2>1, <2>2, <2>3, QuietStep DEF ToolsInv, Shapes
<1>6. ASSUME NEW c \in Callers, PatchWrite(c) PROVE ToolsInv' /\ LossExplained
  <2> DEFINE p == target[c]
  <2>1. PatchPending(c) /\ stage[c] # "done" /\ UNCHANGED <<vars, tool, text, fresh, store>>
        BY <1>6 DEF PatchWrite, At, PatchPending, evars
  <2>2. /\ pc[c] = "held" /\ tool[c] \in Locking /\ tool[c] # "edit"
        /\ text[c] \in Text /\ Agrees(c, text[c])
        BY <2>1 DEF ToolsInv, Guarded, Pending, PatchPending, Locking
  <2>3. CASE Save(c, p, text[c] \cup {c}, expected[p])
    <3>1. text[c] \cup {c} \in Text
          BY <2>2 DEF Text
    <3>2. \A d \in expected[p] : IF SameLock(c, d) THEN d \in file[p] => d \in text[c] \cup {c}
                                      ELSE d \in text[c] \cup {c} => d \in file[p]
          BY <2>2 DEF SameLock, Agrees
    <3> QED BY <1>2, <1>a, <2>1, <2>2, <2>3, <3>1, <3>2, SaveStep
  <2>4. CASE Done(c, "error") /\ UNCHANGED <<file, expected>>
    <3>1. /\ \A d \in Callers : stage'[d] = IF d = c THEN "done" ELSE stage[d]
          /\ \A d \in Callers \ {c} : result'[d] = result[d]
          /\ DOMAIN stage' = Callers /\ DOMAIN result' = Callers
          BY <2>4 DEF Done, ToolsInv, Shapes
    <3> QED BY <2>1, <2>4, <3>1, QuietStep
            DEF ToolsInv, Shapes, Pending, PatchPending, EditPending
  <2> QED BY <1>6, <2>3, <2>4 DEF PatchWrite
<1>7. ASSUME NEW c \in Callers, ReadNumbered(c) PROVE ToolsInv' /\ LossExplained
  <2>1. /\ UNCHANGED <<vars, file, tool, fresh, store, expected>>
        /\ tool[c] = "read_numbered" /\ stage[c] = "new"
        BY <1>7 DEF ReadNumbered, At, evars
  <2>2. /\ DOMAIN stage' = Callers /\ DOMAIN result' = Callers /\ DOMAIN text' = Callers
        /\ \A d \in Callers \ {c} : stage'[d] = stage[d] /\ result'[d] = result[d] /\ text'[d] = text[d]
        /\ stage'[c] = "done" \/ result'[c] = "none"
        BY <1>7, <2>1 DEF ReadNumbered, Goto, Done, ToolsInv, Shapes
  <2> QED BY <2>1, <2>2, QuietStep DEF ToolsInv, Shapes, Pending, PatchPending, EditPending
<1>8. ASSUME NEW c \in Callers, RecordSnapshot(c) PROVE ToolsInv' /\ LossExplained
  <2>1. UNCHANGED <<vars, file, tool, text, fresh, store, expected>> /\ tool[c] = "read_numbered"
        BY <1>8 DEF RecordSnapshot, At
  <2>2. /\ DOMAIN stage' = Callers /\ DOMAIN result' = Callers /\ stage'[c] = "done"
        /\ \A d \in Callers \ {c} : stage'[d] = stage[d] /\ result'[d] = result[d]
        BY <1>8 DEF RecordSnapshot, Done, ToolsInv, Shapes
  <2> QED BY <2>1, <2>2, QuietStep DEF ToolsInv, Shapes, Pending, PatchPending, EditPending
<1>9. ASSUME NEW c \in Callers, EditGuard(c) PROVE ToolsInv' /\ LossExplained
  <2>1. /\ UNCHANGED <<vars, file, tool, fresh, expected>> /\ tool[c] = "edit"
        /\ store = NoCaller /\ stage[c] = "new"
        BY <1>9 DEF EditGuard, At
  <2>2. /\ DOMAIN stage' = Callers /\ DOMAIN result' = Callers /\ DOMAIN text' = Callers
        /\ \A d \in Callers \ {c} : stage'[d] = stage[d] /\ result'[d] = result[d] /\ text'[d] = text[d]
        /\ \/ stage'[c] = "done"
           \/ stage'[c] = "guarded" /\ store' = c /\ result'[c] = "none"
        BY <1>9, <2>1 DEF EditGuard, Goto, Done, ToolsInv, Shapes
  <2> QED BY <2>1, <2>2, QuietStep DEF ToolsInv, Shapes, Pending, PatchPending, EditPending
<1>10. ASSUME NEW c \in Callers, EditCompare(c) PROVE ToolsInv' /\ LossExplained
  <2>1. /\ UNCHANGED <<vars, file, tool, text, fresh, expected>> /\ tool[c] = "edit"
        /\ store = c /\ stage[c] = "guarded"
        BY <1>10 DEF EditCompare, At, ToolsInv, Guarded
  <2>2. /\ DOMAIN stage' = Callers /\ DOMAIN result' = Callers
        /\ \A d \in Callers \ {c} : stage'[d] = stage[d] /\ result'[d] = result[d]
        /\ \/ stage'[c] = "done"
           \/ /\ stage'[c] = "checked" /\ store' = store /\ result'[c] = "none"
              /\ file[target[c]] = text[c]
        BY <1>10, <2>1 DEF EditCompare, Goto, Done, ToolsInv, Shapes
  <2> QED BY <1>b, <2>1, <2>2, QuietStep DEF ToolsInv, Shapes, Pending, PatchPending, EditPending
<1>11. ASSUME NEW c \in Callers, EditWrite(c) PROVE ToolsInv' /\ LossExplained
  <2> DEFINE p == target[c]
  <2>1. /\ EditPending(c) /\ stage[c] # "done"
        /\ UNCHANGED <<vars, tool, text, fresh>> /\ store = c
        BY <1>11 DEF EditWrite, At, EditPending, ToolsInv, Guarded
  <2>2. text[c] \in Text /\ Agrees(c, text[c])
        BY <2>1 DEF ToolsInv, Guarded, Pending
  <2>3. CASE Save(c, p, text[c] \cup {c}, expected[p])
    <3>1. text[c] \cup {c} \in Text
          BY <2>2 DEF Text
    <3>2. \A d \in expected[p] : IF SameLock(c, d) THEN d \in file[p] => d \in text[c] \cup {c}
                                      ELSE d \in text[c] \cup {c} => d \in file[p]
          BY <2>2 DEF SameLock, Agrees
    <3>3. \A d \in Callers \ {c} : Pending(d) => ~SameLock(c, d)
          BY <2>1 DEF ToolsInv, Guarded, Pending, PatchPending, EditPending, SameLock
    <3>4. store' = store \/ store = c
          BY <2>1
    <3> QED BY <1>a, <2>1, <2>3, <3>1, <3>2, <3>3, <3>4, SaveStep
  <2>4. CASE Done(c, "error") /\ UNCHANGED <<file, expected>>
    <3>1. /\ \A d \in Callers : stage'[d] = IF d = c THEN "done" ELSE stage[d]
          /\ \A d \in Callers \ {c} : result'[d] = result[d]
          /\ DOMAIN stage' = Callers /\ DOMAIN result' = Callers
          BY <2>4 DEF Done, ToolsInv, Shapes
    <3> QED BY <2>1, <2>4, <3>1, QuietStep
            DEF ToolsInv, Shapes, Pending, PatchPending, EditPending
  <2> QED BY <1>11, <2>3, <2>4 DEF EditWrite
<1>12. CASE Shutdown
  <2>1. pc' = pc /\ UNCHANGED tvars
        BY <1>12 DEF Shutdown, ReleaseAll
  <2> QED BY <2>1 DEF tvars, evars, ToolsInv, Shapes, Guarded, Agrees, SameLock, LossExplained,
                      Pending, PatchPending, EditPending
<1>13. ASSUME NEW p \in Paths, ExternalSave(p) PROVE ToolsInv' /\ LossExplained
  <2>1. /\ file' = [file EXCEPT ![p] = @ \cup {Editor}]
        /\ UNCHANGED <<vars, tool, stage, result, text, fresh, store, expected>>
        BY <1>13 DEF ExternalSave, evars
  <2>2. Shapes' /\ Editor \notin expected[p]
        BY <2>1, EditorAssumption DEF ToolsInv, Shapes, Text
  <2> QED BY <1>a, <2>1, <2>2, GrowStep
<1>14. CASE UNCHANGED <<vars, tvars>>
      BY <1>14 DEF vars, tvars, evars, ToolsInv, Shapes, Guarded, Agrees, SameLock, LossExplained,
                   Pending, PatchPending, EditPending
<1> QED BY <1>1, <1>3, <1>4, <1>5, <1>6, <1>7, <1>8, <1>9, <1>10, <1>11, <1>12, <1>13, <1>14
        DEF FNext

(* A change that write_file, patch_file or edit reported stays in the file *)
(* until write_file replaces it, whatever the tools and an editor do in    *)
(* between and however their steps interleave - except for a call under    *)
(* the other lock, which cannot see the window it writes into.  Any mix of *)
(* tools, any number of calls and paths.                                   *)
THEOREM ReportedChangesStay == FSpec => LostOnlyAcrossLocks
<1>1. FInit => ToolsInv
      BY DEF FInit, ToolsInv, Shapes, Text, Guarded, Pending, PatchPending, EditPending
<1>2. TypeOK /\ MutualExclusion /\ ToolsInv /\ [FNext]_<<vars, tvars>> => ToolsInv' /\ LossExplained
  <2>1. TypeOK => Targets
        BY DEF TypeOK, Targets
  <2> QED BY <2>1, ToolsUseTheTable, ToolsStep
<1>3. LossExplained => [\A p \in Paths : \A d \in expected[p] \cap expected'[p] :
          d \in file[p] \ file'[p]
              => \E c \in Callers : result'[c] # result[c] /\ ~SameLock(c, d)]_<<vars, tvars>>
      BY DEF LossExplained
<1> QED BY <1>1, <1>2, <1>3, ToolsKeepTheProtocol, TypeCorrect, PathMutualExclusion, PTL
        DEF FSpec, LostOnlyAcrossLocks

-----------------------------------------------------------------------------
(* A checked patch is of the text it found again under the lock; this      *)
(* needs no lock, and holds with every mix of tools.                       *)
FoundAgain ==
    /\ DOMAIN file = Paths /\ Targets
    /\ DOMAIN stage = Callers /\ DOMAIN result = Callers
    /\ DOMAIN text = Callers /\ DOMAIN fresh = Callers
    /\ \A c \in Callers : tool[c] = "patch" /\ stage[c] = "checked" => fresh[c] = text[c]

(* What a patch that succeeds in this step leaves in the file.             *)
SeenSavesKept ==
    \A c \in Callers : tool[c] = "patch" /\ result[c] = "none" /\ result'[c] = "ok"
                           => fresh[c] \subseteq file'[target[c]]

(* Every step keeps FoundAgain; only PatchWrite ends a patch with success. *)
LEMMA FoundAgainStep ==
    ASSUME FoundAgain, [FNext]_<<vars, tvars>>
    PROVE  FoundAgain' /\ SeenSavesKept
<1>a. target' = target
      BY ToolsUseTheTable DEF FoundAgain
<1>1. ASSUME NEW c \in Callers,
             Begin(c) \/ Create(c) \/ TryLock(c) \/ Enter(c) \/ GiveUp(c) \/ Leave(c) \/ Forget(c)
      PROVE  FoundAgain' /\ SeenSavesKept
  <2>1. UNCHANGED <<file, tool, text, fresh>>
        BY <1>1 DEF Begin, Create, TryLock, Enter, GiveUp, Leave, Forget, tvars
  <2>2. /\ DOMAIN stage' = Callers /\ DOMAIN result' = Callers
        /\ \A d \in Callers : stage'[d] = "checked" => stage[d] = "checked"
        /\ \A d \in Callers : result'[d] = "ok" => result[d] = "ok"
        BY <1>1 DEF Begin, Create, TryLock, Enter, GiveUp, Leave, Forget, tvars, Goto, Done,
                    FoundAgain
  <2> QED BY <1>a, <2>1, <2>2 DEF FoundAgain, SeenSavesKept, Targets
<1>2. ASSUME NEW c \in Callers, tool[c] # "patch", DOMAIN file' = Paths,
             DOMAIN stage' = Callers, DOMAIN result' = Callers, DOMAIN text' = Callers,
             UNCHANGED <<tool, fresh>>,
             \A d \in Callers \ {c} : /\ stage'[d] = stage[d] /\ text'[d] = text[d]
                                      /\ result'[d] = result[d]
      PROVE  FoundAgain' /\ SeenSavesKept
      BY <1>a, <1>2 DEF FoundAgain, SeenSavesKept, Targets
<1>3. ASSUME NEW c \in Callers, WriteFile(c) PROVE FoundAgain' /\ SeenSavesKept
      BY <1>2, <1>3 DEF WriteFile, At, Save, Done, FoundAgain
<1>4. ASSUME NEW c \in Callers,
             \/ ReadNumbered(c) \/ RecordSnapshot(c)
             \/ EditGuard(c) \/ EditCompare(c) \/ EditWrite(c)
      PROVE  FoundAgain' /\ SeenSavesKept
  <2>1. tool[c] # "patch" /\ UNCHANGED <<tool, fresh>>
        BY <1>4 DEF ReadNumbered, RecordSnapshot, EditGuard, EditCompare, EditWrite, At
  <2>2. DOMAIN file' = Paths
        BY <1>4 DEF ReadNumbered, RecordSnapshot, EditGuard, EditCompare, EditWrite, Save,
                    FoundAgain
  <2>3. DOMAIN text' = Callers /\ \A d \in Callers \ {c} : text'[d] = text[d]
        BY <1>4 DEF ReadNumbered, RecordSnapshot, EditGuard, EditCompare, EditWrite, FoundAgain
  <2>4. /\ DOMAIN stage' = Callers /\ DOMAIN result' = Callers
        /\ \A d \in Callers \ {c} : stage'[d] = stage[d] /\ result'[d] = result[d]
        BY <1>4 DEF ReadNumbered, RecordSnapshot, EditGuard, EditCompare, EditWrite, Save, Goto,
                    Done, FoundAgain
  <2> QED BY <1>2, <2>1, <2>2, <2>3, <2>4
<1>5. ASSUME NEW c \in Callers, PatchRead(c) PROVE FoundAgain' /\ SeenSavesKept
  <2>1. /\ stage'[c] # "checked" /\ UNCHANGED <<file, tool, fresh>> /\ DOMAIN text' = Callers
        /\ DOMAIN stage' = Callers /\ DOMAIN result' = Callers
        /\ \A d \in Callers \ {c} : /\ stage'[d] = stage[d] /\ text'[d] = text[d]
                                    /\ result'[d] = result[d]
        /\ tool[c] = "patch" /\ result'[c] = "ok" => result[c] = "ok"
        BY <1>5 DEF PatchRead, At, Goto, Done, FoundAgain
  <2> QED BY <1>a, <2>1 DEF FoundAgain, SeenSavesKept, Targets
<1>6. ASSUME NEW c \in Callers, PatchRecheck(c) PROVE FoundAgain' /\ SeenSavesKept
  <2>1. /\ UNCHANGED <<file, tool, text>> /\ DOMAIN fresh' = Callers
        /\ DOMAIN stage' = Callers /\ DOMAIN result' = Callers
        /\ \A d \in Callers \ {c} : /\ stage'[d] = stage[d] /\ fresh'[d] = fresh[d]
                                    /\ result'[d] = result[d]
        /\ stage'[c] = "checked" => fresh'[c] = text[c]
        /\ result'[c] = "ok" => result[c] = "ok"
        BY <1>6 DEF PatchRecheck, At, Goto, Done, FoundAgain
  <2> QED BY <1>a, <2>1 DEF FoundAgain, SeenSavesKept, Targets
<1>7. ASSUME NEW c \in Callers, PatchWrite(c) PROVE FoundAgain' /\ SeenSavesKept
  <2>1. /\ UNCHANGED <<tool, text, fresh>> /\ DOMAIN file' = Paths
        /\ DOMAIN stage' = Callers /\ DOMAIN result' = Callers /\ stage'[c] = "done"
        /\ \A d \in Callers \ {c} : stage'[d] = stage[d] /\ result'[d] = result[d]
        BY <1>7 DEF PatchWrite, Save, Done, FoundAgain
  <2>2. fresh[c] = text[c] /\ target[c] \in Paths
        BY <1>7 DEF PatchWrite, At, FoundAgain, Targets
  <2>3. result'[c] = "ok" => file'[target[c]] = text[c] \cup {c}
        BY <1>7, <2>2 DEF PatchWrite, Save, Done, FoundAgain
  <2>4. SeenSavesKept
        BY <2>1, <2>2, <2>3 DEF SeenSavesKept
  <2> QED BY <1>a, <2>1, <2>4 DEF FoundAgain, Targets
<1>8. CASE Shutdown \/ (\E p \in Paths : ExternalSave(p)) \/ UNCHANGED <<vars, tvars>>
  <2>1. UNCHANGED <<tool, stage, result, text, fresh>> /\ DOMAIN file' = Paths
        BY <1>8 DEF Shutdown, ExternalSave, tvars, FoundAgain
  <2> QED BY <1>a, <2>1 DEF FoundAgain, SeenSavesKept, Targets
<1> QED BY <1>1, <1>3, <1>4, <1>5, <1>6, <1>7, <1>8 DEF FNext

(* patch_file refuses, and does not clobber, a save that landed before it  *)
(* re-read the file under the lock: with any mix of tools and editors.     *)
THEOREM PatchesKeepSaves == FSpec => PatchKeepsSeenSaves
<1>1. FInit => FoundAgain
      BY DEF FInit, Init, FoundAgain, Targets
<1>2. FoundAgain /\ [FNext]_<<vars, tvars>> => FoundAgain' /\ [SeenSavesKept]_<<vars, tvars>>
      BY FoundAgainStep
<1> QED BY <1>1, <1>2, PTL DEF FSpec, PatchKeepsSeenSaves, SeenSavesKept
=============================================================================
