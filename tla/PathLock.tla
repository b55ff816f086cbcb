------------------------------ MODULE PathLock ------------------------------
(***************************************************************************)
(* What kod-tools/src/path_lock.rs promises its callers: one lock per      *)
(* path, first come first served.  A caller that gives up leaves no trace. *)
(* Nothing of how it is done is visible: no cells, no table, no sweep.     *)
(***************************************************************************)
EXTENDS Naturals, Sequences

CONSTANTS Callers, Paths, NoCaller

VARIABLES holder,  \* path -> the caller whose turn it is
          queue,   \* path -> the callers behind it, oldest first
          inside   \* the callers that have their guard

vars == <<holder, queue, inside>>

Init == /\ holder = [p \in Paths |-> NoCaller]
        /\ queue = [p \in Paths |-> <<>>]
        /\ inside = {}

(* The caller neither has a lock nor waits for one.                        *)
Out(c) == \A p \in Paths : /\ holder[p] # c
                           /\ \A i \in DOMAIN queue[p] : queue[p][i] # c

Ask(c, p) ==
    /\ Out(c)
    /\ \/ /\ holder[p] = NoCaller
          /\ holder' = [holder EXCEPT ![p] = c]
          /\ inside' = inside \cup {c}
          /\ UNCHANGED queue
       \/ /\ holder[p] # NoCaller
          /\ queue' = [queue EXCEPT ![p] = Append(@, c)]
          /\ UNCHANGED <<holder, inside>>

(* The caller whose turn has come notices.                                 *)
Enter(c, p) ==
    /\ holder[p] = c /\ c \notin inside
    /\ inside' = inside \cup {c}
    /\ UNCHANGED <<holder, queue>>

(* The guard is dropped, or the caller gives up although its turn has come.*)
Leave(c, p) ==
    /\ holder[p] = c
    /\ \/ /\ queue[p] = <<>>
          /\ holder' = [holder EXCEPT ![p] = NoCaller]
          /\ UNCHANGED queue
       \/ /\ queue[p] # <<>>
          /\ holder' = [holder EXCEPT ![p] = Head(queue[p])]
          /\ queue' = [queue EXCEPT ![p] = Tail(@)]
    /\ inside' = inside \ {c}

(* A caller gives up while others are before it.                           *)
GiveUp(c, p) ==
    /\ \E i \in DOMAIN queue[p] :
         /\ queue[p][i] = c
         /\ queue' = [queue EXCEPT ![p] =
               [j \in 1 .. Len(@) - 1 |-> IF j < i THEN @[j] ELSE @[j + 1]]]
    /\ UNCHANGED <<holder, inside>>

Next == \E c \in Callers, p \in Paths :
            Ask(c, p) \/ Enter(c, p) \/ Leave(c, p) \/ GiveUp(c, p)

Spec == Init /\ [][Next]_vars
=============================================================================
