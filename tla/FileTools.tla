----------------------------- MODULE FileTools -----------------------------
(***************************************************************************)
(* The tools that change files (kod-tools/src/tools.rs, edit_tool.rs and   *)
(* edit_hashline.rs) on top of the path lock table.  write_file and        *)
(* patch_file run under the lock of the path; `edit' runs under the mutex  *)
(* of the session's EditStore and takes no path lock.                      *)
(*                                                                         *)
(* A caller of PathLockTable is one tool call, made once.  The content of  *)
(* a file is the set of the calls whose change is in it (plus Editor, for  *)
(* a save by a program other than kod), and a tag stands for the content   *)
(* it is the hash of.                                                      *)
(***************************************************************************)
EXTENDS PathLockTable

CONSTANTS Editor,   \* an editor outside kod
          NoText    \* no snapshot

AllTools == {"write", "append", "patch", "dry_run", "read_numbered", "edit"}
Locking == {"write", "append", "patch", "dry_run"}

ASSUME EditorAssumption == Editor \notin Callers

VARIABLES file,      \* path -> content
          tool,      \* call -> tool
          stage,     \* call -> progress inside the tool
          result,    \* call -> "none", "ok" or "error"
          text,      \* call -> what it read: `original', or the content of its tag
          fresh,     \* call -> what patch_file re-read under the lock
          snapshot,  \* path -> EditStore.snapshots
          store,     \* the call that has the EditStore mutex
          tags,      \* path -> contents whose tag read_file or edit has returned
          expected   \* path -> the calls whose reported change must be in the file

tvars == <<file, tool, stage, result, text, fresh, snapshot, store, tags, expected>>
evars == <<snapshot, store, tags>>
Text == SUBSET (Callers \cup {Editor})

FInit == /\ Init
         /\ file = [p \in Paths |-> {}]
         /\ tool \in [Callers -> AllTools]
         /\ stage = [c \in Callers |-> "new"]
         /\ result = [c \in Callers |-> "none"]
         /\ text = [c \in Callers |-> NoText]
         /\ fresh = [c \in Callers |-> NoText]
         /\ store = NoCaller
         /\ \E known \in SUBSET Paths :   \* read with numbers before
              /\ snapshot = [p \in Paths |-> IF p \in known THEN {} ELSE NoText]
              /\ tags = [p \in Paths |-> IF p \in known THEN {{}} ELSE {}]
         /\ expected = [p \in Paths |-> {}]

-----------------------------------------------------------------------------
At(c, t, s) == tool[c] \in t /\ stage[c] = s
Goto(c, s) == stage' = [stage EXCEPT ![c] = s] /\ UNCHANGED result
Done(c, r) == /\ stage' = [stage EXCEPT ![c] = "done"]
              /\ result' = [result EXCEPT ![c] = r]

(* The text of call c is written and the success reported; `keeps' are the *)
(* earlier changes that c means to keep.                                   *)
Save(c, p, content, keeps) == /\ file' = [file EXCEPT ![p] = content]
                              /\ expected' = [expected EXCEPT ![p] = keeps \cup {c}]
                              /\ Done(c, "ok")

(* The lock steps of write_file and patch_file.  A timeout is a tool error.*)
Begin(c) == /\ At(c, Locking, "new") /\ Lookup(c, target[c])
            /\ Goto(c, "run")
            /\ UNCHANGED <<file, tool, text, fresh, evars, expected>>
Create(c) == CreateCell(c) /\ UNCHANGED tvars
TryLock(c) == LockOwned(c) /\ UNCHANGED tvars
Enter(c) == Granted(c) /\ UNCHANGED tvars
GiveUp(c) == /\ AbortCreate(c) \/ Timeout(c)
             /\ Done(c, "error")
             /\ UNCHANGED <<file, tool, text, fresh, evars, expected>>

Leave(c) == stage[c] = "done" /\ Unlock(c) /\ UNCHANGED tvars
Forget(c) == DropArc(c) /\ UNCHANGED tvars
Shutdown == ReleaseAll /\ UNCHANGED tvars

(* write_file under the lock: replace the file through a temporary one, or *)
(* open it for append.  A failed replacement leaves the file as it was; an *)
(* append whose fsync fails is an error with the text in the file.         *)
WriteFile(c) ==
    LET p == target[c]
    IN /\ pc[c] = "held" /\ At(c, {"write", "append"}, "run")
       /\ \/ tool[c] = "append" /\ Save(c, p, file[p] \cup {c}, expected[p])
          \/ tool[c] = "write" /\ Save(c, p, {c}, {})
          \/ Done(c, "error") /\ UNCHANGED <<file, expected>>
          \/ /\ tool[c] = "append" /\ Done(c, "error")
             /\ file' = [file EXCEPT ![p] = @ \cup {c}] /\ UNCHANGED expected
       /\ UNCHANGED <<vars, tool, text, fresh, evars>>

(* patch_file: read the original and apply the diff to it; a dry run ends  *)
(* here, and so does a patch that does not apply.                          *)
PatchRead(c) ==
    /\ pc[c] = "held" /\ At(c, {"patch", "dry_run"}, "run")
    /\ text' = [text EXCEPT ![c] = file[target[c]]]
    /\ \/ tool[c] = "patch" /\ Goto(c, "patched")
       \/ tool[c] = "dry_run" /\ Done(c, "ok")
       \/ Done(c, "error")
    /\ UNCHANGED <<vars, file, tool, fresh, evars, expected>>

(* Mutant: the re-read text is not compared (before T1-C9).                *)
PatchRecheckSkipped(c) ==
    /\ At(c, {"patch"}, "patched")
    /\ fresh' = [fresh EXCEPT ![c] = file[target[c]]]
    /\ Goto(c, "checked")
    /\ UNCHANGED <<vars, file, tool, text, evars, expected>>

(* ... re-read the file and refuse if it is no longer the original ...     *)
PatchRecheck(c) ==
    /\ At(c, {"patch"}, "patched")
    /\ fresh' = [fresh EXCEPT ![c] = file[target[c]]]
    /\ IF file[target[c]] = text[c] THEN Goto(c, "checked") ELSE Done(c, "error")
    /\ UNCHANGED <<vars, file, tool, text, evars, expected>>

(* ... and write the patched text.                                         *)
PatchWrite(c) ==
    /\ At(c, {"patch"}, "checked")
    /\ \/ Save(c, target[c], text[c] \cup {c}, expected[target[c]])
       \/ Done(c, "error") /\ UNCHANGED <<file, expected>>
    /\ UNCHANGED <<vars, tool, text, fresh, evars>>

-----------------------------------------------------------------------------
(* read_file with numbered = true: read without any lock (a missing,       *)
(* binary or truncated file gets no tag), then record the snapshot under   *)
(* the store's mutex and return its tag.                                   *)
ReadNumbered(c) ==
    /\ At(c, {"read_numbered"}, "new")
    /\ text' = [text EXCEPT ![c] = file[target[c]]]
    /\ Goto(c, "read") \/ Done(c, "error")
    /\ UNCHANGED <<vars, file, tool, fresh, evars, expected>>

RecordSnapshot(c) ==
    /\ At(c, {"read_numbered"}, "read") /\ store = NoCaller
    /\ snapshot' = [snapshot EXCEPT ![target[c]] = text[c]]
    /\ tags' = [tags EXCEPT ![target[c]] = @ \cup {text[c]}]
    /\ Done(c, "ok")
    /\ UNCHANGED <<vars, file, tool, text, fresh, store, expected>>

(* EditStore::apply under the mutex: the path must have a snapshot with    *)
(* the tag the edit carries.                                               *)
EditGuard(c) ==
    LET p == target[c]
    IN /\ At(c, {"edit"}, "new") /\ store = NoCaller
       /\ \E tag \in tags[p] :
              \/ /\ snapshot[p] = tag
                 /\ text' = [text EXCEPT ![c] = tag]
                 /\ store' = c
                 /\ Goto(c, "guarded")
              \/ snapshot[p] # tag /\ Done(c, "error") /\ UNCHANGED <<text, store>>
       /\ UNCHANGED <<vars, file, tool, fresh, snapshot, tags, expected>>

(* ... the file must still be the snapshot, byte for byte ...              *)
EditCompare(c) ==
    /\ At(c, {"edit"}, "guarded")
    /\ \/ file[target[c]] = text[c] /\ Goto(c, "checked") /\ UNCHANGED store
       \/ file[target[c]] # text[c] /\ Done(c, "error") /\ store' = NoCaller
    /\ UNCHANGED <<vars, file, tool, text, fresh, snapshot, tags, expected>>

(* ... and the staged text is written and the snapshot dropped.            *)
EditWrite(c) ==
    LET p == target[c]
        new == text[c] \cup {c}
    IN /\ At(c, {"edit"}, "checked")
       /\ \/ /\ Save(c, p, new, expected[p])
             /\ snapshot' = [snapshot EXCEPT ![p] = NoText]
             /\ tags' = [tags EXCEPT ![p] = @ \cup {new}]
          \/ Done(c, "error") /\ UNCHANGED <<file, expected, snapshot, tags>>
       /\ store' = NoCaller
       /\ UNCHANGED <<vars, tool, text, fresh>>

(* An IDE saves the file.                                                  *)
ExternalSave(p) ==
    /\ Editor \notin file[p]
    /\ file' = [file EXCEPT ![p] = @ \cup {Editor}]
    /\ UNCHANGED <<vars, tool, stage, result, text, fresh, evars, expected>>

FNext == \/ \E c \in Callers :
              \/ Begin(c) \/ Create(c) \/ TryLock(c) \/ Enter(c) \/ GiveUp(c)
              \/ WriteFile(c) \/ PatchRead(c) \/ PatchRecheck(c) \/ PatchWrite(c)
              \/ Leave(c) \/ Forget(c)
              \/ ReadNumbered(c) \/ RecordSnapshot(c)
              \/ EditGuard(c) \/ EditCompare(c) \/ EditWrite(c)
         \/ Shutdown
         \/ \E p \in Paths : ExternalSave(p)

FSpec == FInit /\ [][FNext]_<<vars, tvars>>

-----------------------------------------------------------------------------
(* write_file and patch_file exclude each other, and so do edits.          *)
SameLock(c, d) == (tool[c] = "edit") = (tool[d] = "edit")

(* A reported change is lost only across the two locks: once a tool has    *)
(* reported its change, no call under the same lock takes it out of the    *)
(* file again, unless it replaces the whole file - whatever patches,       *)
(* edits and other programs do in between.  What a call under the other    *)
(* lock takes out is the loss that neither lock prevents.                  *)
LostOnlyAcrossLocks ==
    [][\A p \in Paths : \A d \in expected[p] \cap expected'[p] :
          d \in file[p] \ file'[p]
              => \E c \in Callers : result'[c] # result[c] /\ ~SameLock(c, d)]_<<vars, tvars>>

(* patch_file never discards content that was on disk when it re-read the  *)
(* file under the lock: a save by an IDE that landed while the patch was   *)
(* computed is refused, not clobbered.                                     *)
PatchKeepsSeenSaves ==
    [][\A c \in Callers :
          (tool[c] = "patch" /\ result[c] = "none" /\ result'[c] = "ok")
              => fresh[c] \subseteq file'[target[c]]]_<<vars, tvars>>
=============================================================================
