----------------------------- MODULE AtomicFile -----------------------------
(***************************************************************************)
(* write_file_atomically (src/platform/atomic_file.rs): a file is replaced *)
(* by a staged sibling, step by step, and any step may fail or be cut off  *)
(* by a power failure.                                                     *)
(*                                                                         *)
(* files[f].now is what a read returns; files[f].disk is what f will hold  *)
(* after a power failure: a rename is only sure once its directory is      *)
(* synced, and until then disk is the old content or the new; it is torn,  *)
(* incomplete, if the data were not synced before the rename.              *)
(*                                                                         *)
(* A directory is an entry of the one above it and is lost like any other: *)
(* host.folders[d] is "new" from its creation until the directory above it *)
(* is synced, and a new directory may be gone, with all it holds, after a  *)
(* power failure.  host.unix is the build: only unix syncs directories.    *)
(***************************************************************************)

CONSTANTS
    Paths,    \* the files
    Folders,  \* their directories, and those above them that may be missing
    Holder,   \* Holder[f]: the directory of f
    Above,    \* Above[d]: the directories above d
    Absent    \* Absent[f]: what a read returns when f does not exist

ASSUME FolderAssumption ==
    /\ Holder \in [Paths -> Folders]
    /\ Above \in [Folders -> SUBSET Folders]
    /\ \A d \in Folders : \A e \in Above[d] : Above[e] \subseteq Above[d]

VARIABLES
    files,  \* what each path holds
    host,   \* the build and the state of the directories
    write,  \* the write under way: one thread writes
    kept    \* history: the contents a path may be left with: the last one whose
            \* write was reported successful, and those put in place since

fileVars == <<files, host, write, kept>>

\* A file whose content is safe.
Settled(v) == [now |-> v, disk |-> v, torn |-> FALSE]

Idle == [at |-> "idle"]

\* The directories that a write to f needs.
OnWay(f) == {Holder[f]} \cup Above[Holder[f]]

\* create_dir_all: d and what is above it exist, created where they did not.
Made(d) ==
    [host EXCEPT !.folders = [e \in Folders |->
        IF e \in {d} \cup Above[d] /\ host.folders[e] = "absent" THEN "new"
        ELSE host.folders[e]]]

\* The directories whose entry is in d.
Inside(d) == {e \in Folders : e # d /\ Above[e] = {d} \cup Above[d]}

\* write_file_atomically is called.
Begin(path, value) ==
    /\ write = Idle
    /\ write' = [at |-> "stage", path |-> path, value |-> value, synced |-> FALSE]
    /\ UNCHANGED <<files, host, kept>>

\* create_dir_all, create_sibling_temp and produce: the staged file has all the
\* bytes.  The new directories are not synced.
Stage ==
    /\ write.at = "stage"
    /\ write' = [write EXCEPT !.at = "sync"]
    /\ host' = Made(Holder[write.path])
    /\ UNCHANGED <<files, kept>>

\* Fault: the staged file is not synced.
SyncTempLazy ==
    /\ write.at = "sync"
    /\ write' = [write EXCEPT !.at = "replace"]
    /\ UNCHANGED <<files, host, kept>>

\* sync_all of the staged file; validate and verify_unchanged read it back.
SyncTemp ==
    /\ write.at = "sync"
    /\ write' = [write EXCEPT !.at = "replace", !.synced = TRUE]
    /\ UNCHANGED <<files, host, kept>>

\* replace_file_by_path: the rename.
Replace ==
    /\ write.at = "replace"
    /\ \E disk \in {files[write.path].disk, write.value}, torn \in {FALSE, ~write.synced} :
        files' = [files EXCEPT ![write.path] =
                    [now |-> write.value, disk |-> disk, torn |-> torn]]
    /\ write' = [write EXCEPT !.at = "sync parent"]
    /\ kept' = [kept EXCEPT ![write.path] = @ \cup {write.value}]
    /\ UNCHANGED host

\* Fault: the directory is not synced.
SyncParentLazy ==
    /\ write.at = "sync parent"
    /\ write' = [write EXCEPT !.at = "ok"]
    /\ UNCHANGED <<files, host, kept>>

\* sync_parent: on unix the directory is synced, that is the entries in it, its
\* own entry in the directory above not; elsewhere the file is synced once more.
SyncParent ==
    /\ write.at = "sync parent"
    /\ write' = [write EXCEPT !.at = "ok"]
    /\ \/ /\ host.unix
          /\ files' = [files EXCEPT ![write.path].disk = files[write.path].now]
          /\ host' = [host EXCEPT !.folders = [d \in Folders |->
                IF d \in Inside(Holder[write.path]) /\ host.folders[d] = "new" THEN "sure"
                ELSE host.folders[d]]]
       \/ /\ ~host.unix
          /\ files' = [files EXCEPT ![write.path].torn = FALSE]
          /\ UNCHANGED host
    /\ UNCHANGED kept

WriteStep == Stage \/ SyncTemp \/ Replace \/ SyncParent

\* A step fails: the staged file is removed and the error returned.  Some of the
\* directories may have been created; after the rename the new content stays.
Fail ==
    /\ write.at \in {"stage", "sync", "replace", "sync parent"}
    /\ write' = [write EXCEPT !.at = "err"]
    /\ \/ UNCHANGED host
       \/ write.at = "stage" /\ \E d \in OnWay(write.path) : host' = Made(d)
    /\ UNCHANGED <<files, kept>>

\* The caller takes the result.
Return ==
    /\ write.at \in {"ok", "err"}
    /\ write' = Idle
    /\ kept' = IF write.at = "ok" THEN [kept EXCEPT ![write.path] = {write.value}] ELSE kept
    /\ UNCHANGED <<files, host>>

\* The power fails: every file is what it is on disk, and any of the new
\* directories may be gone with what is below it.
PowerFailure ==
    \E gone \in SUBSET {d \in Folders : host.folders[d] = "new"} :
        LET lost == {d \in Folders : ({d} \cup Above[d]) \cap gone # {}}
        IN  /\ files' = [f \in Paths |->
                    IF Holder[f] \in lost THEN Settled(Absent[f])
                    ELSE [files[f] EXCEPT !.now = files[f].disk]]
            /\ host' = [host EXCEPT !.folders = [d \in Folders |->
                    IF d \in lost THEN "absent"
                    ELSE IF host.folders[d] = "new" THEN "sure" ELSE host.folders[d]]]
            /\ write' = Idle
            /\ kept' = [f \in Paths |-> {files'[f].now}]

-----------------------------------------------------------------------------

\* Whatever fails and whenever the power fails, every file holds, and would
\* hold after a power failure, a complete content: the old one or the new.
NeverTorn == \A f \in Paths : ~files[f].torn

\* f and the directories it lies in were there before or have been synced.
Founded(f) == \A d \in OnWay(f) : host.folders[d] # "new"
=============================================================================
