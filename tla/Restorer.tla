------------------------------ MODULE Restorer ------------------------------
(***************************************************************************)
(* One call of RestoreAndStopEtcd (src/pkg/types/restorer.go, 330-338):   *)
(* Restore (342-399) creates the temporary directory, restores the data    *)
(* directory from the base snapshot (restoreFromBaseSnapshot, 402-475),    *)
(* starts the embedded etcd, applies the deltas, updates the member's peer *)
(* URL, and on return runs its deferred RemoveAll; RestoreAndStopEtcd then *)
(* stops the etcd handle Restore returned.                                 *)
(*                                                                         *)
(* applyDeltaSnapshots is used through what it promises: DeltaApply, which *)
(* RestorePipeline is shown to implement (theorem Refinement).  Calls to   *)
(* the store, the compressor, the file system, the etcd launcher, the      *)
(* snapshot restore primitive and the member control may fail.            *)
(***************************************************************************)
EXTENDS Naturals, Sequences

CONSTANT NumDeltas   \* len(ro.DeltaSnapList) when there are deltas

ASSUME RestorerConstants == NumDeltas \in Nat \ {0}

VARIABLES
    hasBase,     \* path.Join(SnapDir, SnapName) # "" (line 404)
    hasDeltas,   \* len(ro.DeltaSnapList) # 0 (line 358)
    hasMember,   \* m # nil (line 383)
    pc,          \* control point of the call
    tempDir,     \* ro.Config.TempSnapshotsDir exists
    dbFile,      \* the snapshot-*.db file exists (line 435)
    dataDir,     \* "none", or "base" once manager.Restore succeeded
    etcd,        \* the embedded etcd: "none", "running" or "stopped"
    handle,      \* Restore returned a non-nil *embed.Etcd
    memberSet,   \* UpdateMemberPeerURL succeeded
    err,         \* "none" until returned, then "nil" or "err"
    written,     \* DeltaApply: deltas written to the embedded etcd
    outcome      \* DeltaApply: the err applyDeltaSnapshots returns

vars == <<hasBase, hasDeltas, hasMember, pc, tempDir, dbFile, dataDir, etcd,
          handle, memberSet, err, written, outcome>>

Pipeline == INSTANCE DeltaApply WITH N <- NumDeltas

PCs == {"mkdir", "fetch", "compression", "createTemp", "copy", "restore",
        "baseReturn", "deltas", "start", "apply", "member", "removeAll",
        "stop", "done"}

Go(p) == pc' = p

\* Restore returns err (only its own defers remain to run).
ReturnErr == Go("removeAll") /\ err' = "err"

\* restoreFromBaseSnapshot fails: its deferred os.Remove runs, then Restore
\* returns the error (lines 354-356).
BaseFails == Go("baseReturn") /\ err' = "err"

\* Line 344: os.MkdirAll; a failure returns before the deferred RemoveAll.
MkdirAll ==
    /\ pc = "mkdir"
    /\ \/ Go("fetch") /\ tempDir' = TRUE /\ UNCHANGED err
       \/ Go("done") /\ err' = "err" /\ UNCHANGED tempDir
    /\ UNCHANGED <<hasBase, hasDeltas, hasMember, dbFile, dataDir, etcd,
                   handle, memberSet, written, outcome>>

\* Lines 403-415: an empty base path restores nothing; otherwise Fetch.
Fetch ==
    /\ pc = "fetch"
    /\ \/ ~hasBase /\ Go("deltas") /\ UNCHANGED err
       \/ hasBase /\ Go("compression") /\ UNCHANGED err
       \/ hasBase /\ BaseFails
    /\ UNCHANGED <<hasBase, hasDeltas, hasMember, tempDir, dbFile, dataDir,
                   etcd, handle, memberSet, written, outcome>>

\* Lines 423-433: IsSnapshotCompressed and DecompressSnapshot.
Decompress ==
    /\ pc = "compression"
    /\ \/ Go("createTemp") /\ UNCHANGED err
       \/ BaseFails
    /\ UNCHANGED <<hasBase, hasDeltas, hasMember, tempDir, dbFile, dataDir,
                   etcd, handle, memberSet, written, outcome>>

\* Lines 435-444: os.CreateTemp in the temporary directory, removal deferred.
CreateTemp ==
    /\ pc = "createTemp"
    /\ \/ Go("copy") /\ dbFile' = TRUE /\ UNCHANGED err
       \/ BaseFails /\ UNCHANGED dbFile
    /\ UNCHANGED <<hasBase, hasDeltas, hasMember, tempDir, dataDir, etcd,
                   handle, memberSet, written, outcome>>

\* Lines 446-448: io.Copy of the snapshot into the db file.
CopySnapshot ==
    /\ pc = "copy"
    /\ \/ Go("restore") /\ UNCHANGED err
       \/ BaseFails
    /\ UNCHANGED <<hasBase, hasDeltas, hasMember, tempDir, dbFile, dataDir,
                   etcd, handle, memberSet, written, outcome>>

\* Lines 459-471: manager.Restore writes the data directory.
RestoreBase ==
    /\ pc = "restore"
    /\ \/ Go("baseReturn") /\ dataDir' = "base" /\ UNCHANGED err
       \/ BaseFails /\ UNCHANGED dataDir
    /\ UNCHANGED <<hasBase, hasDeltas, hasMember, tempDir, dbFile, etcd,
                   handle, memberSet, written, outcome>>

\* Lines 440-444 (deferred os.Remove, a failure is only logged), then
\* lines 354-356 in Restore.
BaseReturn ==
    /\ pc = "baseReturn"
    /\ dbFile' \in {FALSE, dbFile}
    /\ IF err = "err" THEN Go("removeAll") ELSE Go("deltas")
    /\ UNCHANGED <<hasBase, hasDeltas, hasMember, tempDir, dataDir, etcd,
                   handle, memberSet, err, written, outcome>>

\* Lines 358-361: no deltas, return nil, nil.
NoDeltas ==
    /\ pc = "deltas"
    /\ \/ ~hasDeltas /\ Go("removeAll") /\ err' = "nil"
       \/ hasDeltas /\ Go("start") /\ UNCHANGED err
    /\ UNCHANGED <<hasBase, hasDeltas, hasMember, tempDir, dbFile, dataDir,
                   etcd, handle, memberSet, written, outcome>>

\* Lines 365-368: StartEmbeddedEtcd; a failed start leaves no server.
StartEtcd ==
    /\ pc = "start"
    /\ \/ Go("apply") /\ etcd' = "running" /\ handle' = TRUE /\ UNCHANGED err
       \/ ReturnErr /\ UNCHANGED <<etcd, handle>>
    /\ UNCHANGED <<hasBase, hasDeltas, hasMember, tempDir, dbFile, dataDir,
                   memberSet, written, outcome>>

\* Mutant: a delta loop that runs one delta past the end of the list.
ApplyStepPastEnd ==
    /\ pc = "apply"
    /\ outcome = "none"
    /\ \/ Pipeline!Next
       \/ Len(written) = NumDeltas /\ written' = Append(written, NumDeltas)
          /\ UNCHANGED outcome
    /\ UNCHANGED <<hasBase, hasDeltas, hasMember, pc, tempDir, dbFile,
                   dataDir, etcd, handle, memberSet, err>>

\* Lines 370-379: applyDeltaSnapshots, one of its steps at a time.
ApplyStep ==
    /\ pc = "apply"
    /\ outcome = "none"
    /\ Pipeline!Next
    /\ UNCHANGED <<hasBase, hasDeltas, hasMember, pc, tempDir, dbFile,
                   dataDir, etcd, handle, memberSet, err>>

\* Mutants: the error is returned without the handle, or not checked.
ApplyReturnNoHandle ==
    /\ pc = "apply"
    /\ outcome # "none"
    /\ IF outcome = "err" THEN ReturnErr /\ handle' = FALSE
                          ELSE Go("member") /\ UNCHANGED <<err, handle>>
    /\ UNCHANGED <<hasBase, hasDeltas, hasMember, tempDir, dbFile, dataDir,
                   etcd, memberSet, written, outcome>>

ApplyReturnUnchecked ==
    /\ pc = "apply"
    /\ outcome # "none"
    /\ Go("member")
    /\ UNCHANGED <<hasBase, hasDeltas, hasMember, tempDir, dbFile, dataDir,
                   etcd, handle, memberSet, err, written, outcome>>

\* Lines 379-381: it has returned; an error is returned with the handle.
ApplyReturn ==
    /\ pc = "apply"
    /\ outcome # "none"
    /\ IF outcome = "err" THEN ReturnErr ELSE Go("member") /\ UNCHANGED err
    /\ UNCHANGED <<hasBase, hasDeltas, hasMember, tempDir, dbFile, dataDir,
                   etcd, handle, memberSet, written, outcome>>

\* Lines 383-398: NewCluster and UpdateMemberPeerURL when m # nil.
UpdateMember ==
    /\ pc = "member"
    /\ \/ ~hasMember /\ Go("removeAll") /\ err' = "nil" /\ UNCHANGED memberSet
       \/ hasMember /\ Go("removeAll") /\ err' = "nil" /\ memberSet' = TRUE
       \/ hasMember /\ ReturnErr /\ UNCHANGED memberSet
    /\ UNCHANGED <<hasBase, hasDeltas, hasMember, tempDir, dbFile, dataDir,
                   etcd, handle, written, outcome>>

\* Lines 348-352: Restore's deferred os.RemoveAll; a failure is only logged.
RemoveAll ==
    /\ pc = "removeAll"
    /\ \/ tempDir' = FALSE /\ dbFile' = FALSE
       \/ UNCHANGED <<tempDir, dbFile>>
    /\ Go("stop")
    /\ UNCHANGED <<hasBase, hasDeltas, hasMember, dataDir, etcd, handle,
                   memberSet, err, written, outcome>>

\* Lines 331-338: RestoreAndStopEtcd stops the returned etcd, if any.
StopEtcd ==
    /\ pc = "stop"
    /\ etcd' = IF handle THEN "stopped" ELSE etcd
    /\ Go("done")
    /\ UNCHANGED <<hasBase, hasDeltas, hasMember, tempDir, dbFile, dataDir,
                   handle, memberSet, err, written, outcome>>

Init ==
    /\ hasBase \in BOOLEAN
    /\ hasDeltas \in BOOLEAN
    /\ hasMember \in BOOLEAN
    /\ pc = "mkdir"
    /\ tempDir = FALSE
    /\ dbFile = FALSE
    /\ dataDir = "none"
    /\ etcd = "none"
    /\ handle = FALSE
    /\ memberSet = FALSE
    /\ err = "none"
    /\ Pipeline!Init

Done == pc = "done" /\ UNCHANGED vars

Next ==
    \/ MkdirAll \/ Fetch \/ Decompress \/ CreateTemp \/ CopySnapshot
    \/ RestoreBase \/ BaseReturn \/ NoDeltas \/ StartEtcd \/ ApplyStep
    \/ ApplyReturn \/ UpdateMember \/ RemoveAll \/ StopEtcd \/ Done

Spec == Init /\ [][Next]_vars

-----------------------------------------------------------------------------
(* Properties.                                                             *)

TypeOK ==
    /\ hasBase \in BOOLEAN /\ hasDeltas \in BOOLEAN /\ hasMember \in BOOLEAN
    /\ pc \in PCs
    /\ tempDir \in BOOLEAN /\ dbFile \in BOOLEAN /\ handle \in BOOLEAN
    /\ memberSet \in BOOLEAN
    /\ dataDir \in {"none", "base"}
    /\ etcd \in {"none", "running", "stopped"}
    /\ err \in {"none", "nil", "err"}
    /\ written \in Seq(0 .. NumDeltas - 1)
    /\ outcome \in {"none", "nil", "err"}

\* Whatever path Restore takes out of its chain of early returns, once
\* RestoreAndStopEtcd has returned no embedded etcd is left running: every
\* return after a successful start hands the server back (lines 367-398).
NoEtcdLeak == pc = "done" => etcd # "running"

\* RestoreAndStopEtcd returns nil only when the data directory was restored
\* from the base snapshot (if one was given), every delta was written to the
\* embedded etcd, and the member's peer URL was updated (if m # nil).
SuccessMeansRestored ==
    (pc = "done" /\ err = "nil") =>
        /\ hasBase => dataDir = "base"
        /\ hasDeltas => Len(written) = NumDeltas
        /\ hasDeltas /\ hasMember => memberSet

\* The design (spec sections 7 and 8): the temporary directory is gone after
\* every terminal state, and a cleanup error is reported to the caller.
CleanupFailureReported == (pc = "done" /\ tempDir) => err = "err"

=============================================================================
