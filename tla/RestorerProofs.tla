---------------------------- MODULE RestorerProofs ----------------------------
(***************************************************************************)
(* Proofs about Restorer, for every NumDeltas allowed by RestorerConstants. *)
(***************************************************************************)
EXTENDS Restorer, SequenceTheorems, TLAPS

(***************************************************************************)
(* Neither property is inductive.  NoEtcdLeak needs that a running etcd   *)
(* is always one Restore will hand back and RestoreAndStopEtcd still has   *)
(* to stop.  SuccessMeansRestored needs the facts each early return of     *)
(* Restore leaves behind: the data directory is restored before the       *)
(* deltas are looked at, the member is updated only after                 *)
(* applyDeltaSnapshots returned nil, which DeltaApply gives only with      *)
(* every delta written, and the err is nil only once Restore returned.     *)
(***************************************************************************)
Restored ==
    /\ hasBase => dataDir = "base"
    /\ hasDeltas => Len(written) = NumDeltas
    /\ hasDeltas /\ hasMember => memberSet

RInv ==
    /\ TypeOK
    /\ etcd = "running" => handle /\ pc \in {"apply", "member", "removeAll", "stop"}
    /\ outcome = "nil" => Len(written) = NumDeltas
    /\ pc \in {"start", "apply", "member"} => hasDeltas
    /\ pc \in {"mkdir", "fetch", "compression", "createTemp", "copy", "restore",
              "deltas", "start", "apply", "member"} => err = "none"
    /\ pc = "member" => outcome = "nil"
    /\ err = "nil" => pc \in {"removeAll", "stop", "done"}
    /\ (\/ pc \in {"deltas", "start", "apply", "member"}
        \/ pc = "baseReturn" /\ err = "none") => (hasBase => dataDir = "base")
    /\ (pc \in {"removeAll", "stop", "done"} /\ err = "nil") => Restored

USE RestorerConstants DEF Go

THEOREM RInit == Init => RInv
  <1> SUFFICES ASSUME Init PROVE RInv
    OBVIOUS
  <1>1. written = <<>> /\ outcome = "none"
    BY DEF Init, Pipeline!Init
  <1>2. written \in Seq(0 .. NumDeltas - 1)
    BY <1>1, EmptySeq
  <1>3. TypeOK
    BY <1>1, <1>2 DEF Init, TypeOK, PCs
  <1>4. QED
    BY <1>1, <1>3 DEF Init, RInv

\* A step of DeltaApply keeps the written deltas well typed and, once nil
\* is decided, all written.
LEMMA PipelineStep ==
  ASSUME written \in Seq(0 .. NumDeltas - 1),
         outcome \in {"none", "nil", "err"},
         outcome = "nil" => Len(written) = NumDeltas,
         Pipeline!Next
  PROVE  /\ written' \in Seq(0 .. NumDeltas - 1)
         /\ outcome' \in {"none", "nil", "err"}
         /\ outcome' = "nil" => Len(written') = NumDeltas
  <1>1. CASE Pipeline!WriteNext
    <2>1. Len(written) \in 0 .. NumDeltas - 1
      BY <1>1 DEF Pipeline!WriteNext
    <2>2. written' \in Seq(0 .. NumDeltas - 1)
      BY <1>1, <2>1, AppendProperties DEF Pipeline!WriteNext
    <2>3. QED
      BY <1>1, <2>2 DEF Pipeline!WriteNext
  <1>2. CASE Pipeline!ReportNil
    BY <1>2 DEF Pipeline!ReportNil
  <1>3. CASE Pipeline!ReportErr
    BY <1>3 DEF Pipeline!ReportErr
  <1>4. QED
    BY <1>1, <1>2, <1>3 DEF Pipeline!Next

\* The Boolean variables and the others are typed apart: Zenon handles the
\* first, SMT the second.
TypeBool ==
    /\ hasBase \in BOOLEAN /\ hasDeltas \in BOOLEAN /\ hasMember \in BOOLEAN
    /\ tempDir \in BOOLEAN /\ dbFile \in BOOLEAN /\ handle \in BOOLEAN
    /\ memberSet \in BOOLEAN

TypeRest ==
    /\ pc \in PCs
    /\ dataDir \in {"none", "base"}
    /\ etcd \in {"none", "running", "stopped"}
    /\ err \in {"none", "nil", "err"}
    /\ written \in Seq(0 .. NumDeltas - 1)
    /\ outcome \in {"none", "nil", "err"}

THEOREM TypeStep == TypeOK /\ [Next]_vars => TypeOK'
  <1> SUFFICES ASSUME TypeOK, [Next]_vars PROVE TypeBool' /\ TypeRest'
    BY Zenon DEF TypeOK, TypeBool, TypeRest
  <1>0. TypeBool /\ TypeRest
    BY Zenon DEF TypeOK, TypeBool, TypeRest
  <1>1. CASE MkdirAll
    <2>1. TypeBool'
      BY <1>0, <1>1, Zenon DEF MkdirAll, TypeBool
    <2>2. TypeRest'
      BY <1>0, <1>1 DEF MkdirAll, TypeRest, PCs
    <2>3. QED
      BY <2>1, <2>2
  <1>2. CASE Fetch
    <2>1. TypeBool'
      BY <1>0, <1>2, Zenon DEF Fetch, BaseFails, TypeBool
    <2>2. TypeRest'
      BY <1>0, <1>2 DEF Fetch, BaseFails, TypeRest, PCs
    <2>3. QED
      BY <2>1, <2>2
  <1>3. CASE Decompress
    <2>1. TypeBool'
      BY <1>0, <1>3, Zenon DEF Decompress, BaseFails, TypeBool
    <2>2. TypeRest'
      BY <1>0, <1>3 DEF Decompress, BaseFails, TypeRest, PCs
    <2>3. QED
      BY <2>1, <2>2
  <1>4. CASE CreateTemp
    <2>1. TypeBool'
      BY <1>0, <1>4, Zenon DEF CreateTemp, BaseFails, TypeBool
    <2>2. TypeRest'
      BY <1>0, <1>4 DEF CreateTemp, BaseFails, TypeRest, PCs
    <2>3. QED
      BY <2>1, <2>2
  <1>5. CASE CopySnapshot
    <2>1. TypeBool'
      BY <1>0, <1>5, Zenon DEF CopySnapshot, BaseFails, TypeBool
    <2>2. TypeRest'
      BY <1>0, <1>5 DEF CopySnapshot, BaseFails, TypeRest, PCs
    <2>3. QED
      BY <2>1, <2>2
  <1>6. CASE RestoreBase
    <2>1. TypeBool'
      BY <1>0, <1>6, Zenon DEF RestoreBase, BaseFails, TypeBool
    <2>2. TypeRest'
      BY <1>0, <1>6 DEF RestoreBase, BaseFails, TypeRest, PCs
    <2>3. QED
      BY <2>1, <2>2
  <1>7. CASE BaseReturn
    <2>1. TypeBool'
      BY <1>0, <1>7, Zenon DEF BaseReturn, TypeBool
    <2>2. TypeRest'
      BY <1>0, <1>7 DEF BaseReturn, TypeRest, PCs
    <2>3. QED
      BY <2>1, <2>2
  <1>8. CASE NoDeltas
    <2>1. TypeBool'
      BY <1>0, <1>8, Zenon DEF NoDeltas, TypeBool
    <2>2. TypeRest'
      BY <1>0, <1>8 DEF NoDeltas, TypeRest, PCs
    <2>3. QED
      BY <2>1, <2>2
  <1>9. CASE StartEtcd
    <2>1. TypeBool'
      BY <1>0, <1>9, Zenon DEF StartEtcd, ReturnErr, TypeBool
    <2>2. TypeRest'
      BY <1>0, <1>9 DEF StartEtcd, ReturnErr, TypeRest, PCs
    <2>3. QED
      BY <2>1, <2>2
  <1>10. CASE ApplyStep
    <2>1. TypeBool'
      BY <1>0, <1>10, Zenon DEF ApplyStep, TypeBool
    <2>2. written' \in Seq(0 .. NumDeltas - 1) /\ outcome' \in {"none", "nil", "err"}
      BY <1>0, <1>10, PipelineStep DEF ApplyStep, TypeRest
    <2>3. TypeRest'
      BY <1>0, <1>10, <2>2 DEF ApplyStep, TypeRest
    <2>4. QED
      BY <2>1, <2>3
  <1>11. CASE ApplyReturn
    <2>1. TypeBool'
      BY <1>0, <1>11, Zenon DEF ApplyReturn, ReturnErr, TypeBool
    <2>2. TypeRest'
      BY <1>0, <1>11 DEF ApplyReturn, ReturnErr, TypeRest, PCs
    <2>3. QED
      BY <2>1, <2>2
  <1>12. CASE UpdateMember
    <2>1. TypeBool'
      BY <1>0, <1>12, Zenon DEF UpdateMember, ReturnErr, TypeBool
    <2>2. TypeRest'
      BY <1>0, <1>12 DEF UpdateMember, ReturnErr, TypeRest, PCs
    <2>3. QED
      BY <2>1, <2>2
  <1>13. CASE RemoveAll
    <2>1. TypeBool'
      BY <1>0, <1>13, Zenon DEF RemoveAll, TypeBool
    <2>2. TypeRest'
      BY <1>0, <1>13 DEF RemoveAll, TypeRest, PCs
    <2>3. QED
      BY <2>1, <2>2
  <1>14. CASE StopEtcd
    <2>1. TypeBool'
      BY <1>0, <1>14, Zenon DEF StopEtcd, TypeBool
    <2>2. TypeRest'
      BY <1>0, <1>14 DEF StopEtcd, TypeRest, PCs
    <2>3. QED
      BY <2>1, <2>2
  <1>15. CASE Done \/ UNCHANGED vars
    BY <1>0, <1>15 DEF Done, vars, TypeBool, TypeRest
  <1>16. QED
    BY <1>1, <1>2, <1>3, <1>4, <1>5, <1>6, <1>7, <1>8, <1>9, <1>10, <1>11,
       <1>12, <1>13, <1>14, <1>15 DEF Next

(***************************************************************************)
(* Every state of RestoreAndStopEtcd is well typed, for every number of    *)
(* deltas: in particular the deltas DeltaApply reports as written to the   *)
(* embedded etcd are always indices of ro.DeltaSnapList.                   *)
(***************************************************************************)
THEOREM RestorerTypeCorrect == Spec => []TypeOK
  <1>1. Init => TypeOK
    BY RInit DEF RInv
  <1>2. QED
    BY <1>1, TypeStep, PTL DEF Spec

THEOREM RStep == RInv /\ [Next]_vars => RInv'
  <1> SUFFICES ASSUME RInv, [Next]_vars PROVE RInv'
    OBVIOUS
  <1> USE DEF PCs
  <1>0. TypeOK'
    BY TypeStep DEF RInv
  <1>1. CASE MkdirAll
    BY <1>0, <1>1 DEF MkdirAll, RInv, Restored
  <1>2. CASE Fetch
    BY <1>0, <1>2 DEF Fetch, BaseFails, RInv, Restored
  <1>3. CASE Decompress
    BY <1>0, <1>3 DEF Decompress, BaseFails, RInv, Restored
  <1>4. CASE CreateTemp
    BY <1>0, <1>4 DEF CreateTemp, BaseFails, RInv, Restored
  <1>5. CASE CopySnapshot
    BY <1>0, <1>5 DEF CopySnapshot, BaseFails, RInv, Restored
  <1>6. CASE RestoreBase
    BY <1>0, <1>6 DEF RestoreBase, BaseFails, RInv, Restored
  <1>7. CASE BaseReturn
    <2>1. CASE err = "err"
      BY <1>0, <1>7, <2>1 DEF BaseReturn, RInv, Restored
    <2>2. CASE err # "err"
      <3>1. err = "none"
        BY <1>7, <2>2 DEF BaseReturn, RInv, TypeOK
      <3>2. QED
        BY <1>0, <1>7, <2>2, <3>1 DEF BaseReturn, RInv, Restored
    <2>3. QED
      BY <2>1, <2>2
  <1>8. CASE NoDeltas
    <2>1. CASE ~hasDeltas /\ Go("removeAll") /\ err' = "nil"
      BY <1>0, <1>8, <2>1 DEF NoDeltas, RInv, Restored
    <2>2. CASE hasDeltas /\ Go("start") /\ UNCHANGED err
      BY <1>0, <1>8, <2>2 DEF NoDeltas, RInv, Restored
    <2>3. QED
      BY <1>8, <2>1, <2>2 DEF NoDeltas
  <1>9. CASE StartEtcd
    BY <1>0, <1>9 DEF StartEtcd, ReturnErr, RInv, Restored
  <1>10. CASE ApplyStep
    <2>1. outcome' = "nil" => Len(written') = NumDeltas
      BY <1>10, PipelineStep DEF ApplyStep, RInv, TypeOK
    <2>2. QED
      BY <1>0, <1>10, <2>1 DEF ApplyStep, RInv, Restored
  <1>11. CASE ApplyReturn
    <2>1. CASE outcome = "err"
      BY <1>0, <1>11, <2>1 DEF ApplyReturn, ReturnErr, RInv, Restored
    <2>2. CASE outcome # "err"
      <3>1. outcome = "nil" /\ pc' = "member" /\ err' = err
        BY <1>11, <2>2 DEF ApplyReturn, RInv, TypeOK
      <3>2. QED
        BY <1>0, <1>11, <3>1 DEF ApplyReturn, RInv, Restored
    <2>3. QED
      BY <2>1, <2>2
  <1>12. CASE UpdateMember
    BY <1>0, <1>12 DEF UpdateMember, ReturnErr, RInv, Restored
  <1>13. CASE RemoveAll
    BY <1>0, <1>13 DEF RemoveAll, RInv, Restored
  <1>14. CASE StopEtcd
    BY <1>0, <1>14 DEF StopEtcd, RInv, Restored
  <1>15. CASE Done \/ UNCHANGED vars
    BY <1>0, <1>15 DEF Done, vars, RInv, Restored
  <1>16. QED
    BY <1>1, <1>2, <1>3, <1>4, <1>5, <1>6, <1>7, <1>8, <1>9, <1>10, <1>11,
       <1>12, <1>13, <1>14, <1>15 DEF Next

(***************************************************************************)
(* RestoreAndStopEtcd never leaves the embedded etcd running: every       *)
(* return of Restore after StartEmbeddedEtcd succeeded (lines 367-398)     *)
(* hands the server back, and the deferred Stop of lines 332-337 stops it. *)
(***************************************************************************)
THEOREM NoLeak == Spec => []NoEtcdLeak
  <1>1. RInv => NoEtcdLeak
    BY DEF RInv, NoEtcdLeak
  <1>2. QED
    BY <1>1, RInit, RStep, PTL DEF Spec

(***************************************************************************)
(* RestoreAndStopEtcd returns nil only after the base snapshot was         *)
(* restored (when a base path was given), every delta was written and the  *)
(* member's peer URL was updated (when m # nil), for every number of       *)
(* deltas: no early return of Restore reports success.                     *)
(***************************************************************************)
THEOREM RestoreSound == Spec => []SuccessMeansRestored
  <1>1. RInv => SuccessMeansRestored
    BY DEF RInv, Restored, SuccessMeansRestored
  <1>2. QED
    BY <1>1, RInit, RStep, PTL DEF Spec

=============================================================================
