--------------------------- MODULE RestorePipeline ---------------------------
(***************************************************************************)
(* The parallel part of delta-snapshot restoration in                      *)
(* pkg/snapshot/restorer (src/pkg/types/restorer.go): applyDeltaSnapshots  *)
(* from the moment the first delta has been applied and the goroutines     *)
(* have been spawned (line 541), the fetchSnaps workers, the applySnaps    *)
(* goroutine, the HandleAlarm goroutine, MakeEtcdLeanAndCheckAlarm and     *)
(* cleanup.                                                                *)
(*                                                                         *)
(* Deltas are the indices 0..NumSnaps-1 of remainingSnaps.  A file path is *)
(* identified with the index of the delta it holds; the transient etcd is  *)
(* the sequence of deltas whose events were written to it.  Every RPC or   *)
(* file operation that can fail is a nondeterministic choice.              *)
(***************************************************************************)
EXTENDS Integers, Sequences, FiniteSets

CONSTANTS
    NumSnaps,          \* len(remainingSnaps) = len(DeltaSnapList) - 1
    MaxFetchers,       \* ro.Config.MaxFetchers
    LeanInterval,      \* periodicallyMakeEtcdLeanDeltaSnapshotInterval (10)
    MaxFetcherFaults   \* bound on failed Fetch / persist calls in one run

ASSUME ConstantsAssumption ==
    /\ NumSnaps \in Nat \ {0}
    /\ MaxFetchers \in Nat \ {0}
    /\ LeanInterval \in Nat \ {0}
    /\ MaxFetcherFaults \in Nat

\* numFetchers = min(numMaxFetchers, numSnaps) (line 523)
NumFetchers == IF MaxFetchers < NumSnaps THEN MaxFetchers ELSE NumSnaps

Idx == 0 .. NumSnaps - 1
Fetchers == 0 .. NumFetchers - 1
Sentinel == -1                      \* ApplierInfo{SnapIndex: -1}
ErrCap == NumFetchers + 1           \* cap(errCh), line 525
ErrVals == {"nil", "err"}           \* a value sent on errCh

FetcherPCs == {"unstarted", "range", "select", "errFetch", "sentinelFetch",
               "persistNil", "persist", "errPersist", "sentinelPersist",
               "loc", "info", "done"}
ApplierPCs == {"unstarted", "select", "read", "apply", "lean", "alarm",
               "disarm", "sendErr", "sendNil", "done"}
HandlerPCs == {"unstarted", "select", "defrag", "disarm", "done"}
OrchPCs    == {"dispatch", "wait", "cleanup", "join", "drain", "returned"}

VARIABLES
    orch,        \* control point of applyDeltaSnapshots / cleanup
    result,      \* the err it returns: "none" until it returns
    fetcherQ,    \* fetcherInfoCh: snap indices not yet taken
    fpc,         \* control point of each fetchSnaps goroutine
    fcur,        \* fetcherInfo.SnapIndex each fetcher is working on
    faults,      \* fetcher-side failures injected so far
    apc,         \* control point of applySnaps
    nextIdx,     \* nextSnapIndexToApply
    pathList,    \* indices i with pathList[i] # ""
    cur,         \* currSnapIndex of the inner apply loop
    applied,     \* numberOfDeltaSnapApplied
    prevFailed,  \* prevAttemptToMakeEtcdLeanFailed
    sinceLean,   \* deltas applied since the last lean attempt (history)
    hpc,         \* control point of HandleAlarm
    disarmVal,   \* the bool HandleAlarm is about to send on dbSizeAlarmDisarmCh
    errCh,       \* buffered errCh, as a sequence of ErrVals
    applierCh,   \* buffered applierInfoCh, as a sequence of snap indices
    snapLocs,    \* buffered snapLocationsCh, as a sequence of snap indices
    tempFiles,   \* delta files present in the temp directory
    etcd,        \* deltas written to the transient etcd, in order
    crashed      \* the process died of a panic

vars == <<orch, result, fetcherQ, fpc, fcur, faults, apc, nextIdx, pathList,
          cur, applied, prevFailed, sinceLean, hpc, disarmVal, errCh,
          applierCh, snapLocs, tempFiles, etcd, crashed>>

fetcherVars == <<fpc, fcur, faults>>
applierVars == <<apc, nextIdx, pathList, cur, applied, prevFailed, sinceLean>>
handlerVars == <<hpc, disarmVal>>
chanVars == <<errCh, applierCh, snapLocs>>

\* Channel states derived from the orchestrator's progress.
StopClosed == orch \in {"join", "drain", "returned"}     \* close(stopCh), line 573
SnapLocsClosed == orch \in {"drain", "returned"}         \* line 575
StopHandleAlarmClosed == orch = "returned"               \* deferred close, line 542
\* A goroutine that has not run wg.Add(1) yet is not waited for (lines 602, 639).
NotRunning(pc) == pc \in {"unstarted", "done"}

-----------------------------------------------------------------------------
(* Orchestrator: applyDeltaSnapshots after the go statements.              *)

\* Lines 544-551: enqueue every remaining snap, then close(fetcherInfoCh).
Dispatch ==
    /\ ~crashed
    /\ orch = "dispatch"
    /\ fetcherQ' = [k \in 1 .. NumSnaps |-> k - 1]
    /\ orch' = "wait"
    /\ UNCHANGED <<result, fetcherVars, applierVars, handlerVars, chanVars,
                   tempFiles, etcd, crashed>>

\* Line 553: err = <-errCh.
ReceiveErr ==
    /\ ~crashed
    /\ orch = "wait"
    /\ errCh # <<>>
    /\ result' = Head(errCh)
    /\ errCh' = Tail(errCh)
    /\ orch' = "cleanup"
    /\ UNCHANGED <<fetcherQ, fetcherVars, applierVars, handlerVars,
                   applierCh, snapLocs, tempFiles, etcd, crashed>>

\* Line 573: close(stopCh).
CloseStop ==
    /\ ~crashed
    /\ orch = "cleanup"
    /\ orch' = "join"
    /\ UNCHANGED <<result, fetcherQ, fetcherVars, applierVars, handlerVars,
                   chanVars, tempFiles, etcd, crashed>>

\* Mutant: cleanup does not wait for the goroutines.
JoinNoWait ==
    /\ ~crashed
    /\ orch = "join"
    /\ orch' = "drain"
    /\ UNCHANGED <<result, fetcherQ, fetcherVars, applierVars, handlerVars,
                   chanVars, tempFiles, etcd, crashed>>

\* Line 574: wg.Wait() returns once every goroutine that ran wg.Add(1) has
\* run wg.Done(); then close(snapLocationsCh), line 575.
Join ==
    /\ ~crashed
    /\ orch = "join"
    /\ \A f \in Fetchers : NotRunning(fpc[f])
    /\ NotRunning(apc)
    /\ orch' = "drain"
    /\ UNCHANGED <<result, fetcherQ, fetcherVars, applierVars, handlerVars,
                   chanVars, tempFiles, etcd, crashed>>

\* Mutant: the loop forgets os.Remove.
DrainLocNoRemove ==
    /\ ~crashed
    /\ orch = "drain"
    /\ snapLocs # <<>>
    /\ snapLocs' = Tail(snapLocs)
    /\ UNCHANGED <<orch, result, fetcherQ, fetcherVars, applierVars,
                   handlerVars, errCh, applierCh, tempFiles, etcd, crashed>>

\* Lines 577-588: one iteration of the loop removing a persisted file.
DrainLoc ==
    /\ ~crashed
    /\ orch = "drain"
    /\ snapLocs # <<>>
    /\ tempFiles' = tempFiles \ {Head(snapLocs)}
    /\ snapLocs' = Tail(snapLocs)
    /\ UNCHANGED <<orch, result, fetcherQ, fetcherVars, applierVars,
                   handlerVars, errCh, applierCh, etcd, crashed>>

\* Lines 559-566 and the deferred close(stopHandleAlarmCh) of line 542.
Return ==
    /\ ~crashed
    /\ orch = "drain"
    /\ snapLocs = <<>>
    /\ orch' = "returned"
    /\ UNCHANGED <<result, fetcherQ, fetcherVars, applierVars, handlerVars,
                   chanVars, tempFiles, etcd, crashed>>

Orchestrator ==
    Dispatch \/ ReceiveErr \/ CloseStop \/ Join \/ DrainLoc \/ Return

-----------------------------------------------------------------------------
(* fetchSnaps (lines 600-634), one goroutine per f \in Fetchers.           *)

\* Fetcher f moves to control point pc, nothing else of fetcher f changes.
GoF(f, pc) == fpc' = [fpc EXCEPT ![f] = pc]

\* A fetcher may inject one more failure.
CanFail == faults < MaxFetcherFaults

\* Lines 601-602: the goroutine starts and runs wg.Add(1).
FetcherStart(f) ==
    /\ ~crashed
    /\ fpc[f] = "unstarted"
    /\ GoF(f, "range")
    /\ UNCHANGED <<orch, result, fetcherQ, fcur, faults, applierVars,
                   handlerVars, chanVars, tempFiles, etcd, crashed>>

\* Mutant: fetcherInfoCh is never closed, so the range never ends.
FetcherRangeNoClose(f) ==
    /\ ~crashed
    /\ fpc[f] = "range"
    /\ orch # "dispatch"
    /\ fetcherQ # <<>>
    /\ fcur' = [fcur EXCEPT ![f] = Head(fetcherQ)]
    /\ fetcherQ' = Tail(fetcherQ)
    /\ GoF(f, "select")
    /\ UNCHANGED <<orch, result, faults, applierVars, handlerVars, chanVars,
                   tempFiles, etcd, crashed>>

\* Line 604: for fetcherInfo := range fetcherInfoCh.  The range ends when
\* the channel is closed and empty (wg.Done, line 601); it blocks before
\* Dispatch.
FetcherRange(f) ==
    /\ ~crashed
    /\ fpc[f] = "range"
    /\ orch # "dispatch"
    /\ \/ /\ fetcherQ # <<>>
          /\ fcur' = [fcur EXCEPT ![f] = Head(fetcherQ)]
          /\ fetcherQ' = Tail(fetcherQ)
          /\ GoF(f, "select")
       \/ /\ fetcherQ = <<>>
          /\ GoF(f, "done")
          /\ UNCHANGED <<fetcherQ, fcur>>
    /\ UNCHANGED <<orch, result, faults, applierVars, handlerVars, chanVars,
                   tempFiles, etcd, crashed>>

\* Lines 605-613: the select takes the closed stopCh if it is closed,
\* otherwise the default branch calls r.store.Fetch, which may fail.
FetcherSelect(f) ==
    /\ ~crashed
    /\ fpc[f] = "select"
    /\ \/ /\ StopClosed
          /\ GoF(f, "done")
          /\ UNCHANGED faults
       \/ /\ ~StopClosed
          /\ GoF(f, "persist")
          /\ UNCHANGED faults
       \/ /\ ~StopClosed
          /\ CanFail
          /\ GoF(f, "errFetch")
          /\ faults' = faults + 1
    /\ UNCHANGED <<orch, result, fetcherQ, fcur, applierVars, handlerVars,
                   chanVars, tempFiles, etcd, crashed>>

\* A blocking send of v on the buffered errCh, then control point pc.
SendErrF(f, v, pc) ==
    /\ ~crashed
    /\ Len(errCh) < ErrCap
    /\ errCh' = Append(errCh, v)
    /\ GoF(f, pc)
    /\ UNCHANGED <<orch, result, fetcherQ, fcur, faults, applierVars,
                   handlerVars, applierCh, snapLocs, tempFiles, etcd, crashed>>

\* A blocking send of m on the buffered applierInfoCh (capacity numSnaps).
SendInfoF(f, m, pc) ==
    /\ ~crashed
    /\ Len(applierCh) < NumSnaps
    /\ applierCh' = Append(applierCh, m)
    /\ GoF(f, pc)
    /\ UNCHANGED <<orch, result, fetcherQ, fcur, faults, applierVars,
                   handlerVars, errCh, snapLocs, tempFiles, etcd, crashed>>

\* Line 615: errCh <- fetch error.
FetcherErrFetch(f) == fpc[f] = "errFetch" /\ SendErrF(f, "err", "sentinelFetch")

\* Line 616: applierInfoCh <- ApplierInfo{SnapIndex: -1}.  No return or
\* continue follows: the goroutine goes on to line 619.
FetcherSentinelFetch(f) ==
    fpc[f] = "sentinelFetch" /\ SendInfoF(f, Sentinel, "persistNil")

\* Lines 619-620 after a failed Fetch: persistRawDeltaSnapshot with the nil
\* ReadCloser.  os.Create (line 799) may fail, giving a persist error;
\* otherwise it creates the file and tempFile.ReadFrom(nil) (line 808)
\* calls Read on a nil io.Reader, a panic that ends the process.
FetcherPersistNil(f) ==
    /\ ~crashed
    /\ fpc[f] = "persistNil"
    /\ \/ /\ GoF(f, "errPersist")
          /\ UNCHANGED <<tempFiles, crashed>>
       \/ /\ tempFiles' = tempFiles \cup {fcur[f]}
          /\ crashed' = TRUE
          /\ UNCHANGED fpc
    /\ UNCHANGED <<orch, result, fetcherQ, fcur, faults, applierVars,
                   handlerVars, chanVars, etcd>>

\* Lines 619-623 and persistRawDeltaSnapshot (798-814): os.Create, ReadFrom
\* and Close.  Success leaves the file; a failure of Create leaves none, a
\* failure of ReadFrom or Close leaves a partial or complete file.
FetcherPersist(f) ==
    /\ ~crashed
    /\ fpc[f] = "persist"
    /\ \/ /\ tempFiles' = tempFiles \cup {fcur[f]}
          /\ GoF(f, "loc")
          /\ UNCHANGED faults
       \/ /\ CanFail
          /\ \E created \in BOOLEAN :
                tempFiles' = IF created THEN tempFiles \cup {fcur[f]}
                                        ELSE tempFiles
          /\ GoF(f, "errPersist")
          /\ faults' = faults + 1
    /\ UNCHANGED <<orch, result, fetcherQ, fcur, applierVars, handlerVars,
                   chanVars, etcd, crashed>>

\* Line 621: errCh <- persist error.
FetcherErrPersist(f) ==
    fpc[f] = "errPersist" /\ SendErrF(f, "err", "sentinelPersist")

\* Line 622: the sentinel again; no return follows, the goroutine goes on
\* to line 625.
FetcherSentinelPersist(f) ==
    fpc[f] = "sentinelPersist" /\ SendInfoF(f, Sentinel, "loc")

\* Line 625: snapLocationsCh <- snapTempFilePath.  A send on the channel
\* after cleanup closed it (line 575) would panic.
FetcherLoc(f) ==
    /\ ~crashed
    /\ fpc[f] = "loc"
    /\ Len(snapLocs) < NumSnaps
    /\ snapLocs' = Append(snapLocs, fcur[f])
    /\ GoF(f, "info")
    /\ crashed' = (crashed \/ SnapLocsClosed)
    /\ UNCHANGED <<orch, result, fetcherQ, fcur, faults, applierVars,
                   handlerVars, errCh, applierCh, tempFiles, etcd>>

\* Lines 627-631: applierInfoCh <- ApplierInfo{path, SnapIndex}, then the
\* next iteration of the range loop.
FetcherInfo(f) == fpc[f] = "info" /\ SendInfoF(f, fcur[f], "range")

Fetcher(f) ==
    \/ FetcherStart(f) \/ FetcherRange(f) \/ FetcherSelect(f)
    \/ FetcherErrFetch(f) \/ FetcherSentinelFetch(f) \/ FetcherPersistNil(f)
    \/ FetcherPersist(f) \/ FetcherErrPersist(f) \/ FetcherSentinelPersist(f)
    \/ FetcherLoc(f) \/ FetcherInfo(f)

-----------------------------------------------------------------------------
(* applySnaps (lines 637-730) and the lean-keeping it drives.             *)

\* Lines 638-652: the goroutine starts and runs wg.Add(1).
ApplierStart ==
    /\ ~crashed
    /\ apc = "unstarted"
    /\ apc' = "select"
    /\ UNCHANGED <<orch, result, fetcherQ, fetcherVars, nextIdx, pathList,
                   cur, applied, prevFailed, sinceLean, handlerVars, chanVars,
                   tempFiles, etcd, crashed>>

\* Mutant: any index not below nextSnapIndexToApply is applied at once.
InOrderAny(m, n) == m >= n

\* Line 671: the received index is the one to apply next.
InOrder(m, n) == m = n

\* Lines 654-671: the select takes the closed stopCh or the next
\* ApplierInfo, whichever Go picks when both are ready.  A sentinel ends the
\* goroutine; otherwise the path is recorded before the index is checked
\* against nextSnapIndexToApply.
ApplierSelect ==
    /\ ~crashed
    /\ apc = "select"
    /\ \/ /\ StopClosed
          /\ apc' = "done"
          /\ UNCHANGED <<applierCh, pathList, cur>>
       \/ /\ applierCh # <<>>
          /\ applierCh' = Tail(applierCh)
          /\ LET m == Head(applierCh) IN
             IF m = Sentinel
             THEN apc' = "done" /\ UNCHANGED <<pathList, cur>>
             ELSE /\ pathList' = pathList \cup {m}
                  /\ apc' = CASE m < nextIdx        -> "sendErr"
                              [] InOrder(m, nextIdx) -> "read"
                              [] OTHER               -> "select"
                  /\ cur' = IF InOrder(m, nextIdx) THEN m ELSE cur
    /\ UNCHANGED <<orch, result, fetcherQ, fetcherVars, nextIdx, applied,
                   prevFailed, sinceLean, handlerVars, errCh, snapLocs,
                   tempFiles, etcd, crashed>>

\* Lines 672-691 with readSnapshotContentsFromFile (926-933) and
\* readSnapshotContentsFromReadCloser (883-924): the loop stops at the first
\* index without a path; otherwise the file is opened, decompressed, its
\* SHA-256 checked and its events unmarshalled, any of which may fail.  A
\* file that is no longer on disk fails to open.
ApplierRead ==
    /\ ~crashed
    /\ apc = "read"
    /\ IF cur < NumSnaps /\ cur \in pathList
       THEN \/ cur \in tempFiles /\ apc' = "apply"
            \/ apc' = "sendErr"
       ELSE apc' = "select"
    /\ UNCHANGED <<orch, result, fetcherQ, fetcherVars, nextIdx, pathList,
                   cur, applied, prevFailed, sinceLean, handlerVars, chanVars,
                   tempFiles, etcd, crashed>>

\* Mutant: a failed attempt is not retried after the next delta.
LeanDueNoRetry(n, failedBefore) == n % LeanInterval = 0

\* The lean check of line 712, made after numberOfDeltaSnapApplied++.
LeanDue(n, failedBefore) == n % LeanInterval = 0 \/ failedBefore

\* Mutant: completion is reported one delta early.
FinishedEarly(n) == n = NumSnaps - 1

\* Mutant: completion is never detected.
FinishedNever(n) == n = NumSnaps + 1

\* Line 705: nextSnapIndexToApply == len(remainingSnaps).
Finished(n) == n = NumSnaps

\* Lines 693-711 with applyEventsAndVerify (733-742): the events are written
\* transaction by transaction and the revision verified; a failure may come
\* after some transactions were committed.  On success the file is removed,
\* nextSnapIndexToApply advances, the last delta reports nil on errCh, and
\* otherwise the counter advances and decides on a lean attempt.
ApplierApply ==
    /\ ~crashed
    /\ apc = "apply"
    /\ \/ /\ etcd' = Append(etcd, cur)
          /\ tempFiles' = tempFiles \ {cur}
          /\ nextIdx' = nextIdx + 1
          /\ sinceLean' = sinceLean + 1
          /\ IF Finished(nextIdx + 1)
             THEN apc' = "sendNil" /\ UNCHANGED <<applied, cur>>
             ELSE /\ applied' = applied + 1
                  /\ IF LeanDue(applied + 1, prevFailed)
                     THEN apc' = "lean" /\ UNCHANGED cur
                     ELSE apc' = "read" /\ cur' = cur + 1
       \/ /\ etcd' \in {etcd, Append(etcd, cur)}
          /\ apc' = "sendErr"
          /\ UNCHANGED <<tempFiles, nextIdx, sinceLean, applied, cur>>
    /\ UNCHANGED <<orch, result, fetcherQ, fetcherVars, pathList, prevFailed,
                   handlerVars, chanVars, crashed>>

\* MakeEtcdLeanAndCheckAlarm (981-1003) as called at lines 714-724:
\* Compact and Status may fail (prevAttemptToMakeEtcdLeanFailed = true);
\* below the 80% threshold the attempt succeeds; above it the alarm is
\* raised on the single endpoint.
ApplierLean ==
    /\ ~crashed
    /\ apc = "lean"
    /\ sinceLean' = 0
    /\ \/ /\ prevFailed' = TRUE
          /\ apc' = "read" /\ cur' = cur + 1
       \/ /\ prevFailed' = FALSE
          /\ apc' = "read" /\ cur' = cur + 1
       \/ /\ apc' = "alarm"
          /\ UNCHANGED <<prevFailed, cur>>
    /\ UNCHANGED <<orch, result, fetcherQ, fetcherVars, nextIdx, pathList,
                   applied, handlerVars, chanVars, tempFiles, etcd, crashed>>

\* Line 1006: dbSizeAlarmCh <- endPoint, an unbuffered send that meets the
\* receive of HandleAlarm's select (line 958).
ApplierAlarm ==
    /\ ~crashed
    /\ apc = "alarm"
    /\ hpc = "select"
    /\ apc' = "disarm"
    /\ hpc' = "defrag"
    /\ UNCHANGED <<orch, result, fetcherQ, fetcherVars, nextIdx, pathList,
                   cur, applied, prevFailed, sinceLean, disarmVal, chanVars,
                   tempFiles, etcd, crashed>>

\* Lines 1008-1012: <-dbSizeAlarmDisarmCh meets HandleAlarm's send (971 or
\* 974); false fails the lean attempt.  Then back to the apply loop.
ApplierDisarm ==
    /\ ~crashed
    /\ apc = "disarm"
    /\ hpc = "disarm"
    /\ prevFailed' = ~disarmVal
    /\ apc' = "read" /\ cur' = cur + 1
    /\ hpc' = "select"
    /\ UNCHANGED <<orch, result, fetcherQ, fetcherVars, nextIdx, pathList,
                   applied, sinceLean, disarmVal, chanVars, tempFiles, etcd,
                   crashed>>

\* A blocking send of v on errCh, after which applySnaps returns.
ApplierSend(pc, v) ==
    /\ ~crashed
    /\ apc = pc
    /\ Len(errCh) < ErrCap
    /\ errCh' = Append(errCh, v)
    /\ apc' = "done"
    /\ UNCHANGED <<orch, result, fetcherQ, fetcherVars, nextIdx, pathList,
                   cur, applied, prevFailed, sinceLean, handlerVars,
                   applierCh, snapLocs, tempFiles, etcd, crashed>>

\* Lines 668, 683, 689, 695: errCh <- err; return.
ApplierSendErr == ApplierSend("sendErr", "err")

\* Line 706: errCh <- nil; return.
ApplierSendNil == ApplierSend("sendNil", "nil")

-----------------------------------------------------------------------------
(* HandleAlarm (lines 951-978).                                            *)

HandlerStart ==
    /\ ~crashed
    /\ hpc = "unstarted"
    /\ hpc' = "select"
    /\ UNCHANGED <<orch, result, fetcherQ, fetcherVars, applierVars,
                   disarmVal, chanVars, tempFiles, etcd, crashed>>

\* Line 955: the closed stopHandleAlarmCh ends the loop.
HandlerStop ==
    /\ ~crashed
    /\ hpc = "select"
    /\ StopHandleAlarmClosed
    /\ hpc' = "done"
    /\ UNCHANGED <<orch, result, fetcherQ, fetcherVars, applierVars,
                   disarmVal, chanVars, tempFiles, etcd, crashed>>

\* Lines 961-968: Defragment on the endpoint, which may fail.
HandlerDefrag ==
    /\ ~crashed
    /\ hpc = "defrag"
    /\ disarmVal' \in BOOLEAN
    /\ hpc' = "disarm"
    /\ UNCHANGED <<orch, result, fetcherQ, fetcherVars, applierVars,
                   chanVars, tempFiles, etcd, crashed>>

-----------------------------------------------------------------------------

Applier ==
    \/ ApplierStart \/ ApplierSelect \/ ApplierRead \/ ApplierApply
    \/ ApplierLean \/ ApplierAlarm \/ ApplierDisarm
    \/ ApplierSendErr \/ ApplierSendNil

Handler == HandlerStart \/ HandlerStop \/ HandlerDefrag

Init ==
    /\ orch = "dispatch"
    /\ result = "none"
    /\ fetcherQ = <<>>
    /\ fpc = [f \in Fetchers |-> "unstarted"]
    /\ fcur = [f \in Fetchers |-> 0]
    /\ faults = 0
    /\ apc = "unstarted"
    /\ nextIdx = 0
    /\ pathList = {}
    /\ cur = 0
    /\ applied = 1                  \* the first delta was applied (line 645)
    /\ prevFailed = FALSE
    /\ sinceLean = 1
    /\ hpc = "unstarted"
    /\ disarmVal = FALSE
    /\ errCh = <<>>
    /\ applierCh = <<>>
    /\ snapLocs = <<>>
    /\ tempFiles = {}
    /\ etcd = <<>>
    /\ crashed = FALSE

\* Every goroutine has returned, or the process has died.
AllDone ==
    \/ crashed
    \/ /\ orch = "returned"
       /\ \A f \in Fetchers : fpc[f] = "done"
       /\ apc = "done"
       /\ hpc = "done"

Next ==
    \/ Orchestrator
    \/ \E f \in Fetchers : Fetcher(f)
    \/ Applier
    \/ Handler
    \/ AllDone /\ UNCHANGED vars

\* The Go scheduler eventually runs every runnable goroutine.
Fairness ==
    /\ WF_vars(Orchestrator)
    /\ \A f \in Fetchers : WF_vars(Fetcher(f))
    /\ WF_vars(Applier)
    /\ WF_vars(Handler)

Spec == Init /\ [][Next]_vars /\ Fairness

-----------------------------------------------------------------------------
(* Properties.                                                             *)

\* The type of every variable.
TypeOK ==
    /\ orch \in OrchPCs
    /\ result \in ErrVals \cup {"none"}
    /\ fetcherQ \in Seq(Idx)
    /\ fpc \in [Fetchers -> FetcherPCs]
    /\ fcur \in [Fetchers -> Idx]
    /\ faults \in 0 .. MaxFetcherFaults
    /\ apc \in ApplierPCs
    /\ nextIdx \in 0 .. NumSnaps
    /\ pathList \in SUBSET Idx
    /\ cur \in Idx
    /\ applied \in Nat \ {0}
    /\ prevFailed \in BOOLEAN
    /\ sinceLean \in Nat
    /\ hpc \in HandlerPCs
    /\ disarmVal \in BOOLEAN
    /\ errCh \in Seq(ErrVals)
    /\ applierCh \in Seq(Idx \cup {Sentinel})
    /\ snapLocs \in Seq(Idx)
    /\ tempFiles \in SUBSET Idx
    /\ etcd \in Seq(Idx)
    /\ crashed \in BOOLEAN

\* The deltas written to the transient etcd are 0, 1, 2, ... in this order,
\* none skipped and none twice, whatever order the fetchers finish in
\* (applySnaps' reordering through pathList and nextSnapIndexToApply).
AppliedInOrder == etcd = [k \in 1 .. Len(etcd) |-> k - 1]

\* applyDeltaSnapshots returns nil only when every remaining delta was
\* written to the transient etcd (the first value received on errCh,
\* line 553, decides the result).
SuccessImpliesComplete ==
    result = "nil" => etcd = [k \in 1 .. NumSnaps |-> k - 1]

\* While applySnaps waits for or applies deltas, fewer than LeanInterval
\* deltas have been applied since the last compaction attempt, and after a
\* failed attempt none has (lines 710-724: the periodic trigger counts the
\* first delta, and a failure forces a retry after the next delta).
LeanCadence ==
    (apc \in {"select", "read"} /\ nextIdx > 0) =>
        /\ sinceLean < LeanInterval
        /\ prevFailed => sinceLean = 0

\* When applyDeltaSnapshots returns, cleanup has removed every delta file it
\* persisted (cleanup, lines 569-597).
CleanupRemovesFiles == orch = "returned" => tempFiles = {}

\* Every goroutine of the pipeline eventually returns (or the process dies):
\* cleanup's wg.Wait() (line 574) is not blocked forever.
Termination == <>AllDone

\* Once applyDeltaSnapshots has returned, no goroutine writes to the
\* transient etcd any more (the caller owns and stops it, lines 329-338).
NoApplyAfterReturn == [][orch = "returned" => etcd' = etcd]_vars

\* No fetcher is about to send on snapLocationsCh once cleanup has closed it
\* (line 575): a fetcher that registered with the WaitGroup is joined first,
\* and one that starts late sees the closed stopCh before persisting.
NoSendOnClosedSnapLocs ==
    SnapLocsClosed => \A f \in Fetchers : fpc[f] # "loc"

\* Whatever way the run ends (the pipeline returned or the process died),
\* no persisted delta file is left in the temporary directory.
NoFilesLeftAtEnd == AllDone => tempFiles = {}


\* applyDeltaSnapshots implements DeltaApply: read through the transient
\* etcd and the err it returns, every step of the fetchers, the applier, the
\* alarm handler and cleanup writes the next delta in order, decides the
\* err once (the single receive at line 553), returns nil only after the
\* last delta, or changes neither.
DeltaApplyAbs == INSTANCE DeltaApply WITH N <- NumSnaps, written <- etcd,
                                          outcome <- result

DeltaApplyRefined == DeltaApplyAbs!Spec

=============================================================================
