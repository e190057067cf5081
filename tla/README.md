# Verification of the etcd restore pipeline

This directory holds TLA+ models of the restorer in
`src/pkg/types/restorer.go`. It has TLC configurations that model-check them
on small instances, and TLAPS proofs of their main safety properties for
every value of the constants.

## 1. The system

`Restorer.Restore` rebuilds an etcd data directory in three steps:

1. It restores the base (full) snapshot.
2. It starts an embedded etcd.
3. It replays the delta snapshots on that etcd with `applyDeltaSnapshots`.

The first delta goes through `applyFirstDeltaSnapshot`, which skips events
already covered by the full snapshot. The remaining deltas go through a
concurrent pipeline.

| Part | Code | State | Operations |
|------|------|-------|------------|
| Orchestrator | `applyDeltaSnapshots` 520-567, `cleanup` 570-598 | channels `fetcherInfoCh`, `errCh` (cap numFetchers+1), `applierInfoCh` and `snapLocationsCh` (cap numSnaps); unbuffered `stopCh`, `stopHandleAlarmCh`, `dbSizeAlarmCh`, `dbSizeAlarmDisarmCh`; a `sync.WaitGroup` | start the goroutines; enqueue every delta and close `fetcherInfoCh`; take the first value of `errCh`; close `stopCh`; `wg.Wait`; close and drain `snapLocationsCh`, removing files; return; deferred close of `stopHandleAlarmCh` |
| Fetchers (numFetchers goroutines) | `fetchSnaps` 600-634, `persistRawDeltaSnapshot` 798-814 | the delta in hand; the temporary files on disk | range over `fetcherInfoCh`; check `stopCh`; `Fetch`; persist to a temp file; on failure send an error and a sentinel `SnapIndex: -1`; send the file location and the `ApplierInfo` |
| Applier | `applySnaps` 637-730 | `pathList` (reorder buffer), `nextSnapIndexToApply`, `currSnapIndex`, `numberOfDeltaSnapApplied`, `prevAttemptToMakeEtcdLeanFailed` | select on `stopCh` and `applierInfoCh`; buffer the delta; apply every consecutive buffered delta (read, apply, remove the file); send `nil` after the last; make the etcd lean every 10 deltas, or after a failed attempt |
| Alarm handler | `HandleAlarm` 951-978, `MakeEtcdLeanAndCheckAlarm` 981-1026 | none beyond its control point | compact and check the size; alarm rendezvous; defrag; send true or false on the disarm channel; stop on `stopHandleAlarmCh` |
| Event replay | `applyFirstDeltaSnapshot` 745-796, `applyEventsToEtcd` 817-846, `verifySnapshotRevision` 848-864 | etcd revision, events | skip the overlap with the full snapshot; batch events by revision into transactions; check the final revision |
| Integrity reading | 866-934 | none | decompress, check sha256 |
| Restore | `Restore` 342-399, `restoreFromBaseSnapshot` 402-476 | temp directory, data directory | make and remove the temp directory; base restore; run the pipeline; update the member |
| Configuration | `RestorationConfig` 52-160 | flags | `Validate`, deep copies |

How they interact:

- The orchestrator and the fetchers share `fetcherInfoCh`.
- The fetchers send to the applier on `applierInfoCh`, which carries out-of-order indices and sentinels.
- Everyone reports to the orchestrator on `errCh`.
- The fetchers tell the orchestrator's cleanup which files exist, on `snapLocationsCh`.
- The applier and the handler meet on the two unbuffered alarm channels.

What makes this code hard to test:

- the order in which fetchers finish;
- failures at each step (fetch, persist, read, apply, compaction, defrag);
- `wg.Add(1)` executed inside the goroutines, racing with `wg.Wait`;
- channel capacities;
- the unbuffered handshakes;
- a goroutine that keeps running after an error.

PROJECT.json lists these hazards at their lines.

## 2. Modules

### `RestorePipeline.tla`: the concurrent delta pipeline

This module models `applyDeltaSnapshots` from line 520 on, with `fetchSnaps`,
`applySnaps`, `cleanup`, `HandleAlarm` and the lean-keeping path of
`MakeEtcdLeanAndCheckAlarm`.

Constants:

- `NumSnaps`: the number of remaining deltas.
- `MaxFetchers`: `ro.Config.MaxFetchers`.
- `LeanInterval`: `periodicallyMakeEtcdLeanDeltaSnapshotInterval`, 10 in the code.
- `MaxFetcherFaults`: a bound on the number of fetch or persist failures.

Derived values: `NumFetchers` is `min(MaxFetchers, NumSnaps)` (line 523), and
`ErrCap` is `NumFetchers + 1` (line 525).

State:

- Each goroutine has a control point: `orch`, `fpc[f]`, `apc`, `hpc`. Each control point is a statement that can block or that changes shared state.
- Each buffered channel is a sequence, and a send is guarded by its capacity. `fetcherInfoCh` is `fetcherQ`; it is filled in one step because its capacity is `numSnaps`.
- The closed or open state of `stopCh`, `snapLocationsCh` and `stopHandleAlarmCh` is derived from the orchestrator's control point.
- The unbuffered alarm channels are rendezvous: one action moves both goroutines.
- `tempFiles` holds the persisted files.
- `etcd` is the sequence of deltas written to the embedded etcd.
- `crashed` records a Go panic, which ends the whole process.

Actions:

- There is one action per blocking statement or state change.
- Every failure the code handles is a nondeterministic choice: a store `Fetch` error, `os.Create` or `ReadFrom` failing, reading the delta file failing, apply or verify failing (with or without a partial write), compaction or status failing, defrag failing.
- Fetch and persist failures are bounded by `MaxFetcherFaults`.
- Data is abstract. A delta is its index, a file is the index of its delta, and an error is the value `"err"`.

The goroutine start is its own step. This exposes the `wg.Add(1)` race of
lines 602 and 639: `Join` waits only for goroutines that have started.
`AllDone` is the terminal state; TLC is allowed to stutter there.

Fairness is weak fairness for the orchestrator, each fetcher, the applier and
the handler. The Go scheduler eventually runs every runnable goroutine, and
weak fairness asks no more than that: a goroutine that stays able to move
eventually moves. No fairness is put on failures; they may happen or not.

### `RestorePipelineProofs.tla` and `PipelineSafetyProofs.tla`

These modules hold the TLAPS proofs (section 4). `PipelineSafetyProofs`
extends `RestorePipelineProofs` and reuses its type invariant.

### `MCRestorePipeline.tla` and its cfgs

The MC module gives the constants small values:

- 3 deltas and 2 fetchers. Two fetchers race; one of them must take a second delta; deltas arrive out of order; a delta is buffered and picked up later.
- A lean interval of 2. The periodic lean happens after the second delta, and a failed lean is retried after the third.
- 0, 1 or 2 fetcher faults.

### `EventReplay.tla`: replaying delta events

This module models `applyDeltaSnapshots` 500-518 (the first delta and its
verification), `applyFirstDeltaSnapshot` 745-796, `applyEventsAndVerify`
733-742, `applyEventsToEtcd` 817-846 and `verifySnapshotRevision` 848-864.

Data:

- The source cluster's history `hist` is a sequence of transactions, one per revision. Each transaction puts or deletes a few distinct keys.
- The full snapshot holds the state at revision `base`. That revision may be later than the one in the snapshot's name: see the etcd issue cited at lines 763-767.
- The deltas are contiguous slices of the history. Only the first delta may start at or before `base`.
- The embedded etcd is `kv` and `rev`. A Txn applies its ops in order. It raises the revision by one exactly when it puts, or deletes a present key, which is etcd's rule.
- `HistState(h, r)` is the reference: the state of the source after revision `r`. Each key holds what the latest transaction up to `r` that touches it wrote (`Latest`), and `NoVal` if none did.
- A Txn's effect is `CommitOps(s, os)`. A key ends with what the last op on it leaves (`OpsValue`). The store changes when some op puts, or deletes a key that is present at that point of the Txn.
- A delta chain is stated by what it is, not by how it is built. `IsDeltaChain` says each delta holds every event of a contiguous range of revisions once, sorted by revision. The first range starts at most one past `base`; each later range starts right after the previous `LastRevision`. The order of one revision's events is left open.

None of these definitions is recursive, so the proofs can reason about them.
`MCEventReplay.tla` builds the chains constructively instead
(`MCDeltaChains`: key order fixed, every split into at most `MaxDeltas`
contiguous ranges). The cfgs substitute it for `DeltaChains`. The ASSUME
`MCChainsAreDeltaChains` makes TLC check, on every run, that each generated
chain satisfies `IsDeltaChain`. The constructive set fixes the order of
events within a revision, while the proofs cover every order.

Actions:

- `FetchFirst` and `GetRevision` model the skip test of line 775 and the scan of lines 784-790 for the first event above the etcd's revision. `newRevisionIndex` defaults to 0.
- `AddOp`, `CommitAndAdd` and `FinalCommit` model the batching loop: a new Txn starts when the event revision grows.
- `Verify` models the final revision check.
- Every I/O or etcd call may fail; a failure ends the replay with an error.

Constants: 2 keys, 1 value, histories of at most 3 revisions, and at most 2
deltas. With these, the first delta can be fully covered, partly covered, or
start exactly at `base + 1`. A revision can hold a put and a delete, and a
delete of an absent key leaves the revision alone.

### `DeltaApply.tla`: what `applyDeltaSnapshots` promises

This is the abstract specification:

- `written` grows by the next delta index.
- `outcome` is decided once: `"err"` at any time, `"nil"` only when all `N` deltas are written.

`RestorePipeline` implements it under the mapping `written <- etcd`,
`outcome <- result` (`DeltaApplyRefined`).

### `Restorer.tla`: `RestoreAndStopEtcd` and `Restore`

This module models `RestoreAndStopEtcd` 330-338, `Restore` 342-399 and
`restoreFromBaseSnapshot` 402-475.

- The inputs are whether a base path is set, whether there are deltas, and whether a member is given.
- There is one action per call that can fail or change state: `MkdirAll`, `Fetch`, decompression, `CreateTemp`, `io.Copy`, `manager.Restore`, the deferred `os.Remove`, `StartEmbeddedEtcd`, the member update, the deferred `os.RemoveAll` and the final `Stop`.
- Each early return of the code is a transition to the deferred calls.
- `applyDeltaSnapshots` is composed through `Pipeline == INSTANCE DeltaApply`. `ApplyStep` takes one of its steps, and `ApplyReturn` acts on the err it decided. The refinement theorem justifies using the abstract pipeline here.

`MCRestorer` uses 2 deltas. All 8 input combinations are initial states.

## 3. Runs

| Run | cfg | Expect | Checks |
|-----|-----|--------|--------|
| pipeline_safety | `MCRestorePipeline_safety.cfg` | pass (≈600k states) | `TypeOK`, `AppliedInOrder`, `SuccessImpliesComplete`, `LeanCadence`, `CleanupRemovesFiles`, `NoSendOnClosedSnapLocs` with every failure enabled and 2 fetcher faults |
| pipeline_liveness | `MCRestorePipeline_liveness.cfg` | pass | `Termination` (everyone finishes) with no fetcher faults but every applier and lean failure; deadlock is checked |
| pipeline_termination | `MCRestorePipeline_termination.cfg` | violation | `Termination` fails with one fetcher fault |
| pipeline_apply_after_return | `MCRestorePipeline_afterreturn.cfg` | violation | `NoApplyAfterReturn` fails: an applier that was not joined writes after the return |
| pipeline_files | `MCRestorePipeline_files.cfg` | violation | `NoFilesLeftAtEnd` fails: the nil-reader panic leaves a file |
| pipeline_refinement | `MCRestorePipeline_refinement.cfg` | pass (≈600k states) | `DeltaApplyRefined`: the pipeline implements `DeltaApply` |
| replay_safety | `MCEventReplay_safety.cfg` | pass (≈38k states) | `TypeOK`, `MirrorsHistory`, `ReplayMatchesHistory` over every history, base and delta chain in bounds |
| replay_overlap | `MCEventReplay_overlap.cfg` | violation | `NoSpuriousFailure` fails: a delta entirely below the base is reapplied |
| restorer | `MCRestorer.cfg` | pass | `TypeOK`, `NoEtcdLeak`, `SuccessMeansRestored`; deadlock is checked |
| restorer_cleanup | `MCRestorer_cleanup.cfg` | violation | `CleanupFailureReported` fails: a failed `RemoveAll` is only logged |

What the properties say:

- `AppliedInOrder`: the etcd holds deltas 0..k-1 in order.
- `SuccessImpliesComplete`: a `nil` result means every delta was applied.
- `LeanCadence`: between lean attempts there are fewer than `LeanInterval` deltas, and after a failed attempt there is none.
- `CleanupRemovesFiles`: when the function returns, every file that was sent on `snapLocationsCh` is removed.
- `NoSendOnClosedSnapLocs`: no fetcher is about to send on the closed `snapLocationsCh`.
- `MirrorsHistory`: while replaying a delta that goes past the base, the etcd's state is the source's state at the etcd's revision.
- `ReplayMatchesHistory`: an `ok` replay ends at the last delta's revision, with the source's state at that revision.
- `NoEtcdLeak`: after `RestoreAndStopEtcd` returns, no embedded etcd is running.
- `SuccessMeansRestored`: a `nil` return means the base was restored, every delta was written and the member was updated, each where the inputs ask for it.

The safety run disables deadlock checking, and only that run does. Fetcher
faults really do block the pipeline (the termination finding), and that
run's question is safety. Each property of a passing run has a mutant in
PROJECT.json, and the mutant makes the property fail. Examples:

- a dropped `os.Remove`;
- `==` turned into `>=` in the reorder check;
- the retry flag ignored;
- the success check one delta early;
- `wg.Wait` skipped;
- `fetcherInfoCh` never closed;

### Findings

1. **Fetch failure falls through** (line 613-619). After a failed `Fetch`,
   there is no `continue`. `persistRawDeltaSnapshot(nil, ...)` then panics in
   `ReadFrom`, and the process dies with the temp file on disk.
2. **Pipeline can hang** (lines 616, 621, 622, 631). A fetcher that failed
   keeps sending. Once the applier has returned, `applierInfoCh` or `errCh`
   fills, the fetcher blocks, and `cleanup`'s `wg.Wait` never returns.
3. **`wg.Add` inside the goroutine** (lines 602, 639). `wg.Wait` can return
   before the applier registered. The applier then writes deltas after
   `applyDeltaSnapshots` returned, or reaches the alarm handshake after the
   handler stopped.
4. **Overlapped first delta is reapplied** (lines 775, 784-790). If the
   full snapshot already covers the whole first delta, but the etcd's
   revision is not equal to the delta's `LastRevision`, no event is above
   the revision. `newRevisionIndex` then stays 0 and every event is replayed.
   The etcd's revision moves past the source's, and verification fails on a
   correct backup.
5. **Cleanup failure is hidden** (line 349). A failed `os.RemoveAll` of the
   temporary directory is only logged. The restore reports success and
   leaves files behind, although the design says the directory is gone at
   the end.

## 4. Proofs

TLAPS proves the following in `RestorePipelineProofs.tla`. It assumes only
`ConstantsAssumption`: `NumSnaps`, `MaxFetchers` and `LeanInterval` are
positive naturals, and `MaxFetcherFaults` is a natural.

- `TypeCorrect: Spec => []TypeOK`. `TypeOK` is not inductive, because
  `currSnapIndex + 1` must stay within the remaining deltas. The strengthening
  `LoopInv` records that in the inner loop `cur = nextIdx` before an apply and
  `cur + 1 = nextIdx < NumSnaps` during the lean, alarm and disarm steps. The
  last delta leaves through `errCh <- nil` before `cur` moves. `TypeInit` and
  `TypeStep` prove `TypeInv = TypeOK /\ LoopInv` inductive, with one step per
  action. The sequence lemmas `HeadTailProperties` and `AppendProperties`
  handle the channels.
- `OrderedApply: Spec => []AppliedInOrder`. The inductive invariant is
  `OrderInv = TypeInv /\ AppliedInOrder /\ EtcdLenInv`. `EtcdLenInv` ties the
  etcd's length to `nextSnapIndexToApply`: they are equal, except after a
  failed apply that wrote part of its delta, and then the applier is on its
  error exit. `CalmSteps` shows that every action other than `ApplierApply`
  leaves the etcd and `nextIdx` alone and keeps the applier on its error exit.
  `AppendNext` extends `0..n-1` by `n`.

- `SuccessComplete: Spec => []SuccessImpliesComplete`. The inductive
  invariant is `CompleteInv = OrderInv /\ NilInv`. `NilInv` says that the
  applier is at the send of `nil`, or a `nil` sits in `errCh`, or the result
  is `nil`, only once `nextIdx = NumSnaps`. Fetchers only ever send errors.
  `nextIdx` moves only in an apply, and an apply needs `nextIdx < NumSnaps`.
  `NilCalmSteps` collects the actions that at most append an error. Then
  `EtcdLenInv`, together with `etcd \in Seq(Idx)`, leaves exactly the
  `NumSnaps` deltas, in order.

- `Refinement: Spec => DeltaApplyRefined`. The invariant is
  `RefInv = CompleteInv /\ WaitInv`. `WaitInv` says the result is still
  undecided while the orchestrator dispatches or waits. The proof has three
  cases:
  - `ApplierApply` appends the next index, by `AppendNext`.
  - `ReceiveErr` decides the result; `AllWritten` shows that `nil` comes only with every delta written.
  - Every other action stutters, by `CalmSteps` and `ResultSteps`.

  `RefInit` maps the initial state.

`RestorerProofs.tla` proves, assuming only `RestorerConstants` (`NumDeltas`
is a positive natural):

- `NoLeak: Spec => []NoEtcdLeak`.
- `RestoreSound: Spec => []SuccessMeansRestored`.

Both rest on the inductive invariant `RInv`. It records:

- a running etcd has a handle, and is at one of the control points that still reach `Stop`;
- `err` is `"none"` until Restore returns, and `"nil"` only afterwards;
- the data directory is restored whenever the deltas are reached with a base path;
- the member step is reached only after `outcome = "nil"`, which implies all deltas are written (`PipelineStep`).

`TypeStep` proves `TypeOK` preserved. It handles the Boolean variables
(with Zenon) apart from the others (with SMT).

`EventReplayProofs.tla` proves, assuming only `ReplayConstants` (`NoVal` is
not a value; `MaxRev` and `MaxDeltas` are positive naturals), for every
history, every base revision and every contiguous delta chain:

- `ReplayTypeCorrect: Spec => []TypeOK`.
- `MirrorsHistoryHolds: Spec => []MirrorsHistory`.
- `ReplaySound: Spec => []ReplayMatchesHistory`.

All three follow from `ReplayInvariant: Spec => []ReplayInv`. The replay's
properties speak only of the etcd state. `ReplayInv` adds where the replay
stands in the current delta, which is what makes it inductive:

- `InvFetch`: before the first delta is applied, the etcd holds the state at `base`.
- `InvBad`: when the base is past the first delta's `LastRevision` (the overlap finding), the replay stays on delta 1 and never reports `ok`.
- `InvRun`: otherwise, while applying or verifying, the etcd is in the source state at its own revision, and not below the start of the current delta.
- `Pending` (part of `InvRun`): inside `applyEventsToEtcd`, either no Txn is pending and event `i` opens revision `rev + 1`, or `ops` holds the events right before `i`, all of revision `rev + 1`. Everything before them is applied.
- `InvOk`: `ok` comes only at the last delta's revision, in its state.

The step has one lemma per action:

- `GetRevStep` shows that `newRevisionIndex` lands on the first event of `base + 1`. `EarliestIn` gives the first position past the base, and `NextRev` says that position is of revision `base + 1`.
- `CommitPending` is the core of `CommitAddStep` and `FinalStep`. A pending Txn, once the next event is of a later revision or the delta ends, holds every event of revision `rev + 1`, each key once. So by `CommitRevision` it takes the etcd from `HistState(rev)` to `HistState(rev + 1)`, and it changes the store.
- `FinalStep` then uses `NextRev` to show that no revision of the delta is left, so the etcd is at `LastRevision`.
- `VerifyStep` uses `NextDeltaStart`: the next delta's first event is of `LastRevision + 1`.

The lemmas about the operators are these:

- `LatestIn` and `EarliestIn`: a nonempty set of naturals has a greatest and a least element. They come from `WFMin` and the well-foundedness of `<`, without induction.
- `HistStep`: `HistState(r)` is `HistState(r - 1)` with transaction `r` applied.
- `CommitRevision`: a Txn of one revision's ops takes `HistState(r - 1)` to `HistState(r)`.
- `EventIn`, `EventAt` and `NextRev`: what a range of events holds.

`RestorerProofs.tla` also proves `RestorerTypeCorrect: Spec => []TypeOK`,
since `TypeOK` is a conjunct of `RInv`.

`PipelineSafetyProofs.tla` proves the remaining pipeline invariants, under
the same `ConstantsAssumption`:

- `LeanCadenceHolds: Spec => []LeanCadence`. `LeanCadence` is not inductive,
  because it speaks only of the inner loop. `CadenceInv` adds how the counter
  `sinceLean` relates to the number of applied deltas: before the first delta
  both are at their start values; inside the loop `sinceLean <= applied %
  LeanInterval`, and `sinceLean = 0` after a failed lean; during the alarm
  and disarm steps `sinceLean = 0`. The arithmetic rests on three lemmas
  about `%`: `ModUnique` (a remainder is unique), `ModNext` (`(n+1) % L` is
  `n % L + 1` or `0`) and `ModBound`. `CadenceCalm` covers the actions that
  touch neither counter.
- `CleanupComplete: Spec => []CleanupRemovesFiles` and
  `NoLateLocSend: Spec => []NoSendOnClosedSnapLocs`. Both rest on
  `CleanInv`. `Joined` says that once the orchestrator drains or returns, no
  fetcher is crashed or in its send steps. `Drained` says the returned
  orchestrator has emptied `snapLocationsCh`. `FilesTracked` says every file
  on disk is in `snapLocationsCh` or held by a fetcher between its persist
  and its send. Without `FilesTracked` a file could be on disk and nowhere
  the drain can find it.

TLC checked every strengthening (`LoopInv`, `OrderInv`, `CompleteInv`,
`RefInv`, `CadenceInv`, `CleanInv`, `RInv`, `ReplayInv`) as an invariant
before it was proved (`ReplayInv` with up to 4 revisions and 3 deltas), `CadenceInv` and `CleanInv` with `LeanInterval` 1, 2 and 3.

Only model-checked:

- `Termination` and every other liveness property. TLAPS does not do
  liveness under fairness or ENABLED.
- `MCChainsAreDeltaChains`, the ASSUME that the constructive chains TLC enumerates are delta chains. It is about the model, and TLC evaluates it on every replay run.
- The properties of the violation runs. They are false, and the runs show
  the counterexamples.

## 5. Not modelled

Not modelled, with the reason:

- Logging, error wording, and `ErrorArrayToError`: formatting only.
- Decompression and the sha256 check (866-934): reduced to "reading the file succeeds or fails".
- `os.Remove` failing in `applySnaps` (logged and ignored) and `os.Stat` in `cleanup`: the model assumes removal succeeds.
- Several endpoints in the alarm loop: `Restore` passes one (line 370).
- Client creation (480-498), `RestorationConfig.Validate` and the deep copies (52-160). These are pure field checks and copies with no state to model.
- `NewRestorer`: it only builds a logger.
- The readers closed by the deferred closure at line 416. What `DecompressSnapshot` returns on an error, and whether closing its reader closes the fetched one, is outside this repository.
- The CI and e2e scripts, the manifests and the vendored `purge.go`.

Every safety invariant of a passing run is proved.
