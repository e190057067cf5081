------------------------- MODULE PipelineSafetyProofs -------------------------
(***************************************************************************)
(* Proofs of the pipeline's lean-keeping cadence and of cleanup: for every *)
(* NumSnaps, MaxFetchers, LeanInterval and MaxFetcherFaults allowed by     *)
(* ConstantsAssumption.  Builds on TypeInv of RestorePipelineProofs.       *)
(***************************************************************************)
EXTENDS RestorePipelineProofs

(***************************************************************************)
(* LeanCadence is not inductive: it says nothing of the apply, lean, alarm *)
(* and disarm steps it passes through.  The strengthening follows the      *)
(* counter numberOfDeltaSnapApplied of applySnaps (line 710): since the    *)
(* last lean attempt at most applied % LeanInterval deltas were applied,   *)
(* because the periodic trigger fires when the counter reaches a multiple  *)
(* of LeanInterval; after a failed attempt none was, because the retry     *)
(* fires after the very next delta; and before any remaining delta is      *)
(* applied, the counter and the history still count the first delta only. *)
(***************************************************************************)
CadenceInv ==
    /\ apc = "unstarted" => nextIdx = 0
    /\ nextIdx = 0 => applied = 1 /\ sinceLean = 1 /\ ~prevFailed
    /\ (apc \in {"select", "read", "apply"} /\ nextIdx > 0) =>
           /\ sinceLean <= applied % LeanInterval
           /\ prevFailed => sinceLean = 0
    /\ apc \in {"alarm", "disarm"} => sinceLean = 0

(***************************************************************************)
(* CleanupRemovesFiles and NoSendOnClosedSnapLocs rest on what wg.Wait()   *)
(* (line 574) guarantees.  Once it returned, every fetcher is unstarted,   *)
(* ranging, at its select (where the closed stopCh ends it) or done, and   *)
(* the process has not died; and until the process dies, every delta file  *)
(* on disk is named on snapLocationsCh or held by a fetcher that has still *)
(* to send it there (lines 619-625).                                       *)
(***************************************************************************)
Joined ==
    orch \in {"drain", "returned"} =>
        /\ ~crashed
        /\ \A f \in Fetchers : fpc[f] \in {"unstarted", "range", "select", "done"}

\* Once applyDeltaSnapshots has returned, snapLocationsCh was drained.
Drained == orch = "returned" => snapLocs = <<>>

\* Delta file i is named on snapLocationsCh.
InLocs(i) == \E k \in 1 .. Len(snapLocs) : snapLocs[k] = i

\* A fetcher holds delta file i and will send it on snapLocationsCh.
HoldPCs == {"errPersist", "sentinelPersist", "loc"}
Held(i) == \E f \in Fetchers : fpc[f] \in HoldPCs /\ fcur[f] = i

FilesTracked == ~crashed => \A i \in tempFiles : InLocs(i) \/ Held(i)

CleanInv == TypeInv /\ Joined /\ Drained /\ FilesTracked

-----------------------------------------------------------------------------
(* LeanCadence.                                                            *)

\* The residue of k * L + s, for s below L, is s.
LEMMA ModUnique ==
  ASSUME NEW n \in Int, NEW L \in Nat \ {0}, NEW k \in Int, NEW s \in 0 .. L - 1,
         n = k * L + s
  PROVE  n % L = s
  <1>1. n \div L \in Int /\ n % L = n - L * (n \div L)
    BY SMT
  <1>2. PICK m \in Int : n % L = n - L * m
    BY <1>1
  <1>3. n % L \in 0 .. L - 1
    BY SMT
  <1> DEFINE d == k - m
  <1>4. d * L = (n % L) - s
    BY <1>2, SMT
  <1>5. d = 0
    <2>1. CASE d >= 1
      <3>1. d * L >= L
        BY <2>1, SMT
      <3>2. QED
        BY <1>3, <1>4, <3>1, SMT
    <2>2. CASE d <= -1
      <3>1. d * L <= -L
        BY <2>2, SMT
      <3>2. QED
        BY <1>3, <1>4, <3>1, SMT
    <2>3. QED
      BY <2>1, <2>2, SMT
  <1>6. QED
    BY <1>4, <1>5, SMT

\* The counter's residue modulo the lean interval grows by one with the
\* counter, except where the counter reaches a multiple of the interval.
LEMMA ModNext ==
  ASSUME NEW a \in Nat, NEW L \in Nat \ {0}, (a + 1) % L # 0
  PROVE  (a + 1) % L = (a % L) + 1
  <1>1. PICK q \in Int : a % L = a - L * q
    <2>1. a \div L \in Int /\ a % L = a - L * (a \div L)
      BY SMT
    <2>2. QED
      BY <2>1, SMTT(30)
  <1>2. a % L \in 0 .. L - 1
    BY SMT
  <1>3. (a % L) + 1 # L
    <2>1. SUFFICES ASSUME (a % L) + 1 = L PROVE FALSE
      OBVIOUS
    <2>2. a + 1 = (q + 1) * L + 0
      BY <1>1, <2>1, SMT
    <2>3. (a + 1) % L = 0
      <3>1. a + 1 \in Int /\ q + 1 \in Int /\ 0 \in 0 .. L - 1
        BY SMT
      <3>2. QED
        BY <2>2, <3>1, ModUnique
    <2>4. QED
      BY <2>3
  <1>4. a + 1 = q * L + ((a % L) + 1) /\ (a % L) + 1 \in 0 .. L - 1
    BY <1>1, <1>2, <1>3, SMT
  <1>5. a + 1 \in Int
    BY SMT
  <1>6. QED
    BY <1>4, <1>5, ModUnique

\* A residue is below the interval.
LEMMA ModBound ==
  ASSUME NEW a \in Nat, NEW L \in Nat \ {0}
  PROVE  a % L \in 0 .. L - 1
  BY SMT

USE ConstantsAssumption

CadInv == TypeInv /\ CadenceInv

\* Only applySnaps touches its counters, its lean history and its flag.
LEMMA CadenceCalm ==
  ASSUME [Next]_vars, ~Applier
  PROVE  UNCHANGED <<apc, nextIdx, applied, sinceLean, prevFailed>>
  <1> USE DEF fetcherVars, applierVars, handlerVars, chanVars
  <1>1. CASE Orchestrator
    BY <1>1 DEF Orchestrator, Dispatch, ReceiveErr, CloseStop, Join, DrainLoc,
                Return
  <1>2. ASSUME NEW f \in Fetchers, Fetcher(f)
        PROVE  UNCHANGED <<apc, nextIdx, applied, sinceLean, prevFailed>>
    BY <1>2 DEF Fetcher, FetcherStart, FetcherRange, FetcherSelect,
               FetcherErrFetch, FetcherSentinelFetch, FetcherPersistNil,
               FetcherPersist, FetcherErrPersist, FetcherSentinelPersist,
               FetcherLoc, FetcherInfo, SendErrF, SendInfoF, GoF
  <1>3. CASE Handler
    BY <1>3 DEF Handler, HandlerStart, HandlerStop, HandlerDefrag
  <1>4. CASE AllDone /\ UNCHANGED vars
    BY <1>4 DEF vars
  <1>5. CASE UNCHANGED vars
    BY <1>5 DEF vars
  <1>6. QED
    BY <1>1, <1>2, <1>3, <1>4, <1>5 DEF Next

THEOREM CadenceInit == Init => CadInv
  <1> SUFFICES ASSUME Init PROVE CadInv
    OBVIOUS
  <1>1. TypeInv
    BY TypeInit
  <1>2. CadenceInv
    BY DEF Init, CadenceInv
  <1>3. QED
    BY <1>1, <1>2 DEF CadInv

THEOREM CadenceStep == CadInv /\ [Next]_vars => CadInv'
  <1> SUFFICES ASSUME TypeInv, CadenceInv, [Next]_vars PROVE CadInv'
    BY DEF CadInv
  <1>0. /\ TypeInv'
        /\ applied \in Nat \ {0}
        /\ nextIdx \in 0 .. NumSnaps
        /\ sinceLean \in Nat
        /\ prevFailed \in BOOLEAN
        /\ LeanInterval \in Nat \ {0}
    BY TypeStep, SMTT(30) DEF TypeInv, TypeOK
  <1> SUFFICES CadenceInv'
    BY <1>0 DEF CadInv
  <1>1. CASE ApplierStart
    BY <1>1 DEF ApplierStart, CadenceInv
  <1>2. CASE ApplierSelect
    BY <1>2 DEF ApplierSelect, CadenceInv
  <1>3. CASE ApplierRead
    BY <1>3 DEF ApplierRead, CadenceInv
  <1>4. CASE ApplierApply
    <2>1. CASE /\ etcd' = Append(etcd, cur)
               /\ tempFiles' = tempFiles \ {cur}
               /\ nextIdx' = nextIdx + 1
               /\ sinceLean' = sinceLean + 1
               /\ IF Finished(nextIdx + 1)
                  THEN apc' = "sendNil" /\ UNCHANGED <<applied, cur>>
                  ELSE /\ applied' = applied + 1
                       /\ IF LeanDue(applied + 1, prevFailed)
                          THEN apc' = "lean" /\ UNCHANGED cur
                          ELSE apc' = "read" /\ cur' = cur + 1
      <3>1. CASE Finished(nextIdx + 1) \/ LeanDue(applied + 1, prevFailed)
        BY <1>0, <1>4, <2>1, <3>1 DEF ApplierApply, CadenceInv
      <3>2. CASE ~Finished(nextIdx + 1) /\ ~LeanDue(applied + 1, prevFailed)
        <4>1. /\ apc' = "read" /\ applied' = applied + 1
              /\ sinceLean' = sinceLean + 1 /\ nextIdx' = nextIdx + 1
              /\ prevFailed' = prevFailed
              /\ (applied + 1) % LeanInterval # 0 /\ ~prevFailed
          BY <1>4, <2>1, <3>2 DEF ApplierApply, LeanDue
        <4>2. (applied + 1) % LeanInterval = (applied % LeanInterval) + 1
          BY <1>0, <4>1, ModNext
        <4>3. sinceLean <= applied % LeanInterval
          <5>1. CASE nextIdx = 0
            <6>1. applied = 1 /\ sinceLean = 1
              BY <5>1 DEF CadenceInv
            <6>2. LeanInterval # 1
              <7>1. SUFFICES ASSUME LeanInterval = 1 PROVE FALSE
                OBVIOUS
              <7>2. (applied + 1) % LeanInterval = 0
                <8>1. applied + 1 = (applied + 1) * LeanInterval + 0
                  BY <6>1, <7>1
                <8>2. QED
                  BY <1>0, <7>1, <8>1, ModUnique
              <7>3. QED
                BY <4>1, <7>2
            <6>3. 1 % LeanInterval = 1
              <7>1. 1 = 0 * LeanInterval + 1 /\ 1 \in 0 .. LeanInterval - 1
                BY <1>0, <6>2
              <7>2. QED
                BY <1>0, <7>1, ModUnique
            <6>4. QED
              BY <6>1, <6>3
          <5>2. CASE nextIdx # 0
            <6>1. apc = "apply" /\ nextIdx > 0
              BY <1>0, <1>4, <5>2 DEF ApplierApply
            <6>2. QED
              BY <6>1 DEF CadenceInv
          <5>3. QED
            BY <5>1, <5>2
        <4>4. QED
          BY <1>0, <4>1, <4>2, <4>3 DEF CadenceInv
      <3>3. QED
        BY <3>1, <3>2
    <2>2. CASE /\ etcd' \in {etcd, Append(etcd, cur)}
               /\ apc' = "sendErr"
               /\ UNCHANGED <<tempFiles, nextIdx, sinceLean, applied, cur>>
      BY <1>4, <2>2 DEF ApplierApply, CadenceInv
    <2>3. QED
      BY <1>4, <2>1, <2>2 DEF ApplierApply
  <1>5. CASE ApplierLean
    <2>1. nextIdx > 0 /\ sinceLean' = 0 /\ apc' \in {"read", "alarm"}
          /\ UNCHANGED <<nextIdx, applied>>
      BY <1>0, <1>5 DEF ApplierLean, TypeInv, LoopInv, TypeOK, Idx
    <2>2. applied % LeanInterval \in 0 .. LeanInterval - 1
      BY <1>0, ModBound
    <2>3. QED
      BY <2>1, <2>2 DEF CadenceInv
  <1>6. CASE ApplierAlarm
    BY <1>6 DEF ApplierAlarm, CadenceInv
  <1>7. CASE ApplierDisarm
    <2>1. nextIdx > 0 /\ sinceLean = 0 /\ apc' = "read"
          /\ UNCHANGED <<nextIdx, applied, sinceLean>>
      BY <1>0, <1>7 DEF ApplierDisarm, TypeInv, LoopInv, TypeOK, Idx, CadenceInv
    <2>2. applied % LeanInterval \in 0 .. LeanInterval - 1
      BY <1>0, ModBound
    <2>3. QED
      BY <2>1, <2>2 DEF CadenceInv
  <1>8. CASE ApplierSendErr \/ ApplierSendNil
    BY <1>8 DEF ApplierSendErr, ApplierSendNil, ApplierSend, CadenceInv
  <1>9. CASE ~Applier
    BY <1>9, CadenceCalm DEF CadenceInv
  <1>10. QED
    BY <1>1, <1>2, <1>3, <1>4, <1>5, <1>6, <1>7, <1>8, <1>9 DEF Applier

(***************************************************************************)
(* applySnaps makes the transient etcd lean often enough: while it waits   *)
(* for or reads the next delta, fewer than LeanInterval deltas were        *)
(* applied since the last compaction attempt, and none since a failed one *)
(* (the trigger of lines 710-724), for every lean interval.                *)
(***************************************************************************)
THEOREM LeanCadenceHolds == Spec => []LeanCadence
  <1>1. CadInv => LeanCadence
    <2> SUFFICES ASSUME CadInv, apc \in {"select", "read"}, nextIdx > 0
                 PROVE  sinceLean < LeanInterval /\ (prevFailed => sinceLean = 0)
      BY DEF LeanCadence
    <2>1. applied \in Nat /\ LeanInterval \in Nat \ {0} /\ sinceLean \in Nat
      BY DEF CadInv, TypeInv, TypeOK
    <2>2. applied % LeanInterval \in 0 .. LeanInterval - 1
      BY <2>1, ModBound
    <2>3. QED
      BY <2>1, <2>2 DEF CadInv, CadenceInv
  <1>2. QED
    BY <1>1, CadenceInit, CadenceStep, PTL DEF Spec

-----------------------------------------------------------------------------
(* Cleanup.                                                                *)

THEOREM CleanInit == Init => CleanInv
  <1> SUFFICES ASSUME Init PROVE CleanInv
    OBVIOUS
  <1>1. TypeInv
    BY TypeInit
  <1>2. Joined /\ Drained /\ FilesTracked
    BY DEF Init, Joined, Drained, FilesTracked
  <1>3. QED
    BY <1>1, <1>2 DEF CleanInv

\* A step that leaves the orchestrator, the fetchers, snapLocationsCh and
\* the crash flag alone and adds no file keeps the three conjuncts.
LEMMA QuietStep ==
  ASSUME Joined, Drained, FilesTracked,
         UNCHANGED <<orch, fpc, fcur, snapLocs, crashed>>,
         tempFiles' \subseteq tempFiles
  PROVE  Joined' /\ Drained' /\ FilesTracked'
  BY DEF Joined, Drained, FilesTracked, InLocs, Held

THEOREM CleanStep == CleanInv /\ [Next]_vars => CleanInv'
  <1> SUFFICES ASSUME CleanInv, [Next]_vars PROVE CleanInv'
    OBVIOUS
  <1>0. TypeInv' /\ TypeOK
    BY TypeStep DEF CleanInv, TypeInv
  <1> SUFFICES Joined' /\ Drained' /\ FilesTracked'
    BY <1>0 DEF CleanInv
  <1>1. Joined /\ Drained /\ FilesTracked
    BY DEF CleanInv
  <1> USE DEF fetcherVars, applierVars, handlerVars, chanVars
  <1>2. CASE Dispatch \/ ReceiveErr \/ CloseStop
    <2>1. orch' \in {"wait", "cleanup", "join"} /\ orch \notin {"drain", "returned"}
      BY <1>2 DEF Dispatch, ReceiveErr, CloseStop
    <2>2. UNCHANGED <<fpc, fcur, snapLocs, crashed, tempFiles>>
      BY <1>2 DEF Dispatch, ReceiveErr, CloseStop
    <2>3. QED
      BY <1>1, <2>1, <2>2 DEF Joined, Drained, FilesTracked, InLocs, Held
  <1>3. CASE Join
    <2>1. /\ orch' = "drain" /\ ~crashed
          /\ \A f \in Fetchers : fpc[f] \in {"unstarted", "done"}
          /\ UNCHANGED <<fpc, fcur, snapLocs, crashed, tempFiles>>
      BY <1>3 DEF Join, NotRunning
    <2>2. FilesTracked'
      BY <1>1, <2>1 DEF FilesTracked, InLocs, Held
    <2>3. QED
      BY <2>1, <2>2 DEF Joined, Drained
  <1>4. CASE DrainLoc
    <2>1. /\ orch = "drain" /\ orch' = "drain" /\ snapLocs # <<>>
          /\ tempFiles' = tempFiles \ {Head(snapLocs)}
          /\ snapLocs' = Tail(snapLocs)
          /\ UNCHANGED <<fpc, fcur, crashed>>
      BY <1>4 DEF DrainLoc
    <2>2. ASSUME NEW i \in tempFiles', ~crashed' PROVE InLocs(i)' \/ Held(i)'
      <3>1. i \in tempFiles /\ i # Head(snapLocs) /\ ~crashed
        BY <2>1, <2>2
      <3>2. InLocs(i) \/ Held(i)
        BY <1>1, <3>1 DEF FilesTracked
      <3>3. CASE Held(i)
        BY <2>1, <3>3 DEF Held
      <3>4. CASE InLocs(i)
        <4>1. PICK k \in 1 .. Len(snapLocs) : snapLocs[k] = i
          BY <3>4 DEF InLocs
        <4>2. k # 1
          BY <3>1, <4>1, <2>1, <1>0 DEF TypeOK
        <4>3. snapLocs \in Seq(Idx) /\ Len(snapLocs) > 0
          BY <1>0, <2>1 DEF TypeOK
        <4>4. k - 1 \in 1 .. Len(Tail(snapLocs)) /\ Tail(snapLocs)[k - 1] = i
          BY <4>1, <4>2, <4>3, HeadTailProperties
        <4>5. QED
          BY <2>1, <4>4 DEF InLocs
      <3>5. QED
        BY <3>2, <3>3, <3>4
    <2>3. QED
      BY <1>1, <2>1, <2>2 DEF Joined, Drained, FilesTracked
  <1>5. CASE Return
    <2>1. /\ orch = "drain" /\ orch' = "returned" /\ snapLocs = <<>>
          /\ UNCHANGED <<fpc, fcur, snapLocs, crashed, tempFiles>>
      BY <1>5 DEF Return
    <2>2. QED
      BY <1>1, <2>1 DEF Joined, Drained, FilesTracked, InLocs, Held
  <1>6. ASSUME NEW f \in Fetchers, Fetcher(f)
        PROVE  Joined' /\ Drained' /\ FilesTracked'
    <2> DEFINE Moves(from, to) == fpc[f] = from /\ fpc' = [fpc EXCEPT ![f] = to]
    <2>0. fpc \in [Fetchers -> FetcherPCs] /\ fcur \in [Fetchers -> Idx]
      BY <1>0 DEF TypeOK
    <2>1. CASE FetcherStart(f) \/ FetcherRange(f) \/ FetcherSelect(f)
      \* A fetcher that has not taken a file yet, or takes the next index.
      <3>1. /\ fpc[f] \in {"unstarted", "range", "select"}
            /\ fpc'[f] \in {"range", "select", "done", "persist", "errFetch"}
            /\ \A g \in Fetchers \ {f} : fpc'[g] = fpc[g] /\ fcur'[g] = fcur[g]
            /\ fpc' \in [Fetchers -> FetcherPCs]
            /\ UNCHANGED <<orch, snapLocs, crashed, tempFiles>>
        BY <2>0, <2>1 DEF FetcherStart, FetcherRange, FetcherSelect, GoF,
                          FetcherPCs
      <3>2. StopClosed => fpc'[f] \in {"range", "select", "done"}
        BY <2>0, <2>1 DEF FetcherStart, FetcherRange, FetcherSelect, GoF
      <3>3. Joined'
        BY <1>1, <3>1, <3>2 DEF Joined, StopClosed
      <3>4. FilesTracked'
        BY <1>1, <3>1 DEF FilesTracked, InLocs, Held, HoldPCs
      <3>5. QED
        BY <1>1, <3>1, <3>3, <3>4 DEF Drained
    <2>2. CASE FetcherErrFetch(f) \/ FetcherSentinelFetch(f) \/ FetcherInfo(f)
      <3>1. /\ fpc[f] \in {"errFetch", "sentinelFetch", "info"}
            /\ fpc'[f] \in {"sentinelFetch", "persistNil", "range"}
            /\ \A g \in Fetchers \ {f} : fpc'[g] = fpc[g]
            /\ UNCHANGED <<orch, fcur, snapLocs, crashed, tempFiles>>
        BY <2>0, <2>2 DEF FetcherErrFetch, FetcherSentinelFetch, FetcherInfo,
                          SendErrF, SendInfoF, GoF
      <3>2. orch \notin {"drain", "returned"}
        BY <1>1, <3>1 DEF Joined
      <3>3. FilesTracked'
        BY <1>1, <3>1 DEF FilesTracked, InLocs, Held, HoldPCs
      <3>4. QED
        BY <3>1, <3>2, <3>3 DEF Joined, Drained
    <2>3. CASE FetcherPersistNil(f)
      <3>1. /\ fpc[f] = "persistNil"
            /\ UNCHANGED <<orch, fcur, snapLocs>>
            /\ \/ fpc' = [fpc EXCEPT ![f] = "errPersist"]
                  /\ UNCHANGED <<tempFiles, crashed>>
               \/ crashed' = TRUE /\ UNCHANGED fpc
        BY <2>3 DEF FetcherPersistNil, GoF
      <3>2. orch \notin {"drain", "returned"}
        BY <1>1, <3>1 DEF Joined
      <3>3. FilesTracked'
        <4>1. CASE fpc' = [fpc EXCEPT ![f] = "errPersist"] /\ UNCHANGED <<tempFiles, crashed>>
          <5>1. \A g \in Fetchers : fpc[g] \in HoldPCs => fpc'[g] \in HoldPCs
            BY <2>0, <3>1, <4>1 DEF HoldPCs
          <5>2. QED
            BY <1>1, <3>1, <4>1, <5>1 DEF FilesTracked, InLocs, Held
        <4>2. CASE crashed' = TRUE
          BY <4>2 DEF FilesTracked
        <4>3. QED
          BY <3>1, <4>1, <4>2
      <3>4. QED
        BY <3>1, <3>2, <3>3 DEF Joined, Drained
    <2>4. CASE FetcherPersist(f)
      <3>1. /\ fpc[f] = "persist"
            /\ fpc'[f] \in HoldPCs
            /\ \A g \in Fetchers \ {f} : fpc'[g] = fpc[g]
            /\ tempFiles' \subseteq tempFiles \cup {fcur[f]}
            /\ UNCHANGED <<orch, fcur, snapLocs, crashed>>
        BY <2>0, <2>4 DEF FetcherPersist, GoF, HoldPCs
      <3>2. orch \notin {"drain", "returned"}
        BY <1>1, <3>1 DEF Joined
      <3>3. FilesTracked'
        <4>1. SUFFICES ASSUME NEW i \in tempFiles', ~crashed'
                       PROVE  InLocs(i)' \/ Held(i)'
          BY DEF FilesTracked
        <4>2. CASE i = fcur[f]
          BY <3>1, <4>2 DEF Held
        <4>3. CASE i # fcur[f]
          <5>1. i \in tempFiles /\ ~crashed
            BY <3>1, <4>1, <4>3
          <5>2. InLocs(i) \/ Held(i)
            BY <1>1, <5>1 DEF FilesTracked
          <5>3. QED
            BY <2>0, <3>1, <5>2 DEF InLocs, Held, HoldPCs
        <4>4. QED
          BY <4>2, <4>3
      <3>4. QED
        BY <3>1, <3>2, <3>3 DEF Joined, Drained
    <2>5. CASE FetcherErrPersist(f) \/ FetcherSentinelPersist(f)
      <3>1. /\ fpc[f] \in {"errPersist", "sentinelPersist"}
            /\ fpc'[f] \in {"sentinelPersist", "loc"}
            /\ \A g \in Fetchers \ {f} : fpc'[g] = fpc[g]
            /\ UNCHANGED <<orch, fcur, snapLocs, crashed, tempFiles>>
        BY <2>0, <2>5 DEF FetcherErrPersist, FetcherSentinelPersist, SendErrF,
                          SendInfoF, GoF
      <3>2. orch \notin {"drain", "returned"}
        BY <1>1, <3>1 DEF Joined
      <3>3. \A g \in Fetchers : fpc[g] \in HoldPCs => fpc'[g] \in HoldPCs
        BY <3>1 DEF HoldPCs
      <3>4. FilesTracked'
        BY <1>1, <3>1, <3>3 DEF FilesTracked, InLocs, Held
      <3>5. QED
        BY <3>1, <3>2, <3>4 DEF Joined, Drained
    <2>6. CASE FetcherLoc(f)
      <3>1. /\ fpc[f] = "loc"
            /\ fpc' = [fpc EXCEPT ![f] = "info"]
            /\ snapLocs' = Append(snapLocs, fcur[f])
            /\ UNCHANGED <<orch, fcur, tempFiles>>
        BY <2>6 DEF FetcherLoc, GoF
      <3>2. orch \notin {"drain", "returned"}
        BY <1>1, <3>1 DEF Joined
      <3>3. FilesTracked'
        <4>1. SUFFICES ASSUME NEW i \in tempFiles', ~crashed'
                       PROVE  InLocs(i)' \/ Held(i)'
          BY DEF FilesTracked
        <4>2. snapLocs \in Seq(Idx) /\ fcur[f] \in Idx
          BY <1>0, <2>0 DEF TypeOK
        <4>3. /\ Len(snapLocs') = Len(snapLocs) + 1
              /\ snapLocs'[Len(snapLocs) + 1] = fcur[f]
              /\ \A k \in 1 .. Len(snapLocs) : snapLocs'[k] = snapLocs[k]
          BY <3>1, <4>2, AppendProperties
        <4>4. ~crashed
          BY <4>1, <2>6 DEF FetcherLoc
        <4>5. InLocs(i) \/ Held(i)
          BY <1>1, <3>1, <4>1, <4>4 DEF FilesTracked
        <4>6. CASE InLocs(i)
          BY <4>3, <4>6 DEF InLocs
        <4>7. CASE Held(i)
          <5>1. PICK g \in Fetchers : fpc[g] \in HoldPCs /\ fcur[g] = i
            BY <4>7 DEF Held
          <5>2. CASE g = f
            BY <3>1, <4>3, <5>1, <5>2 DEF InLocs
          <5>3. CASE g # f
            BY <2>0, <3>1, <5>1, <5>3 DEF Held
          <5>4. QED
            BY <5>2, <5>3
        <4>8. QED
          BY <4>5, <4>6, <4>7
      <3>4. Drained'
        BY <3>1, <3>2 DEF Drained
      <3>5. Joined'
        BY <3>1, <3>2 DEF Joined
      <3>6. QED
        BY <3>3, <3>4, <3>5
    <2>7. QED
      BY <1>6, <2>1, <2>2, <2>3, <2>4, <2>5, <2>6 DEF Fetcher
  <1>7. CASE Applier
    <2>1. UNCHANGED <<orch, fpc, fcur, snapLocs, crashed>> /\ tempFiles' \subseteq tempFiles
      BY <1>7 DEF Applier, ApplierStart, ApplierSelect, ApplierRead,
                  ApplierApply, ApplierLean, ApplierAlarm, ApplierDisarm,
                  ApplierSendErr, ApplierSendNil, ApplierSend
    <2>2. QED
      BY <1>1, <2>1, QuietStep
  <1>8. CASE Handler
    <2>1. UNCHANGED <<orch, fpc, fcur, snapLocs, crashed, tempFiles>>
      BY <1>8 DEF Handler, HandlerStart, HandlerStop, HandlerDefrag
    <2>2. QED
      BY <1>1, <2>1, QuietStep
  <1>9. CASE UNCHANGED vars
    <2>1. UNCHANGED <<orch, fpc, fcur, snapLocs, crashed, tempFiles>>
      BY <1>9 DEF vars
    <2>2. QED
      BY <1>1, <2>1, QuietStep
  <1>10. QED
    BY <1>2, <1>3, <1>4, <1>5, <1>6, <1>7, <1>8, <1>9
       DEF Next, Orchestrator

(***************************************************************************)
(* When applyDeltaSnapshots returns, cleanup has removed every delta file  *)
(* the fetchers persisted (lines 569-597), for every number of deltas and *)
(* fetchers: wg.Wait() left no fetcher holding a file, and the drain loop  *)
(* removed every file named on snapLocationsCh.                            *)
(***************************************************************************)
THEOREM CleanupComplete == Spec => []CleanupRemovesFiles
  <1>1. CleanInv => CleanupRemovesFiles
    <2> SUFFICES ASSUME CleanInv, orch = "returned", NEW i \in tempFiles
                 PROVE  FALSE
      BY DEF CleanupRemovesFiles
    <2>1. ~crashed /\ snapLocs = <<>>
          /\ \A f \in Fetchers : fpc[f] \notin HoldPCs
      BY DEF CleanInv, Joined, Drained, HoldPCs
    <2>2. InLocs(i) \/ Held(i)
      BY <2>1 DEF CleanInv, FilesTracked
    <2>3. QED
      BY <2>1, <2>2 DEF InLocs, Held
  <1>2. QED
    BY <1>1, CleanInit, CleanStep, PTL DEF Spec

(***************************************************************************)
(* No fetcher sends on snapLocationsCh after cleanup closed it (line 575), *)
(* which would panic: a fetcher that registered with the WaitGroup was     *)
(* joined, and one that starts late meets the closed stopCh at its select. *)
(***************************************************************************)
THEOREM NoLateLocSend == Spec => []NoSendOnClosedSnapLocs
  <1>1. CleanInv => NoSendOnClosedSnapLocs
    BY DEF CleanInv, Joined, NoSendOnClosedSnapLocs, SnapLocsClosed
  <1>2. QED
    BY <1>1, CleanInit, CleanStep, PTL DEF Spec

=============
