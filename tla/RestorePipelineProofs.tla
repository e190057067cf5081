------------------------ MODULE RestorePipelineProofs ------------------------
(***************************************************************************)
(* Proofs about RestorePipeline, for every NumSnaps, MaxFetchers,          *)
(* LeanInterval and MaxFetcherFaults allowed by ConstantsAssumption.       *)
(***************************************************************************)
EXTENDS RestorePipeline, SequenceTheorems, TLAPS

(***************************************************************************)
(* TypeOK is not inductive: the steps that advance currSnapIndex (cur + 1  *)
(* after an apply, a lean attempt or a disarm) stay inside remainingSnaps  *)
(* only because the inner loop of applySnaps keeps cur equal to            *)
(* nextSnapIndexToApply before an apply, one below it after, and the last  *)
(* delta leaves the loop through errCh <- nil before cur is advanced.      *)
(***************************************************************************)
LoopInv ==
    /\ apc \in {"read", "apply"} => cur = nextIdx
    /\ apc \in {"lean", "alarm", "disarm"} => cur + 1 = nextIdx /\ nextIdx < NumSnaps

TypeInv == TypeOK /\ LoopInv

(***************************************************************************)
(* AppliedInOrder needs the link between the transient etcd and            *)
(* nextSnapIndexToApply: etcd holds exactly the deltas below it, plus at   *)
(* most the one whose apply failed part-way, after which applySnaps only   *)
(* reports the error and returns.                                          *)
(***************************************************************************)
EtcdLenInv ==
    \/ Len(etcd) = nextIdx
    \/ Len(etcd) = nextIdx + 1 /\ apc \in {"sendErr", "done"}

OrderInv == TypeInv /\ AppliedInOrder /\ EtcdLenInv

USE ConstantsAssumption

LEMMA FetchersFacts ==
    /\ Fetchers \subseteq Nat
    /\ NumFetchers \in Nat \ {0}
    /\ ErrCap \in Nat
  BY DEF Fetchers, NumFetchers, ErrCap

THEOREM TypeInit == Init => TypeInv
  <1> SUFFICES ASSUME Init PROVE TypeInv
    OBVIOUS
  <1>1. TypeOK
    BY FetchersFacts DEF Init, TypeOK, OrchPCs, FetcherPCs, ApplierPCs,
                         HandlerPCs, ErrVals, Idx, Fetchers
  <1>2. LoopInv
    BY SMTT(30) DEF Init, LoopInv
  <1>3. QED
    BY <1>1, <1>2 DEF TypeInv

THEOREM TypeStep == TypeInv /\ [Next]_vars => TypeInv'
  <1> SUFFICES ASSUME TypeInv, [Next]_vars PROVE TypeInv'
    OBVIOUS
  <1> USE FetchersFacts DEF TypeInv, TypeOK, LoopInv, fetcherVars, applierVars,
          handlerVars, chanVars, OrchPCs, FetcherPCs, ApplierPCs, HandlerPCs,
          ErrVals, Idx
  <1>1. CASE Dispatch
    BY <1>1 DEF Dispatch
  <1>2. CASE ReceiveErr
    BY <1>2, HeadTailProperties DEF ReceiveErr
  <1>3. CASE CloseStop
    BY <1>3 DEF CloseStop
  <1>4. CASE Join
    BY <1>4 DEF Join
  <1>5. CASE DrainLoc
    <2>1. snapLocs # <<>> /\ snapLocs' = Tail(snapLocs)
      BY <1>5 DEF DrainLoc
    <2>2. snapLocs' \in Seq(Idx)
      BY <2>1, HeadTailProperties
    <2>3. tempFiles' \in SUBSET Idx
      BY <1>5 DEF DrainLoc
    <2>4. LoopInv'
      BY <1>5 DEF DrainLoc
    <2>5. UNCHANGED <<orch, result, fetcherQ, fpc, fcur, faults, apc, nextIdx,
                      pathList, cur, applied, prevFailed, sinceLean, hpc,
                      disarmVal, errCh, applierCh, etcd, crashed>>
      BY <1>5 DEF DrainLoc
    <2>6. QED
      BY <2>2, <2>3, <2>4, <2>5
  <1>6. CASE Return
    BY <1>6 DEF Return
  <1>7. ASSUME NEW f \in Fetchers, FetcherStart(f) PROVE TypeInv'
    BY <1>7 DEF FetcherStart, GoF
  <1>8. ASSUME NEW f \in Fetchers, FetcherRange(f) PROVE TypeInv'
    <2>1. CASE fetcherQ # <<>> /\ fcur' = [fcur EXCEPT ![f] = Head(fetcherQ)]
                               /\ fetcherQ' = Tail(fetcherQ)
      <3>1. Head(fetcherQ) \in Idx /\ Tail(fetcherQ) \in Seq(Idx)
        BY <2>1, HeadTailProperties
      <3>2. fcur' \in [Fetchers -> Idx]
        BY <2>1, <3>1
      <3>3. fpc' \in [Fetchers -> FetcherPCs]
        BY <1>8, <2>1 DEF FetcherRange, GoF
      <3>4. UNCHANGED <<orch, result, faults, apc, nextIdx, pathList, cur,
                        applied, prevFailed, sinceLean, hpc, disarmVal, errCh,
                        applierCh, snapLocs, tempFiles, etcd, crashed>>
        BY <1>8 DEF FetcherRange
      <3>5. QED
        BY <2>1, <3>1, <3>2, <3>3, <3>4, SMTT(30)
    <2>2. CASE UNCHANGED <<fetcherQ, fcur>>
      <3>1. fpc' \in [Fetchers -> FetcherPCs]
        BY <1>8, <2>2 DEF FetcherRange, GoF
      <3>2. UNCHANGED <<orch, result, faults, apc, nextIdx, pathList, cur,
                        applied, prevFailed, sinceLean, hpc, disarmVal, errCh,
                        applierCh, snapLocs, tempFiles, etcd, crashed>>
        BY <1>8 DEF FetcherRange
      <3>3. QED
        BY <2>2, <3>1, <3>2
    <2>3. QED
      BY <1>8, <2>1, <2>2, SMTT(30) DEF FetcherRange
  <1>9. ASSUME NEW f \in Fetchers, FetcherSelect(f) PROVE TypeInv'
    BY <1>9, SMTT(30) DEF FetcherSelect, GoF, CanFail
  <1>10. ASSUME NEW f \in Fetchers, FetcherErrFetch(f) PROVE TypeInv'
    BY <1>10 DEF FetcherErrFetch, SendErrF, GoF
  <1>11. ASSUME NEW f \in Fetchers, FetcherSentinelFetch(f) PROVE TypeInv'
    BY <1>11 DEF FetcherSentinelFetch, SendInfoF, GoF, Sentinel
  <1>12. ASSUME NEW f \in Fetchers, FetcherPersistNil(f) PROVE TypeInv'
    <2>1. fcur[f] \in Idx
      OBVIOUS
    <2>2. CASE GoF(f, "errPersist") /\ UNCHANGED <<tempFiles, crashed>>
      BY <1>12, <2>2 DEF FetcherPersistNil, GoF
    <2>3. CASE tempFiles' = tempFiles \cup {fcur[f]} /\ crashed' = TRUE
                /\ UNCHANGED fpc
      <3>1. tempFiles' \in SUBSET Idx
        BY <2>1, <2>3
      <3>2. UNCHANGED <<orch, result, fetcherQ, fpc, fcur, faults, apc, nextIdx,
                        pathList, cur, applied, prevFailed, sinceLean, hpc,
                        disarmVal, errCh, applierCh, snapLocs, etcd>>
        BY <1>12, <2>3 DEF FetcherPersistNil
      <3>3. QED
        BY <2>3, <3>1, <3>2
    <2>4. QED
      BY <1>12, <2>2, <2>3 DEF FetcherPersistNil
  <1>13. ASSUME NEW f \in Fetchers, FetcherPersist(f) PROVE TypeInv'
    <2>1. fcur[f] \in Idx
      OBVIOUS
    <2>2. tempFiles' \in SUBSET Idx
      BY <1>13, <2>1 DEF FetcherPersist
    <2>3. faults' \in 0 .. MaxFetcherFaults
      BY <1>13 DEF FetcherPersist, CanFail
    <2>4. QED
      BY <1>13, <2>2, <2>3 DEF FetcherPersist, GoF
  <1>14. ASSUME NEW f \in Fetchers, FetcherErrPersist(f) PROVE TypeInv'
    BY <1>14 DEF FetcherErrPersist, SendErrF, GoF
  <1>15. ASSUME NEW f \in Fetchers, FetcherSentinelPersist(f) PROVE TypeInv'
    BY <1>15 DEF FetcherSentinelPersist, SendInfoF, GoF, Sentinel
  <1>16. ASSUME NEW f \in Fetchers, FetcherLoc(f) PROVE TypeInv'
    BY <1>16 DEF FetcherLoc, GoF
  <1>17. ASSUME NEW f \in Fetchers, FetcherInfo(f) PROVE TypeInv'
    BY <1>17 DEF FetcherInfo, SendInfoF, GoF
  <1>18. CASE ApplierStart
    BY <1>18 DEF ApplierStart
  <1>19. CASE ApplierSelect
    <2>1. CASE StopClosed /\ apc' = "done" /\ UNCHANGED <<applierCh, pathList, cur>>
      BY <1>19, <2>1, SMTT(30) DEF ApplierSelect
    <2>2. CASE applierCh # <<>> /\ applierCh' = Tail(applierCh)
      <3> DEFINE m == Head(applierCh)
      <3>1. m \in Idx \cup {Sentinel} /\ Tail(applierCh) \in Seq(Idx \cup {Sentinel})
        BY <2>2, HeadTailProperties
      <3>2. CASE m = Sentinel
        <4>1. apc' = "done" /\ UNCHANGED <<pathList, cur>>
          BY <1>19, <2>2, <3>2 DEF ApplierSelect
        <4>2. UNCHANGED <<orch, result, fetcherQ, fpc, fcur, faults, nextIdx,
                          applied, prevFailed, sinceLean, hpc, disarmVal, errCh,
                          snapLocs, tempFiles, etcd, crashed>>
          BY <1>19 DEF ApplierSelect
        <4>3. QED
          BY <2>2, <3>1, <4>1, <4>2
      <3>3. CASE m # Sentinel
        <4>0. /\ pathList' = pathList \cup {m}
              /\ apc' = (CASE m < nextIdx        -> "sendErr"
                             [] InOrder(m, nextIdx) -> "read"
                             [] OTHER               -> "select")
              /\ cur' = IF InOrder(m, nextIdx) THEN m ELSE cur
          <5>1. Len(applierCh') = Len(applierCh) - 1
            BY <2>2, HeadTailProperties
          <5>2. ~UNCHANGED applierCh
            BY <5>1, <2>2
          <5>3. QED
            BY <1>19, <2>2, <3>3, <5>2, Zenon DEF ApplierSelect
        <4>1. m \in Idx
          BY <3>1, <3>3
        <4>2. pathList' = pathList \cup {m}
          BY <4>0
        <4>3. UNCHANGED <<orch, result, fetcherQ, fpc, fcur, faults, nextIdx,
                          applied, prevFailed, sinceLean, hpc, disarmVal, errCh,
                          snapLocs, tempFiles, etcd, crashed>>
          BY <1>19 DEF ApplierSelect
        <4>4. pathList' \in SUBSET Idx /\ applierCh' \in Seq(Idx \cup {Sentinel})
          BY <2>2, <3>1, <4>1, <4>2
        <4>5. \/ apc' = "sendErr" /\ cur' = cur
              \/ apc' = "read" /\ cur' = m /\ m = nextIdx
              \/ apc' = "select" /\ cur' = cur
          <5>1. m < nextIdx \/ m = nextIdx \/ m > nextIdx
            BY <4>1
          <5>2. apc' = (CASE m < nextIdx        -> "sendErr"
                             [] InOrder(m, nextIdx) -> "read"
                             [] OTHER               -> "select")
                /\ cur' = IF InOrder(m, nextIdx) THEN m ELSE cur
            BY <4>0
          <5>0. nextIdx \in Int
            OBVIOUS
          <5> HIDE DEF TypeInv, TypeOK, LoopInv
          <5>3. CASE m < nextIdx
            <6>1. m # nextIdx
              BY <4>1, <5>0, <5>3
            <6>2. QED
              BY <5>2, <5>3, <6>1 DEF InOrder
          <5>4. CASE m = nextIdx
            <6>1. ~(m < nextIdx)
              BY <4>1, <5>0, <5>4
            <6>2. QED
              BY <5>2, <5>4, <6>1 DEF InOrder
          <5>5. CASE m > nextIdx
            <6>1. ~(m < nextIdx) /\ m # nextIdx
              BY <4>1, <5>0, <5>5
            <6>2. QED
              BY <5>2, <6>1 DEF InOrder
          <5>6. QED
            BY <5>1, <5>3, <5>4, <5>5
        <4>6. cur' \in Idx
          BY <4>1, <4>5
        <4>7. LoopInv'
          <5>1. nextIdx' = nextIdx
            BY <4>3
          <5> HIDE DEF TypeInv, TypeOK
          <5>2. QED
            BY <4>5, <5>1
        <4>8. apc' \in ApplierPCs
          BY <4>5
        <4>9. TypeOK'
          BY <4>3, <4>4, <4>6, <4>8
        <4>10. QED
          BY <4>7, <4>9
      <3>4. QED
        BY <3>2, <3>3
    <2>3. QED
      BY <1>19, <2>1, <2>2 DEF ApplierSelect
  <1>20. CASE ApplierRead
    BY <1>20 DEF ApplierRead
  <1>21. CASE ApplierApply
    <2>1. cur = nextIdx /\ cur \in Idx
      BY <1>21 DEF ApplierApply
    <2>2. CASE etcd' = Append(etcd, cur) /\ tempFiles' = tempFiles \ {cur}
               /\ nextIdx' = nextIdx + 1 /\ sinceLean' = sinceLean + 1
               /\ IF Finished(nextIdx + 1)
                  THEN apc' = "sendNil" /\ UNCHANGED <<applied, cur>>
                  ELSE /\ applied' = applied + 1
                       /\ IF LeanDue(applied + 1, prevFailed)
                          THEN apc' = "lean" /\ UNCHANGED cur
                          ELSE apc' = "read" /\ cur' = cur + 1
      <3>1. etcd' \in Seq(Idx)
        BY <2>1, <2>2, AppendProperties
      <3>2. UNCHANGED <<orch, result, fetcherQ, fpc, fcur, faults, pathList,
                        prevFailed, hpc, disarmVal, errCh, applierCh, snapLocs,
                        crashed>>
        BY <1>21 DEF ApplierApply
      <3>3. nextIdx' \in 0 .. NumSnaps /\ sinceLean' \in Nat
            /\ tempFiles' \in SUBSET Idx
        BY <2>1, <2>2
      <3>4. CASE Finished(nextIdx + 1)
        <4>1. apc' = "sendNil" /\ UNCHANGED <<applied, cur>>
          BY <2>2, <3>4
        <4>2. QED
          BY <3>1, <3>2, <3>3, <4>1, SMTT(30)
      <3>5. CASE ~Finished(nextIdx + 1)
        <4>1. nextIdx + 1 < NumSnaps
          BY <2>1, <3>5 DEF Finished
        <4>2. applied' = applied + 1
          BY <2>2, <3>5
        <4>3. \/ apc' = "lean" /\ cur' = cur
              \/ apc' = "read" /\ cur' = cur + 1
          BY <2>2, <3>5
        <4>4. cur' \in Idx /\ applied' \in Nat \ {0}
          BY <2>1, <4>1, <4>2, <4>3
        <4>5. LoopInv'
          <5> HIDE DEF TypeInv, TypeOK
          <5>1. nextIdx' = nextIdx + 1 /\ cur = nextIdx /\ cur \in Int
            BY <2>1, <2>2
          <5>2. QED
            BY <4>1, <4>3, <5>1
        <4>6. apc' \in ApplierPCs
          BY <4>3
        <4>7. TypeOK'
          BY <3>1, <3>2, <3>3, <4>4, <4>6, SMTT(30)
        <4>8. QED
          BY <4>5, <4>7
      <3>6. QED
        BY <3>4, <3>5
    <2>3. CASE etcd' \in {etcd, Append(etcd, cur)} /\ apc' = "sendErr"
               /\ UNCHANGED <<tempFiles, nextIdx, sinceLean, applied, cur>>
      <3>1. etcd' \in Seq(Idx)
        <4>1. Append(etcd, cur) \in Seq(Idx)
          BY <2>1, AppendProperties
        <4>2. QED
          BY <2>3, <4>1
      <3>2. UNCHANGED <<orch, result, fetcherQ, fpc, fcur, faults, pathList,
                        prevFailed, hpc, disarmVal, errCh, applierCh, snapLocs,
                        crashed>>
        BY <1>21 DEF ApplierApply
      <3>3. QED
        BY <2>3, <3>1, <3>2
    <2>4. QED
      BY <1>21, <2>2, <2>3 DEF ApplierApply
  <1>22. CASE ApplierLean
    <2>1. cur + 1 = nextIdx /\ nextIdx < NumSnaps /\ cur + 1 \in Idx
      BY <1>22 DEF ApplierLean
    <2>2. CASE prevFailed' \in BOOLEAN /\ apc' = "read" /\ cur' = cur + 1
      BY <1>22, <2>1, <2>2 DEF ApplierLean
    <2>3. CASE apc' = "alarm" /\ UNCHANGED <<prevFailed, cur>>
      BY <1>22, <2>1, <2>3 DEF ApplierLean
    <2>4. \/ prevFailed' \in BOOLEAN /\ apc' = "read" /\ cur' = cur + 1
          \/ apc' = "alarm" /\ UNCHANGED <<prevFailed, cur>>
      BY <1>22, Zenon DEF ApplierLean
    <2>5. QED
      BY <2>2, <2>3, <2>4, Zenon
  <1>23. CASE ApplierAlarm
    BY <1>23 DEF ApplierAlarm
  <1>24. CASE ApplierDisarm
    BY <1>24 DEF ApplierDisarm
  <1>25. CASE ApplierSendErr
    BY <1>25 DEF ApplierSendErr, ApplierSend
  <1>26. CASE ApplierSendNil
    BY <1>26 DEF ApplierSendNil, ApplierSend
  <1>27. CASE HandlerStart
    BY <1>27 DEF HandlerStart
  <1>28. CASE HandlerStop
    BY <1>28 DEF HandlerStop
  <1>29. CASE HandlerDefrag
    BY <1>29 DEF HandlerDefrag
  <1>30. CASE UNCHANGED vars
    BY <1>30 DEF vars
  <1>31. QED
    BY <1>1, <1>2, <1>3, <1>4, <1>5, <1>6, <1>7, <1>8, <1>9, <1>10, <1>11,
       <1>12, <1>13, <1>14, <1>15, <1>16, <1>17, <1>18, <1>19, <1>20, <1>21,
       <1>22, <1>23, <1>24, <1>25, <1>26, <1>27, <1>28, <1>29, <1>30
    DEF Next, Orchestrator, Fetcher, Applier, Handler

(***************************************************************************)
(* Type correctness of the restore pipeline: in every reachable state the  *)
(* goroutines' control points, the channel contents, the reorder buffer    *)
(* pathList and currSnapIndex stay within their declared ranges; in        *)
(* particular applySnaps never advances currSnapIndex past the last delta  *)
(* of remainingSnaps.                                                      *)
(***************************************************************************)
THEOREM TypeCorrect == Spec => []TypeOK
  <1>1. Init => TypeInv
    BY TypeInit
  <1>2. TypeInv /\ [Next]_vars => TypeInv'
    BY TypeStep
  <1>3. TypeInv => TypeOK
    BY DEF TypeInv
  <1>4. QED
    BY <1>1, <1>2, <1>3, PTL DEF Spec

-----------------------------------------------------------------------------
(* AppliedInOrder.                                                         *)

\* The sequence 0, 1, ..., n-1 of deltas extended by delta n.
LEMMA AppendNext ==
  ASSUME NEW n \in Nat
  PROVE  Append([k \in 1 .. n |-> k - 1], n) = [k \in 1 .. n + 1 |-> k - 1]
  <1>1. [k \in 1 .. n |-> k - 1] \in Seq(Nat) /\ Len([k \in 1 .. n |-> k - 1]) = n
    BY SMT
  <1>2. QED
    BY <1>1

\* A step that leaves the transient etcd and nextSnapIndexToApply alone and
\* does not take applySnaps out of its error exit.
Calm ==
    /\ etcd' = etcd
    /\ nextIdx' = nextIdx
    /\ apc \in {"sendErr", "done"} => apc' \in {"sendErr", "done"}

LEMMA CalmSteps ==
  ASSUME [Next]_vars, ~ApplierApply
  PROVE  Calm
  <1> USE DEF Calm, fetcherVars, applierVars, handlerVars, chanVars
  <1>1. Orchestrator => Calm
    BY SMTT(30) DEF Orchestrator, Dispatch, ReceiveErr, CloseStop, Join, DrainLoc, Return
  <1>2. ASSUME NEW f \in Fetchers, Fetcher(f) PROVE Calm
    BY <1>2 DEF Fetcher, FetcherStart, FetcherRange, FetcherSelect,
               FetcherErrFetch, FetcherSentinelFetch, FetcherPersistNil,
               FetcherPersist, FetcherErrPersist, FetcherSentinelPersist,
               FetcherLoc, FetcherInfo, SendErrF, SendInfoF, GoF
  <1>3. Handler => Calm
    BY DEF Handler, HandlerStart, HandlerStop, HandlerDefrag
  <1>4. (Applier /\ ~ApplierApply) => Calm
    BY DEF Applier, ApplierStart, ApplierSelect, ApplierRead, ApplierLean,
           ApplierAlarm, ApplierDisarm, ApplierSendErr, ApplierSendNil,
           ApplierSend
  <1>5. UNCHANGED vars => Calm
    BY DEF vars
  <1>6. QED
    BY <1>1, <1>2, <1>3, <1>4, <1>5 DEF Next

THEOREM OrderInit == Init => OrderInv
  <1> SUFFICES ASSUME Init PROVE OrderInv
    OBVIOUS
  <1>1. TypeInv
    BY TypeInit
  <1>2. AppliedInOrder /\ EtcdLenInv
    BY DEF Init, AppliedInOrder, EtcdLenInv
  <1>3. QED
    BY <1>1, <1>2 DEF OrderInv

THEOREM OrderStep == OrderInv /\ [Next]_vars => OrderInv'
  <1> SUFFICES ASSUME OrderInv, [Next]_vars PROVE OrderInv'
    OBVIOUS
  <1>1. TypeInv'
    BY TypeStep DEF OrderInv
  <1>2. CASE ApplierApply
    <2>1. apc = "apply" /\ cur = nextIdx /\ nextIdx \in Nat
      BY <1>2 DEF ApplierApply, OrderInv, TypeInv, LoopInv, TypeOK
    <2>2. Len(etcd) = nextIdx /\ etcd = [k \in 1 .. nextIdx |-> k - 1]
      BY <2>1 DEF OrderInv, EtcdLenInv, AppliedInOrder
    <2>3. Append(etcd, cur) = [k \in 1 .. nextIdx + 1 |-> k - 1]
      BY <2>1, <2>2, AppendNext
    <2>4. Len(Append(etcd, cur)) = nextIdx + 1
      <3>1. etcd \in Seq(Nat)
        BY <2>2, <2>1, SMT
      <3>2. QED
        BY <2>1, <2>2, <3>1, AppendProperties
    <2>5. CASE etcd' = Append(etcd, cur) /\ nextIdx' = nextIdx + 1
      BY <1>1, <2>3, <2>4, <2>5 DEF OrderInv, AppliedInOrder, EtcdLenInv
    <2>6. CASE etcd' \in {etcd, Append(etcd, cur)} /\ apc' = "sendErr"
               /\ nextIdx' = nextIdx
      BY <1>1, <2>2, <2>3, <2>4, <2>6 DEF OrderInv, AppliedInOrder, EtcdLenInv
    <2>7. QED
      BY <1>1, <1>2, <2>5, <2>6 DEF ApplierApply, OrderInv
  <1>3. CASE ~ApplierApply
    <2>1. Calm
      BY <1>3, CalmSteps
    <2>2. QED
      BY <1>1, <2>1 DEF Calm, OrderInv, AppliedInOrder, EtcdLenInv
  <1>4. QED
    BY <1>2, <1>3

(***************************************************************************)
(* Deltas reach the transient etcd in order: whatever order the fetchers   *)
(* finish in, applySnaps writes delta 0, then 1, then 2 and so on, none    *)
(* skipped and none twice (pathList and nextSnapIndexToApply, lines        *)
(* 654-711), for every number of deltas and fetchers.                      *)
(***************************************************************************)
THEOREM OrderedApply == Spec => []AppliedInOrder
  <1>1. Init => OrderInv
    BY OrderInit
  <1>2. OrderInv /\ [Next]_vars => OrderInv'
    BY OrderStep
  <1>3. OrderInv => AppliedInOrder
    BY DEF OrderInv
  <1>4. QED
    BY <1>1, <1>2, <1>3, PTL DEF Spec

-----------------------------------------------------------------------------
(* SuccessImpliesComplete.                                                 *)

(***************************************************************************)
(* The only nil ever sent on errCh is applySnaps' "restore finished" of    *)
(* line 706, sent once nextSnapIndexToApply has reached len(remainingSnaps) *)
(* (fetchers only send errors); so a nil in errCh, or received as err at   *)
(* line 553, means nextIdx = NumSnaps, and nextIdx never moves after that. *)
(***************************************************************************)
NilInv ==
    /\ apc = "sendNil" => nextIdx = NumSnaps
    /\ \A i \in 1 .. Len(errCh) : errCh[i] = "nil" => nextIdx = NumSnaps
    /\ result = "nil" => nextIdx = NumSnaps

CompleteInv == OrderInv /\ NilInv

\* A step that leaves nextIdx and the result alone, does not enter the send
\* of nil, and at most appends an error to errCh.
NilCalm ==
    /\ nextIdx' = nextIdx
    /\ result' = result
    /\ apc' = "sendNil" => apc = "sendNil"
    /\ errCh' \in {errCh, Append(errCh, "err")}

LEMMA NilCalmSteps ==
  ASSUME [Next]_vars, ~ApplierApply, ~ApplierSendNil, ~ReceiveErr
  PROVE  NilCalm
  <1> USE DEF NilCalm, fetcherVars, applierVars, handlerVars, chanVars
  <1>1. Orchestrator => NilCalm
    BY DEF Orchestrator, Dispatch, CloseStop, Join, DrainLoc, Return
  <1>2. ASSUME NEW f \in Fetchers, Fetcher(f) PROVE NilCalm
    BY <1>2 DEF Fetcher, FetcherStart, FetcherRange, FetcherSelect,
               FetcherErrFetch, FetcherSentinelFetch, FetcherPersistNil,
               FetcherPersist, FetcherErrPersist, FetcherSentinelPersist,
               FetcherLoc, FetcherInfo, SendErrF, SendInfoF, GoF
  <1>3. Handler => NilCalm
    BY DEF Handler, HandlerStart, HandlerStop, HandlerDefrag
  <1>4. (Applier /\ ~ApplierApply /\ ~ApplierSendNil) => NilCalm
    BY DEF Applier, ApplierStart, ApplierSelect, ApplierRead, ApplierLean,
           ApplierAlarm, ApplierDisarm, ApplierSendErr, ApplierSend
  <1>5. UNCHANGED vars => NilCalm
    BY DEF vars
  <1>6. QED
    BY <1>1, <1>2, <1>3, <1>4, <1>5 DEF Next

THEOREM CompleteInit == Init => CompleteInv
  <1> SUFFICES ASSUME Init PROVE CompleteInv
    OBVIOUS
  <1>1. OrderInv
    BY OrderInit
  <1>2. NilInv
    BY DEF Init, NilInv
  <1>3. QED
    BY <1>1, <1>2 DEF CompleteInv

THEOREM CompleteStep == CompleteInv /\ [Next]_vars => CompleteInv'
  <1> SUFFICES ASSUME CompleteInv, [Next]_vars PROVE CompleteInv'
    OBVIOUS
  <1>1. OrderInv'
    BY OrderStep DEF CompleteInv
  <1>2. errCh \in Seq(ErrVals) /\ nextIdx \in 0 .. NumSnaps
    BY DEF CompleteInv, OrderInv, TypeInv, TypeOK
  <1>3. CASE ApplierApply
    <2>1. nextIdx < NumSnaps
      BY <1>3 DEF ApplierApply, CompleteInv, OrderInv, TypeInv, LoopInv,
                  TypeOK, Idx
    <2>2. ~\E i \in 1 .. Len(errCh) : errCh[i] = "nil"
      BY <2>1 DEF CompleteInv, NilInv
    <2>3. result # "nil"
      BY <2>1 DEF CompleteInv, NilInv
    <2>4. UNCHANGED <<errCh, result>>
      BY <1>3 DEF ApplierApply, chanVars
    <2>5. apc' = "sendNil" => nextIdx' = NumSnaps
      BY <1>3, <1>2 DEF ApplierApply, Finished
    <2>6. QED
      BY <1>1, <2>2, <2>3, <2>4, <2>5 DEF CompleteInv, NilInv
  <1>4. CASE ApplierSendNil
    <2>1. nextIdx = NumSnaps
      BY <1>4 DEF ApplierSendNil, ApplierSend, CompleteInv, NilInv
    <2>2. nextIdx' = nextIdx /\ result' = result
      BY <1>4 DEF ApplierSendNil, ApplierSend
    <2>3. QED
      BY <1>1, <2>1, <2>2 DEF CompleteInv, NilInv
  <1>5. CASE ReceiveErr
    <2>1. errCh # <<>> /\ result' = Head(errCh) /\ errCh' = Tail(errCh)
          /\ UNCHANGED <<nextIdx, apc>>
      BY <1>5 DEF ReceiveErr, applierVars
    <2>2. Len(errCh) \in Nat \ {0}
      BY <1>2, <2>1, EmptySeq
    <2>3. Head(errCh) = errCh[1]
      BY <2>1
    <2>4. Tail(errCh) \in Seq(ErrVals) /\ Len(Tail(errCh)) = Len(errCh) - 1
          /\ \A i \in 1 .. Len(Tail(errCh)) : Tail(errCh)[i] = errCh[i + 1]
      BY <1>2, <2>1, HeadTailProperties
    <2>5. \A i \in 1 .. Len(errCh') : errCh'[i] = "nil" => nextIdx' = NumSnaps
      BY <2>1, <2>2, <2>4 DEF CompleteInv, NilInv
    <2>6. result' = "nil" => nextIdx' = NumSnaps
      BY <2>1, <2>2, <2>3 DEF CompleteInv, NilInv
    <2>7. QED
      BY <1>1, <2>1, <2>5, <2>6 DEF CompleteInv, NilInv
  <1>6. CASE ~ApplierApply /\ ~ApplierSendNil /\ ~ReceiveErr
    <2>1. NilCalm
      BY <1>6, NilCalmSteps
    <2>2. CASE errCh' = errCh
      BY <1>1, <2>1, <2>2 DEF NilCalm, CompleteInv, NilInv
    <2>3. CASE errCh' = Append(errCh, "err")
      <3>1. Len(errCh') = Len(errCh) + 1
            /\ \A i \in 1 .. Len(errCh) : errCh'[i] = errCh[i]
            /\ errCh'[Len(errCh) + 1] = "err"
        BY <1>2, <2>3, AppendProperties DEF ErrVals
      <3>2. \A i \in 1 .. Len(errCh') : errCh'[i] = "nil" => nextIdx' = NumSnaps
        BY <1>2, <2>1, <3>1 DEF NilCalm, CompleteInv, NilInv
      <3>3. QED
        BY <1>1, <2>1, <3>2 DEF NilCalm, CompleteInv, NilInv
    <2>4. QED
      BY <2>1, <2>2, <2>3 DEF NilCalm
  <1>7. QED
    BY <1>3, <1>4, <1>5, <1>6

\* Once nextSnapIndexToApply has reached the end, the transient etcd holds
\* every delta in order.
LEMMA AllWritten ==
  ASSUME CompleteInv, nextIdx = NumSnaps
  PROVE  etcd = [k \in 1 .. NumSnaps |-> k - 1]
  <1>1. etcd \in Seq(Idx) /\ etcd = [k \in 1 .. Len(etcd) |-> k - 1]
    BY DEF CompleteInv, OrderInv, TypeInv, TypeOK, AppliedInOrder
  <1>2. Len(etcd) # NumSnaps + 1
    <2>1. SUFFICES ASSUME Len(etcd) = NumSnaps + 1 PROVE FALSE
      OBVIOUS
    <2>2. etcd[NumSnaps + 1] \in Idx
      BY <1>1, <2>1, ElementOfSeq
    <2>3. etcd[NumSnaps + 1] = NumSnaps
      BY <1>1, <2>1
    <2>4. QED
      BY <2>2, <2>3 DEF Idx
  <1>3. Len(etcd) = NumSnaps
    BY <1>2 DEF CompleteInv, OrderInv, EtcdLenInv
  <1>4. QED
    BY <1>1, <1>3

LEMMA CompleteImpliesSuccess == CompleteInv => SuccessImpliesComplete
  <1> SUFFICES ASSUME CompleteInv, result = "nil"
               PROVE  etcd = [k \in 1 .. NumSnaps |-> k - 1]
    BY DEF SuccessImpliesComplete
  <1>1. nextIdx = NumSnaps
    BY DEF CompleteInv, NilInv
  <1>2. QED
    BY <1>1, AllWritten

(***************************************************************************)
(* applyDeltaSnapshots returns nil only after every remaining delta was    *)
(* written to the transient etcd, in order: the first value taken from     *)
(* errCh at line 553 is nil only if applySnaps sent it at line 706, for    *)
(* every number of deltas, fetchers and failures.                          *)
(***************************************************************************)
THEOREM SuccessComplete == Spec => []SuccessImpliesComplete
  <1>1. Init => CompleteInv
    BY CompleteInit
  <1>2. CompleteInv /\ [Next]_vars => CompleteInv'
    BY CompleteStep
  <1>3. CompleteInv => SuccessImpliesComplete
    BY CompleteImpliesSuccess
  <1>4. QED
    BY <1>1, <1>2, <1>3, PTL DEF Spec


-----------------------------------------------------------------------------
(* DeltaApplyRefined: applyDeltaSnapshots implements DeltaApply.          *)

(***************************************************************************)
(* The err is still undecided while the orchestrator has not passed the   *)
(* receive of line 553; with CompleteInv this is all the refinement needs. *)
(***************************************************************************)
WaitInv == orch \in {"dispatch", "wait"} => result = "none"

RefInv == CompleteInv /\ WaitInv

\* Only the receive at line 553 sets the err, and no step brings the
\* orchestrator back before it.
LEMMA ResultSteps ==
  ASSUME [Next]_vars, ~ReceiveErr
  PROVE  /\ result' = result
         /\ orch' \in {"dispatch", "wait"} => orch \in {"dispatch", "wait"}
  <1> USE DEF fetcherVars, applierVars, handlerVars, chanVars
  <1>1. CASE Orchestrator
    BY <1>1, SMTT(30) DEF Orchestrator, Dispatch, CloseStop, Join, DrainLoc, Return
  <1>2. ASSUME NEW f \in Fetchers, Fetcher(f)
        PROVE  result' = result /\ orch' = orch
    BY <1>2 DEF Fetcher, FetcherStart, FetcherRange, FetcherSelect,
               FetcherErrFetch, FetcherSentinelFetch, FetcherPersistNil,
               FetcherPersist, FetcherErrPersist, FetcherSentinelPersist,
               FetcherLoc, FetcherInfo, SendErrF, SendInfoF, GoF
  <1>3. CASE Handler
    BY <1>3 DEF Handler, HandlerStart, HandlerStop, HandlerDefrag
  <1>4. CASE Applier
    BY <1>4 DEF Applier, ApplierStart, ApplierSelect, ApplierRead,
                ApplierApply, ApplierLean, ApplierAlarm, ApplierDisarm,
                ApplierSendErr, ApplierSendNil, ApplierSend
  <1>5. CASE UNCHANGED vars
    BY <1>5 DEF vars
  <1>6. QED
    BY <1>1, <1>2, <1>3, <1>4, <1>5 DEF Next

THEOREM RefInit == Init => RefInv
  BY CompleteInit DEF Init, RefInv, WaitInv

THEOREM RefStep == RefInv /\ [Next]_vars => RefInv'
  <1> SUFFICES ASSUME RefInv, [Next]_vars PROVE RefInv'
    OBVIOUS
  <1>1. CompleteInv'
    BY CompleteStep DEF RefInv
  <1>2. CASE ReceiveErr
    BY <1>1, <1>2 DEF ReceiveErr, RefInv, WaitInv
  <1>3. CASE ~ReceiveErr
    BY <1>1, <1>3, ResultSteps DEF RefInv, WaitInv
  <1>4. QED
    BY <1>2, <1>3

\* Every step of the pipeline is a step of DeltaApply or leaves the
\* transient etcd and the err alone.
THEOREM RefNext ==
  RefInv /\ RefInv' /\ [Next]_vars => [DeltaApplyAbs!Next]_DeltaApplyAbs!vars
  <1> SUFFICES ASSUME RefInv, RefInv', [Next]_vars
               PROVE  [DeltaApplyAbs!Next]_DeltaApplyAbs!vars
    OBVIOUS
  <1> USE DEF DeltaApplyAbs!Next, DeltaApplyAbs!vars
  <1>1. CASE ApplierApply
    <2>1. apc = "apply" /\ cur = nextIdx /\ nextIdx \in Nat /\ nextIdx < NumSnaps
      BY <1>1 DEF ApplierApply, RefInv, CompleteInv, OrderInv, TypeInv,
                  LoopInv, TypeOK, Idx
    <2>2. Len(etcd) = nextIdx
      BY <2>1 DEF RefInv, CompleteInv, OrderInv, EtcdLenInv
    <2>3. result' = result
      BY <1>1 DEF ApplierApply
    <2>4. etcd' \in {etcd, Append(etcd, cur)}
      BY <1>1 DEF ApplierApply
    <2>5. CASE etcd' = Append(etcd, cur)
      BY <2>1, <2>2, <2>3, <2>5 DEF DeltaApplyAbs!WriteNext
    <2>6. QED
      BY <2>3, <2>4, <2>5, SMTT(30)
  <1>2. CASE ReceiveErr
    <2>1. result = "none" /\ etcd' = etcd
      BY <1>2 DEF ReceiveErr, RefInv, WaitInv
    <2>2. result' \in {"nil", "err"}
      <3>1. errCh \in Seq(ErrVals) /\ errCh # <<>>
        BY <1>2 DEF ReceiveErr, RefInv, CompleteInv, OrderInv, TypeInv, TypeOK
      <3>2. Head(errCh) \in ErrVals
        BY <3>1, HeadTailProperties
      <3>3. QED
        BY <1>2, <3>2 DEF ReceiveErr, ErrVals
    <2>3. result' = "nil" => Len(etcd') = NumSnaps
      <3>1. SUFFICES ASSUME result' = "nil" PROVE Len(etcd') = NumSnaps
        OBVIOUS
      <3>2. errCh \in Seq(ErrVals) /\ errCh # <<>> /\ errCh[1] = "nil"
        BY <1>2, <3>1 DEF ReceiveErr, RefInv, CompleteInv, OrderInv,
                          TypeInv, TypeOK
      <3>3. nextIdx = NumSnaps
        BY <3>2, EmptySeq DEF RefInv, CompleteInv, NilInv
      <3>4. etcd = [k \in 1 .. NumSnaps |-> k - 1]
        BY <3>3, AllWritten DEF RefInv
      <3>5. QED
        BY <2>1, <3>4
    <2>4. QED
      BY <2>1, <2>2, <2>3 DEF DeltaApplyAbs!ReportNil, DeltaApplyAbs!ReportErr
  <1>3. CASE ~ApplierApply /\ ~ReceiveErr
    BY <1>3, CalmSteps, ResultSteps DEF Calm
  <1>4. QED
    BY <1>1, <1>2, <1>3

(***************************************************************************)
(* applyDeltaSnapshots implements DeltaApply, for every number of deltas, *)
(* fetchers and failures: seen through the transient etcd and the err it  *)
(* returns, the concurrent pipeline writes the deltas one at a time in    *)
(* order, decides the err once at line 553, and reports nil only after    *)
(* the last delta has been written.                                        *)
(***************************************************************************)
THEOREM Refinement == Spec => DeltaApplyRefined
  <1>1. Init => RefInv
    BY RefInit
  <1>2. RefInv /\ [Next]_vars => RefInv'
    BY RefStep
  <1>3. Init => DeltaApplyAbs!Init
    BY DEF Init, DeltaApplyAbs!Init
  <1>4. RefInv /\ RefInv' /\ [Next]_vars => [DeltaApplyAbs!Next]_DeltaApplyAbs!vars
    BY RefNext
  <1>5. QED
    BY <1>1, <1>2, <1>3, <1>4, PTL DEF Spec, DeltaApplyRefined, DeltaApplyAbs!Spec

=============================================================================
