-------------------------- MODULE EventReplayProofs --------------------------
(***************************************************************************)
(* Proofs about the replay of delta snapshots (EventReplay): the embedded  *)
(* etcd mirrors the source cluster revision by revision, and a replay that *)
(* reports success ends in the source's state at the last delta.           *)
(***************************************************************************)
EXTENDS EventReplay, WellFoundedInduction, TLAPS

USE ReplayConstants

\* The effect of one source transaction on a state.
ApplyTxn(s, t) == [k \in Keys |-> IF k \in DOMAIN t THEN t[k] ELSE s[k]]

\* The revision the first delta starts at.
FirstFrom == CHOOSE s \in 1 .. base + 1 :
                /\ s <= deltas[1].last
                /\ \A k \in 1 .. Len(deltas) - 1 : deltas[k].last < deltas[k + 1].last
                /\ \A k \in 1 .. Len(deltas) :
                      IsRangeEvents(deltas[k].events, hist,
                                    IF k = 1 THEN s ELSE deltas[k - 1].last + 1,
                                    deltas[k].last)

\* The etcd revision below which delta k holds nothing that is applied.
Low(k) == IF k = 1 THEN base ELSE deltas[k - 1].last

\* The full snapshot is not past the first delta.
Good == base <= deltas[1].last

\* The inputs keep the shape Init gave them.
InputsOK ==
    /\ hist \in Histories
    /\ base \in 0 .. MaxRev
    /\ deltas \in DeltaChains(hist, base)

\* Inside applyEventsToEtcd: either no Txn is pending and event i opens the
\* next revision, or ops holds the events of revision rev + 1 read so far,
\* which are the events right before i. Events before them are applied.
Pending ==
    /\ lastRev = 0 =>
          /\ ops = <<>>
          /\ i \in 1 .. Len(Evs)
          /\ Evs[i].rev = rev + 1
          /\ \A j \in 1 .. i - 1 : Evs[j].rev <= rev
    /\ lastRev # 0 =>
          /\ lastRev = rev + 1
          /\ 1 <= Len(ops)
          /\ Len(ops) < i
          /\ \A j \in 1 .. Len(ops) :
                /\ ops[j] = OpOf(Evs[i - Len(ops) + j - 1])
                /\ Evs[i - Len(ops) + j - 1].rev = lastRev
          /\ \A j \in 1 .. i - Len(ops) - 1 : Evs[j].rev <= rev

-----------------------------------------------------------------------------
(* Lemmas about the model's operators.                                    *)

KVs == [Keys -> Vals \cup {NoVal}]

OpRecs == [type : {"PUT", "DELETE"}, key : Keys, val : Vals \cup {NoVal}]

Gaps(n, J) == {n - j : j \in J}

\* A nonempty set of revisions or op positions has a latest element, which
\* Latest picks (the last transaction writing a key, the last op on a key).
LEMMA LatestIn ==
    ASSUME NEW n \in Nat, NEW J \in SUBSET (1 .. n), J # {}
    PROVE  Latest(J) \in J /\ \A m \in J : m <= Latest(J)
<1>1. Gaps(n, J) \subseteq Nat /\ Gaps(n, J) # {}
  <2>1. \A j \in J : n - j \in Nat
    OBVIOUS
  <2>2. QED
    BY <2>1 DEF Gaps
<1>2. \E x \in Gaps(n, J) : \A y \in Gaps(n, J) : ~(<<y, x>> \in OpToRel(<, Nat))
  BY <1>1, NatLessThanWellFounded, WFMin
<1>3. PICK x \in Gaps(n, J) : \A y \in Gaps(n, J) : ~(y < x)
  BY <1>1, <1>2 DEF OpToRel
<1>4. PICK j \in J : x = n - j
  BY <1>3 DEF Gaps
<1>5. \A m \in J : m <= j
  <2>1. SUFFICES ASSUME NEW m \in J PROVE m <= j
    OBVIOUS
  <2>2. n - m \in Gaps(n, J)
    BY DEF Gaps
  <2>3. ~(n - m < n - j)
    BY <1>3, <1>4, <2>2
  <2>4. QED
    BY <2>3
<1>6. QED
  BY <1>5 DEF Latest

\* A source transaction touches a nonempty set of keys.
LEMMA TxnShape ==
    ASSUME NEW t \in Txns
    PROVE  /\ DOMAIN t \subseteq Keys
           /\ DOMAIN t # {}
           /\ \A k \in DOMAIN t : t[k] \in Vals \cup {NoVal}
<1>1. PICK K \in (SUBSET Keys) \ {{}} : t \in [K -> Vals \cup {NoVal}]
  BY DEF Txns
<1>2. DOMAIN t = K /\ \A k \in K : t[k] \in Vals \cup {NoVal}
  BY <1>1
<1>3. K \in SUBSET Keys /\ K \notin {{}}
  BY <1>1
<1>5. K \subseteq Keys /\ K # {}
  BY <1>3
<1>4. QED
  BY <1>2, <1>5

\* The source's state at every revision is a key-value state.
LEMMA HistType ==
    ASSUME NEW h \in [1 .. MaxRev -> Txns], NEW r \in 0 .. MaxRev
    PROVE  HistState(h, r) \in KVs
<1>1. SUFFICES ASSUME NEW k \in Keys,
                      {n \in 1 .. r : k \in DOMAIN h[n]} # {}
               PROVE  h[Latest({n \in 1 .. r : k \in DOMAIN h[n]})][k] \in Vals \cup {NoVal}
  BY DEF HistState, KVs
<1>2. Latest({n \in 1 .. r : k \in DOMAIN h[n]}) \in {n \in 1 .. r : k \in DOMAIN h[n]}
  <2>1. r \in Nat /\ {n \in 1 .. r : k \in DOMAIN h[n]} \in SUBSET (1 .. r)
    OBVIOUS
  <2>2. QED
    BY <1>1, <2>1, LatestIn
<1>3. QED
  BY <1>2, TxnShape

\* Source revision r applies its transaction to the state at r - 1.
LEMMA HistStep ==
    ASSUME NEW h \in [1 .. MaxRev -> Txns], NEW r \in 1 .. MaxRev
    PROVE  HistState(h, r) = ApplyTxn(HistState(h, r - 1), h[r])
<1>1. SUFFICES ASSUME NEW k \in Keys
               PROVE  HistState(h, r)[k] = ApplyTxn(HistState(h, r - 1), h[r])[k]
  BY DEF HistState, ApplyTxn
<1> DEFINE W == {n \in 1 .. r : k \in DOMAIN h[n]}
           V == {n \in 1 .. r - 1 : k \in DOMAIN h[n]}
<1>2. CASE k \in DOMAIN h[r]
  <2>1. r \in W /\ W \subseteq 1 .. r
    BY <1>2
  <2>2. Latest(W) = r
    <3>1. r \in Nat /\ W \in SUBSET (1 .. r) /\ W # {}
      BY <2>1
    <3>2. Latest(W) \in W /\ r <= Latest(W)
      BY <2>1, <3>1, LatestIn
    <3>3. QED
      BY <3>2
  <2>3. HistState(h, r)[k] = h[r][k]
    BY <2>1, <2>2 DEF HistState
  <2>4. QED
    BY <1>2, <2>3 DEF ApplyTxn
<1>3. CASE k \notin DOMAIN h[r]
  <2>1. W = V
    BY <1>3
  <2>2. HistState(h, r)[k] = HistState(h, r - 1)[k]
    BY <2>1 DEF HistState
  <2>3. QED
    BY <1>3, <2>2 DEF ApplyTxn
<1>4. QED
  BY <1>2, <1>3

\* A Txn of well-typed ops leaves a key-value state.
LEMMA CommitType ==
    ASSUME NEW s \in KVs, NEW os \in Seq(OpRecs)
    PROVE  CommitOps(s, os).kv \in KVs
<1>1. SUFFICES ASSUME NEW k \in Keys
               PROVE  OpsValue(s, os, Len(os), k) \in Vals \cup {NoVal}
  BY DEF CommitOps, KVs
<1> DEFINE J == {j \in 1 .. Len(os) : os[j].key = k}
<1>2. CASE J = {}
  BY <1>2 DEF OpsValue, KVs
<1>3. CASE J # {}
  <2>1. Len(os) \in Nat /\ J \in SUBSET (1 .. Len(os))
    OBVIOUS
  <2>2. Latest(J) \in 1 .. Len(os)
    BY <1>3, <2>1, LatestIn
  <2>3. os[Latest(J)] \in OpRecs
    BY <2>2
  <2>4. QED
    BY <1>3, <2>3 DEF OpsValue, OpVal, OpRecs
<1>4. QED
  BY <1>2, <1>3

\* applyEventsToEtcd commits the events of one source revision, each key
\* once and every key of the transaction: the Txn takes the etcd from the
\* source's state before that revision to the state after it, and changes
\* the store, so etcd's revision advances by exactly one.
LEMMA CommitRevision ==
    ASSUME NEW h \in Histories, NEW r \in 1 .. MaxRev,
           NEW os \in Seq(OpRecs), Len(os) >= 1,
           \A j \in 1 .. Len(os) : /\ os[j].key \in DOMAIN h[r]
                                   /\ os[j] = OpOf(EventOf(h, r, os[j].key)),
           \A j, m \in 1 .. Len(os) : j # m => os[j].key # os[m].key,
           \A k \in DOMAIN h[r] : \E j \in 1 .. Len(os) : os[j].key = k
    PROVE  /\ CommitOps(HistState(h, r - 1), os).kv = HistState(h, r)
           /\ CommitOps(HistState(h, r - 1), os).chg
<1>0. h \in [1 .. MaxRev -> Txns]
  BY DEF Histories
<1> DEFINE s == HistState(h, r - 1)
<1>1. CommitOps(s, os).kv = HistState(h, r)
  <2>1. SUFFICES ASSUME NEW k \in Keys
                 PROVE  OpsValue(s, os, Len(os), k) = HistState(h, r)[k]
    <3>1. HistState(h, r) \in KVs
      BY <1>0, HistType
    <3>2. QED
      BY <3>1 DEF CommitOps, KVs
  <2>2. HistState(h, r)[k] = ApplyTxn(s, h[r])[k]
    BY <1>0, HistStep
  <2> DEFINE J == {j \in 1 .. Len(os) : os[j].key = k}
  <2>3. CASE k \in DOMAIN h[r]
    <3>1. PICK j0 \in 1 .. Len(os) : os[j0].key = k
      BY <2>3
    <3>2. J = {j0}
      BY <3>1
    <3>3. Latest(J) = j0
      BY <3>2 DEF Latest
    <3>4. OpVal(os[j0]) = h[r][k]
      <4>1. os[j0] = OpOf(EventOf(h, r, k))
        BY <3>1
      <4>2. os[j0].type = (IF h[r][k] = NoVal THEN "DELETE" ELSE "PUT")
            /\ os[j0].val = h[r][k]
        BY <4>1 DEF OpOf, EventOf
      <4>3. QED
        BY <4>2 DEF OpVal
    <3>5. QED
      BY <2>2, <2>3, <3>2, <3>3, <3>4 DEF OpsValue, ApplyTxn
  <2>4. CASE k \notin DOMAIN h[r]
    <3>1. J = {}
      BY <2>4
    <3>2. QED
      BY <2>2, <2>4, <3>1 DEF OpsValue, ApplyTxn
  <2>5. QED
    BY <2>3, <2>4
<1>2. CommitOps(s, os).chg
  <2> DEFINE k == os[1].key
  <2>1. OpsValue(s, os, 0, k) = s[k]
    BY DEF OpsValue
  <2>2. os[1] = OpOf(EventOf(h, r, k)) /\ k \in DOMAIN h[r]
    OBVIOUS
  <2>3. os[1].type = "PUT" \/ h[r][k] = NoVal
    BY <2>2 DEF OpOf, EventOf
  <2>4. h[r][k] = NoVal => s[k] # NoVal
    BY <2>2 DEF Histories
  <2>5. os[1].type = "PUT" \/ OpsValue(s, os, 1 - 1, os[1].key) # NoVal
    BY <2>1, <2>3, <2>4
  <2>6. QED
    BY <2>5 DEF CommitOps
<1>3. QED
  BY <1>1, <1>2

\* Every event of a delta is the source's event of its key at its revision.
LEMMA EventIn ==
    ASSUME NEW h, NEW s, NEW l, NEW es \in Seq(Events),
           IsRangeEvents(es, h, s, l), NEW p \in 1 .. Len(es)
    PROVE  /\ es[p].rev \in s .. l
           /\ es[p].key \in DOMAIN h[es[p].rev]
           /\ es[p] = EventOf(h, es[p].rev, es[p].key)
<1>1. es[p] \in RevEvents(h, s, l)
  BY DEF IsRangeEvents
<1>2. PICK r \in s .. l : \E k \in DOMAIN h[r] : es[p] = EventOf(h, r, k)
  BY <1>1 DEF RevEvents
<1>3. PICK k \in DOMAIN h[r] : es[p] = EventOf(h, r, k)
  BY <1>2
<1>4. es[p].rev = r /\ es[p].key = k
  BY <1>3 DEF EventOf
<1>5. QED
  BY <1>3, <1>4

\* Every event of a revision in range is in the delta.
LEMMA EventAt ==
    ASSUME NEW h, NEW s, NEW l, NEW es \in Seq(Events),
           IsRangeEvents(es, h, s, l), NEW r \in s .. l, NEW k \in DOMAIN h[r]
    PROVE  \E p \in 1 .. Len(es) : es[p] = EventOf(h, r, k)
<1>1. EventOf(h, r, k) \in RevEvents(h, s, l)
  BY DEF RevEvents
<1>2. QED
  BY <1>1 DEF IsRangeEvents

\* Two events of one revision in a delta are about different keys.
LEMMA DistinctKeys ==
    ASSUME NEW h, NEW s, NEW l, NEW es \in Seq(Events),
           IsRangeEvents(es, h, s, l), NEW p \in 1 .. Len(es),
           NEW q \in 1 .. Len(es), p # q, es[p].rev = es[q].rev
    PROVE  es[p].key # es[q].key
<1>1. es[p] # es[q]
  <2>1. CASE p < q
    BY <2>1 DEF IsRangeEvents
  <2>2. CASE q < p
    BY <2>2 DEF IsRangeEvents
  <2>3. QED
    BY <2>1, <2>2
<1>2. es[p] = EventOf(h, es[p].rev, es[p].key) /\ es[q] = EventOf(h, es[q].rev, es[q].key)
  BY EventIn
<1>3. QED
  BY <1>1, <1>2

\* A delta lists each revision in range: if every event before position i
\* is older than revision r and the one at i is not, the event at i is of r.
LEMMA NextRev ==
    ASSUME NEW h \in [1 .. MaxRev -> Txns], NEW s \in Int, NEW l \in Int,
           NEW es \in Seq(Events), IsRangeEvents(es, h, s, l),
           NEW r \in s .. l, r \in 1 .. MaxRev, NEW at \in 1 .. Len(es) + 1,
           \A j \in 1 .. at - 1 : es[j].rev < r,
           at <= Len(es) => es[at].rev >= r
    PROVE  at <= Len(es) /\ es[at].rev = r
<1>1. PICK k \in DOMAIN h[r] : TRUE
  BY TxnShape
<1>2. PICK p \in 1 .. Len(es) : es[p] = EventOf(h, r, k)
  BY <1>1, EventAt
<1>3. es[p].rev = r
  BY <1>2 DEF EventOf
<1>4. at <= p
  BY <1>3
<1>7. at \in 1 .. Len(es) /\ es[at] \in Events /\ es[p] \in Events
  BY <1>4
<1>5. es[at].rev <= es[p].rev
  <2>1. CASE at = p
    BY <2>1, <1>7 DEF Events
  <2>2. CASE at < p
    <3>1. \A j, m \in 1 .. Len(es) : j < m => es[j].rev <= es[m].rev
      BY DEF IsRangeEvents
    <3>2. QED
      BY <2>2, <1>7, <3>1
  <2>3. QED
    BY <1>4, <2>1, <2>2
<1>8. es[at].rev >= r
  BY <1>7
<1>6. QED
  BY <1>3, <1>7, <1>5, <1>8 DEF Events

\* The revision each delta starts at: FirstFrom for the first, one past
\* the previous delta's LastRevision for the others.
From(k) == IF k = 1 THEN FirstFrom ELSE deltas[k - 1].last + 1

\* What Init's choice of a delta chain guarantees.
LEMMA ChainFacts ==
    ASSUME InputsOK
    PROVE  /\ deltas \in Chain
           /\ Len(deltas) \in 1 .. MaxDeltas
           /\ FirstFrom \in 1 .. base + 1
           /\ FirstFrom <= deltas[1].last
           /\ \A k \in 1 .. Len(deltas) - 1 : deltas[k].last < deltas[k + 1].last
           /\ \A k \in 1 .. Len(deltas) :
                 IsRangeEvents(deltas[k].events, hist, From(k), deltas[k].last)
<1>1. deltas \in Chain /\ Len(deltas) \in 1 .. MaxDeltas /\ IsDeltaChain(deltas, hist, base)
  BY DEF InputsOK, DeltaChains
<1>2. \E s \in 1 .. base + 1 :
         /\ s <= deltas[1].last
         /\ \A k \in 1 .. Len(deltas) - 1 : deltas[k].last < deltas[k + 1].last
         /\ \A k \in 1 .. Len(deltas) :
               IsRangeEvents(deltas[k].events, hist,
                             IF k = 1 THEN s ELSE deltas[k - 1].last + 1,
                             deltas[k].last)
  BY <1>1 DEF IsDeltaChain
<1>3. QED
  BY <1>1, <1>2 DEF FirstFrom, From

-----------------------------------------------------------------------------
\* Before the first delta is applied the etcd holds the full snapshot.
InvFetch ==
    pc \in {"fetch", "getRev"} => d = 1 /\ rev = base /\ kv = HistState(hist, base)

\* A full snapshot past the first delta never lets the replay succeed.
InvBad == ~Good => d = 1 /\ rev >= base /\ result # "ok"

\* While deltas are applied and verified, etcd is at a source state.
RunOK ==
    /\ kv = HistState(hist, rev)
    /\ rev >= Low(d)
    /\ pc = "verify" => rev = deltas[d].last
    /\ pc = "apply" => Pending

InvRun == Good /\ pc \in {"apply", "verify"} => RunOK

\* Success is reported in the source's state at the last delta.
InvOk == result = "ok" => rev = deltas[Len(deltas)].last /\ kv = HistState(hist, rev)

ReplayInv ==
    /\ TypeOK
    /\ InputsOK
    /\ pc # "done" => result = "none"
    /\ InvFetch
    /\ InvBad
    /\ InvRun
    /\ InvOk

\* Position of the j-th pending op's event in the delta.
Slot(j) == i - Len(ops) + j - 1

-----------------------------------------------------------------------------
(* The replay's inductive invariant.                                       *)

\* An element of a sequence lies in the sequence's element set.
LEMMA SeqElem ==
    ASSUME NEW R, NEW sq \in Seq(R), NEW k \in 1 .. Len(sq)
    PROVE  sq[k] \in R
OBVIOUS

\* One delta, as ChainFacts gives it.
LEMMA DeltaFacts ==
    ASSUME InputsOK, NEW k \in 1 .. Len(deltas)
    PROVE  /\ deltas[k].events \in Seq(Events)
           /\ deltas[k].last \in 1 .. MaxRev
           /\ From(k) \in 1 .. deltas[k].last
           /\ From(k) <= Low(k) + 1
           /\ Low(k) \in 0 .. MaxRev
           /\ k > 1 => Low(k) < deltas[k].last
           /\ IsRangeEvents(deltas[k].events, hist, From(k), deltas[k].last)
<1>0. deltas \in Seq([last : 1 .. MaxRev, events : Seq(Events)])
  <2>1. deltas \in Chain
    BY ChainFacts
  <2>2. QED
    BY <2>1 DEF Chain
<1>1. deltas[k] \in [last : 1 .. MaxRev, events : Seq(Events)]
  BY <1>0, SeqElem
<1>2. k > 1 => deltas[k - 1].last \in 1 .. MaxRev /\ deltas[k - 1].last < deltas[k].last
  <2>1. k > 1 => deltas[k - 1] \in [last : 1 .. MaxRev, events : Seq(Events)]
    <3>1. SUFFICES ASSUME k > 1 PROVE deltas[k - 1] \in [last : 1 .. MaxRev, events : Seq(Events)]
      OBVIOUS
    <3>2. k - 1 \in 1 .. Len(deltas)
      BY <1>0, <3>1
    <3>3. QED
      BY <1>0, <3>2, SeqElem
  <2>2. \A j \in 1 .. Len(deltas) - 1 : deltas[j].last < deltas[j + 1].last
    BY ChainFacts, SMTT(30)
  <2>3. QED
    BY <2>1, <2>2
<1>3. QED
  BY <1>1, <1>2, ChainFacts, SMTT(30) DEF From, Low, InputsOK

\* The first element of a nonempty set of positions, as newRevisionIndex
\* picks it.
LEMMA EarliestIn ==
    ASSUME NEW J \in SUBSET Nat, J # {}
    PROVE  LET e == CHOOSE j \in J : \A m \in J : j <= m
           IN  e \in J /\ \A m \in J : e <= m
<1>1. \E x \in J : \A y \in J : ~(<<y, x>> \in OpToRel(<, Nat))
  BY NatLessThanWellFounded, WFMin
<1>2. PICK x \in J : \A y \in J : ~(<<y, x>> \in OpToRel(<, Nat))
  BY <1>1
<1>3. \A y \in J : x <= y
  <2>1. SUFFICES ASSUME NEW y \in J PROVE x <= y
    OBVIOUS
  <2>2. ~(y < x)
    BY <1>2 DEF OpToRel
  <2>3. QED
    BY <2>2
<1>4. QED
  BY <1>3

\* Init: the etcd holds the full snapshot's state.
THEOREM ReplayInit == Init => ReplayInv
<1> SUFFICES ASSUME Init PROVE ReplayInv
  OBVIOUS
<1>1. InputsOK
  BY DEF Init, InputsOK
<1>2. Len(deltas) \in 1 .. MaxDeltas /\ deltas[1].events \in Seq(Events)
  BY <1>1, ChainFacts, DeltaFacts
<1>3. HistState(hist, base) \in KVs
  BY HistType DEF Init, Histories
<1>4. TypeOK
  <2>1. kv \in [Keys -> Vals \cup {NoVal}] /\ rev \in Nat
    BY <1>3 DEF Init, KVs
  <2>2. d \in 1 .. Len(deltas) /\ i \in 1 .. Len(Evs) + 1
    BY <1>2 DEF Init, Evs
  <2>3. ops \in Seq(OpRecs) /\ lastRev \in 0 .. MaxRev
    BY DEF Init
  <2>4. pc \in {"fetch", "getRev", "apply", "verify", "done"}
        /\ result \in {"none", "ok", "err"} /\ faulted \in BOOLEAN
    BY DEF Init
  <2>5. QED
    BY <2>1, <2>2, <2>3, <2>4 DEF TypeOK, OpRecs
<1>5. base \in 0 .. MaxRev
  BY <1>1 DEF InputsOK
<1>6. InvFetch /\ InvBad /\ InvRun /\ InvOk
  BY <1>5 DEF Init, InvFetch, InvBad, InvRun, InvOk
<1>7. QED
  BY <1>1, <1>4, <1>6 DEF Init, ReplayInv

\* Any failing call keeps the invariant: the replay ends with an error.
LEMMA FailStep ==
    ASSUME ReplayInv, Fail
    PROVE  ReplayInv'
<1>1. /\ hist' = hist /\ base' = base /\ deltas' = deltas
      /\ kv' = kv /\ rev' = rev /\ d' = d /\ i' = i /\ ops' = ops
      /\ lastRev' = lastRev
      /\ pc' = "done" /\ result' = "err" /\ faulted' = TRUE
  BY DEF Fail, inputs
<1>2. TypeOK'
  BY <1>1 DEF ReplayInv, TypeOK, Evs
<1>3. InputsOK' /\ Good' = Good
  BY <1>1 DEF ReplayInv, InputsOK, Good
<1>4. InvBad'
  BY <1>1, <1>3 DEF ReplayInv, InvBad
<1>5. InvFetch' /\ InvRun' /\ InvOk'
  BY <1>1 DEF InvFetch, InvRun, InvOk
<1>6. QED
  BY <1>1, <1>2, <1>3, <1>4, <1>5 DEF ReplayInv

\* The delta being applied, under the invariant.
LEMMA CurFacts ==
    ASSUME ReplayInv
    PROVE  /\ hist \in [1 .. MaxRev -> Txns]
           /\ Evs \in Seq(Events)
           /\ deltas[d].last \in 1 .. MaxRev
           /\ From(d) \in 1 .. deltas[d].last
           /\ From(d) <= Low(d) + 1
           /\ Low(d) \in 0 .. MaxRev
           /\ IsRangeEvents(Evs, hist, From(d), deltas[d].last)
           /\ base \in 0 .. MaxRev
<1>1. InputsOK /\ d \in 1 .. Len(deltas)
  BY DEF ReplayInv, TypeOK
<1>2. hist \in [1 .. MaxRev -> Txns] /\ base \in 0 .. MaxRev
  BY <1>1 DEF InputsOK, Histories
<1>3. QED
  BY <1>1, <1>2, DeltaFacts DEF Evs

\* NextRev for the delta being applied.
LEMMA CurRev ==
    ASSUME ReplayInv, NEW r \in From(d) .. deltas[d].last,
           NEW at \in 1 .. Len(Evs) + 1,
           \A j \in 1 .. at - 1 : Evs[j].rev < r,
           at <= Len(Evs) => Evs[at].rev >= r
    PROVE  at <= Len(Evs) /\ Evs[at].rev = r
<1>1. /\ hist \in [1 .. MaxRev -> Txns] /\ Evs \in Seq(Events)
      /\ deltas[d].last \in 1 .. MaxRev /\ From(d) \in 1 .. deltas[d].last
      /\ IsRangeEvents(Evs, hist, From(d), deltas[d].last)
  BY CurFacts
<1>2. r \in 1 .. MaxRev /\ From(d) \in Int /\ deltas[d].last \in Int
  BY <1>1
<1>3. QED
  BY <1>1, <1>2, NextRev

\* The events of the delta being applied, as EventIn, EventAt and
\* DistinctKeys give them, and their order.
LEMMA CurEvent ==
    ASSUME ReplayInv, NEW p \in 1 .. Len(Evs)
    PROVE  /\ Evs[p] \in Events
           /\ Evs[p].rev \in From(d) .. deltas[d].last
           /\ Evs[p].key \in DOMAIN hist[Evs[p].rev]
           /\ Evs[p] = EventOf(hist, Evs[p].rev, Evs[p].key)
<1>1. Evs \in Seq(Events) /\ IsRangeEvents(Evs, hist, From(d), deltas[d].last)
  BY CurFacts
<1>2. QED
  BY <1>1, EventIn, SeqElem

LEMMA CurEventAt ==
    ASSUME ReplayInv, NEW r \in From(d) .. deltas[d].last, NEW k \in DOMAIN hist[r]
    PROVE  \E p \in 1 .. Len(Evs) : Evs[p] = EventOf(hist, r, k)
<1>1. Evs \in Seq(Events) /\ IsRangeEvents(Evs, hist, From(d), deltas[d].last)
  BY CurFacts
<1>2. QED
  BY <1>1, EventAt

LEMMA CurSorted ==
    ASSUME ReplayInv, NEW p \in 1 .. Len(Evs), NEW q \in 1 .. Len(Evs), p <= q
    PROVE  Evs[p].rev <= Evs[q].rev
<1>1. IsRangeEvents(Evs, hist, From(d), deltas[d].last)
  BY CurFacts
<1>2. Evs[p] \in Events /\ Evs[q] \in Events
  BY CurEvent
<1>3. CASE p = q
  BY <1>2, <1>3 DEF Events
<1>4. CASE p < q
  BY <1>1, <1>4 DEF IsRangeEvents
<1>5. QED
  BY <1>3, <1>4

LEMMA CurDistinct ==
    ASSUME ReplayInv, NEW p \in 1 .. Len(Evs), NEW q \in 1 .. Len(Evs), p # q,
           Evs[p].rev = Evs[q].rev
    PROVE  Evs[p].key # Evs[q].key
<1>1. Evs \in Seq(Events) /\ IsRangeEvents(Evs, hist, From(d), deltas[d].last)
  BY CurFacts
<1>2. QED
  BY <1>1, DistinctKeys

\* A step that keeps the inputs and the delta index keeps what depends on them.
LEMMA Frame ==
    ASSUME ReplayInv, UNCHANGED inputs, d' = d
    PROVE  /\ hist' = hist /\ base' = base /\ deltas' = deltas
           /\ InputsOK'
           /\ Good' = Good
           /\ Low(d)' = Low(d)
           /\ Evs' = Evs
<1>1. hist' = hist /\ base' = base /\ deltas' = deltas
  BY DEF inputs
<1>2. InputsOK'
  BY <1>1 DEF ReplayInv, InputsOK
<1>3. QED
  BY <1>1, <1>2 DEF Good, Low, Evs

\* FetchFirst: reading the first delta changes no etcd state.
LEMMA FetchStep ==
    ASSUME ReplayInv, FetchFirst
    PROVE  ReplayInv'
<1>1. CASE Fail
  BY <1>1, FailStep
<1>2. CASE /\ pc' = "getRev"
           /\ UNCHANGED <<inputs, kv, rev, d, i, ops, lastRev, result, faulted>>
  <2>1. pc = "fetch"
    BY DEF FetchFirst
  <2>2. /\ hist' = hist /\ base' = base /\ deltas' = deltas
        /\ InputsOK' /\ Good' = Good /\ Evs' = Evs
    BY <1>2, Frame
  <2>3. kv' = kv /\ rev' = rev /\ d' = d /\ i' = i /\ ops' = ops
        /\ lastRev' = lastRev /\ result' = result /\ faulted' = faulted
    BY <1>2
  <2>4. TypeOK'
    BY <1>2, <2>2, <2>3 DEF ReplayInv, TypeOK
  <2>5. InvFetch'
    BY <2>1, <2>2, <2>3 DEF ReplayInv, InvFetch
  <2>6. InvBad' /\ InvOk' /\ (pc' # "done" => result' = "none")
    BY <2>1, <2>2, <2>3 DEF ReplayInv, InvBad, InvOk
  <2>7. InvRun'
    BY <1>2 DEF InvRun
  <2>8. QED
    BY <2>2, <2>4, <2>5, <2>6, <2>7 DEF ReplayInv
<1>3. QED
  BY <1>1, <1>2 DEF FetchFirst

\* GetRevision: a first delta the base reaches exactly is only verified;
\* otherwise newRevisionIndex finds the first event of revision base + 1.
LEMMA GetRevStep ==
    ASSUME ReplayInv, GetRevision
    PROVE  ReplayInv'
<1>0. pc = "getRev" /\ d = 1 /\ rev = base /\ kv = HistState(hist, base)
      /\ result = "none" /\ base \in 0 .. MaxRev
  BY DEF GetRevision, ReplayInv, InvFetch, InputsOK
<1>1. CASE Fail
  BY <1>1, FailStep
<1>2. CASE /\ rev = deltas[1].last
           /\ pc' = "verify"
           /\ UNCHANGED <<inputs, kv, rev, d, i, ops, lastRev, result, faulted>>
  <2>1. /\ hist' = hist /\ base' = base /\ deltas' = deltas
        /\ InputsOK' /\ Good' = Good /\ Low(d)' = Low(d) /\ Evs' = Evs
    BY <1>2, Frame
  <2>2. kv' = kv /\ rev' = rev /\ d' = d /\ i' = i /\ ops' = ops
        /\ lastRev' = lastRev /\ result' = result /\ faulted' = faulted
    BY <1>2
  <2>3. TypeOK'
    BY <1>2, <2>1, <2>2 DEF ReplayInv, TypeOK
  <2>4. Good /\ Low(d) = base
    BY <1>0, <1>2 DEF Good, Low
  <2>9. HistState(hist, rev)' = HistState(hist, rev)
    BY <2>1, <2>2
  <2>5. RunOK'
    <3>1. kv' = HistState(hist, rev)'
      BY <1>0, <2>2, <2>9
    <3>2. rev' >= Low(d)'
      BY <1>0, <2>1, <2>2, <2>4
    <3>3. rev' = deltas'[d'].last
      BY <1>0, <1>2, <2>1, <2>2
    <3>4. QED
      BY <1>2, <3>1, <3>2, <3>3 DEF RunOK
  <2>6. InvFetch' /\ InvRun'
    BY <1>2, <2>5 DEF InvFetch, InvRun
  <2>7. InvBad' /\ InvOk' /\ (pc' # "done" => result' = "none")
    BY <1>0, <2>1, <2>2, <2>4 DEF InvBad, InvOk
  <2>8. QED
    BY <2>1, <2>3, <2>6, <2>7 DEF ReplayInv
<1>3. CASE /\ rev # deltas[1].last
           /\ StartApply(NewRevisionIndex(Evs, rev))
           /\ UNCHANGED <<inputs, kv, rev, d, result, faulted>>
  <2> DEFINE past == {j \in 1 .. Len(Evs) : Evs[j].rev > rev}
             nx == NewRevisionIndex(Evs, rev)
  <2>1. /\ hist' = hist /\ base' = base /\ deltas' = deltas
        /\ InputsOK' /\ Good' = Good /\ Low(d)' = Low(d) /\ Evs' = Evs
    BY <1>3, Frame
  <2>0. kv' = kv /\ rev' = rev /\ d' = d /\ result' = result /\ faulted' = faulted
        /\ pc' = "apply" /\ i' = nx /\ ops' = <<>> /\ lastRev' = 0
    BY <1>3 DEF StartApply
  <2>2. /\ hist \in [1 .. MaxRev -> Txns] /\ Evs \in Seq(Events)
        /\ deltas[d].last \in 1 .. MaxRev /\ From(d) <= Low(d) + 1
        /\ IsRangeEvents(Evs, hist, From(d), deltas[d].last)
    BY CurFacts
  <2>3. past # {} => nx \in past /\ \A m \in past : nx <= m
    <3>1. SUFFICES ASSUME past # {} PROVE nx \in past /\ \A m \in past : nx <= m
      OBVIOUS
    <3>2. past \in SUBSET Nat
      OBVIOUS
    <3>3. QED
      BY <3>1, <3>2, EarliestIn DEF NewRevisionIndex, past, nx
  <2>4. nx \in 1 .. Len(Evs) + 1
    <3>1. CASE past = {}
      BY <3>1 DEF NewRevisionIndex, past, nx
    <3>2. CASE past # {}
      BY <3>2, <2>3, <2>2 DEF past
    <3>3. QED
      BY <3>1, <3>2
  <2>5. TypeOK'
    BY <2>0, <2>1, <2>4 DEF ReplayInv, TypeOK
  <2>6. Good => Pending'
    <3>1. SUFFICES ASSUME Good PROVE Pending'
      OBVIOUS
    <3>2. base + 1 \in From(d) .. deltas[d].last /\ base + 1 \in 1 .. MaxRev
      BY <1>0, <1>3, <2>2, <3>1 DEF Good, Low
    <3>3. PICK k \in DOMAIN hist[base + 1] : TRUE
      BY <2>2, <3>2, TxnShape
    <3>4. PICK p \in 1 .. Len(Evs) : Evs[p] = EventOf(hist, base + 1, k)
      BY <2>2, <3>2, <3>3, EventAt
    <3>5. p \in past
      BY <1>0, <3>4 DEF EventOf, past
    <3>6. nx \in past /\ \A m \in past : nx <= m
      BY <3>5, <2>3
    <3>7. \A j \in 1 .. nx - 1 : Evs[j].rev < base + 1
      <4>1. SUFFICES ASSUME NEW j \in 1 .. nx - 1 PROVE Evs[j].rev < base + 1
        OBVIOUS
      <4>2. j \in 1 .. Len(Evs) /\ j \notin past
        BY <3>6 DEF past
      <4>3. Evs[j] \in Events
        BY <2>2, <4>2
      <4>4. QED
        BY <1>0, <4>2, <4>3 DEF Events, past
    <3>8. nx <= Len(Evs) => Evs[nx].rev >= base + 1
      <4>1. Evs[nx] \in Events
        BY <2>2, <3>6 DEF past
      <4>2. QED
        BY <1>0, <3>6, <4>1 DEF Events, past
    <3>9. nx <= Len(Evs) /\ Evs[nx].rev = base + 1
      <4>1. base \in Int /\ From(d) \in Int /\ deltas[d].last \in Int
        BY <1>0, <2>2, CurFacts
      <4>2. nx \in 1 .. Len(Evs) + 1
        BY <2>4
      <4>3. QED
        BY <3>2, <3>7, <3>8, <4>2, CurRev
    <3>10. nx \in 1 .. Len(Evs)
      BY <2>4, <3>9
    <3>11. \A j \in 1 .. nx - 1 : Evs[j].rev <= rev
      <4>1. SUFFICES ASSUME NEW j \in 1 .. nx - 1 PROVE Evs[j].rev <= rev
        OBVIOUS
      <4>2. Evs[j] \in Events
        BY <2>2, <3>10
      <4>3. QED
        BY <1>0, <3>7, <4>2 DEF Events
    <3>12. QED
      BY <1>0, <2>0, <2>1, <3>9, <3>10, <3>11 DEF Pending
  <2>7. HistState(hist, rev)' = HistState(hist, rev)
    BY <2>0, <2>1
  <2>8. InvFetch' /\ InvRun'
    <3>1. Good => RunOK'
      <4>1. kv' = HistState(hist, rev)'
        BY <1>0, <2>0, <2>7
      <4>2. rev' >= Low(d)'
        BY <1>0, <2>0, <2>1 DEF Low
      <4>3. QED
        BY <2>0, <2>6, <4>1, <4>2 DEF RunOK
    <3>2. QED
      BY <2>0, <2>1, <3>1 DEF InvFetch, InvRun
  <2>9. InvBad' /\ InvOk' /\ (pc' # "done" => result' = "none")
    BY <1>0, <2>0, <2>1 DEF InvBad, InvOk
  <2>10. QED
    BY <2>1, <2>5, <2>8, <2>9 DEF ReplayInv
<1>4. QED
  BY <1>1, <1>2, <1>3 DEF GetRevision

\* AddOp: an event of the pending Txn's revision joins it. The first event
\* read opens revision rev + 1; a later one can be of no other revision,
\* as the delta is sorted and the guard bars a later one.
LEMMA AddOpStep ==
    ASSUME ReplayInv, AddOp
    PROVE  ReplayInv'
<1>0. /\ pc = "apply" /\ i \in 1 .. Len(Evs) /\ result = "none"
      /\ ~(lastRev # 0 /\ Evs[i].rev > lastRev)
      /\ ops' = Append(ops, OpOf(Evs[i])) /\ lastRev' = Evs[i].rev /\ i' = i + 1
      /\ kv' = kv /\ rev' = rev /\ pc' = pc /\ d' = d /\ result' = result
      /\ faulted' = faulted
  BY DEF AddOp, ReplayInv, TypeOK
<1>1. /\ hist' = hist /\ base' = base /\ deltas' = deltas
      /\ InputsOK' /\ Good' = Good /\ Low(d)' = Low(d) /\ Evs' = Evs
  BY <1>0, Frame DEF AddOp
<1>2. /\ Evs \in Seq(Events) /\ Evs[i] \in Events
      /\ ops \in Seq(OpRecs) /\ lastRev \in 0 .. MaxRev /\ rev \in Nat
      /\ IsRangeEvents(Evs, hist, From(d), deltas[d].last)
  BY <1>0, CurFacts DEF ReplayInv, TypeOK, OpRecs
<1>3. OpOf(Evs[i]) \in OpRecs /\ Evs[i].rev \in 1 .. MaxRev
  BY <1>2 DEF OpOf, OpRecs, Events
<1>4. TypeOK'
  <2>1. ops' \in Seq(OpRecs)
    BY <1>0, <1>2, <1>3
  <2>2. QED
    BY <1>0, <1>1, <1>3, <2>1 DEF ReplayInv, TypeOK, OpRecs
<1>5. Good => Pending'
  <2>1. SUFFICES ASSUME Good PROVE Pending'
    OBVIOUS
  <2>2. Pending
    BY <1>0, <2>1, SMTT(30) DEF ReplayInv, InvRun, RunOK
  <2>3. Len(ops') = Len(ops) + 1 /\ ops'[Len(ops) + 1] = OpOf(Evs[i])
        /\ \A j \in 1 .. Len(ops) : ops'[j] = ops[j]
    BY <1>0, <1>2
  <2>4. CASE lastRev = 0
    <3>1. ops = <<>> /\ Evs[i].rev = rev + 1 /\ \A j \in 1 .. i - 1 : Evs[j].rev <= rev
      BY <2>2, <2>4 DEF Pending
    <3>2. Len(ops) = 0
      BY <3>1
    <3>3. QED
      BY <1>0, <1>1, <1>3, <2>3, <3>1, <3>2 DEF Pending
  <2>5. CASE lastRev # 0
    <3>1. /\ lastRev = rev + 1 /\ 1 <= Len(ops) /\ Len(ops) < i
          /\ \A j \in 1 .. Len(ops) : /\ ops[j] = OpOf(Evs[i - Len(ops) + j - 1])
                               /\ Evs[i - Len(ops) + j - 1].rev = lastRev
          /\ \A j \in 1 .. i - Len(ops) - 1 : Evs[j].rev <= rev
      BY <2>2, <2>5 DEF Pending
    <3>2. Evs[i - 1].rev = lastRev
      <4>1. Len(ops) \in 1 .. Len(ops) /\ i - Len(ops) + Len(ops) - 1 = i - 1
        BY <1>0, <3>1, <1>2
      <4>2. QED
        BY <3>1, <4>1
    <3>3. Evs[i - 1].rev <= Evs[i].rev
      <4>1. i - 1 \in 1 .. Len(Evs) /\ i - 1 < i
        BY <1>0, <1>2, <3>1
      <4>2. QED
        BY <1>0, <1>2, <4>1, SMTT(30) DEF IsRangeEvents
    <3>4. Evs[i].rev = lastRev
      BY <1>0, <1>3, <2>5, <3>2, <3>3, <1>2
    <3>5. \A j \in 1 .. Len(ops) + 1 : /\ ops'[j] = OpOf(Evs[i - Len(ops) + j - 1])
                                /\ Evs[i - Len(ops) + j - 1].rev = lastRev
      <4>1. SUFFICES ASSUME NEW j \in 1 .. Len(ops) + 1
                     PROVE  /\ ops'[j] = OpOf(Evs[i - Len(ops) + j - 1])
                            /\ Evs[i - Len(ops) + j - 1].rev = lastRev
        OBVIOUS
      <4>2. CASE j = Len(ops) + 1
        <5>1. i - Len(ops) + j - 1 = i
          BY <1>0, <4>2, <1>2
        <5>2. QED
          BY <2>3, <3>4, <4>2, <5>1
      <4>3. CASE j \in 1 .. Len(ops)
        <5>1. ops'[j] = ops[j]
          BY <2>3, <4>3
        <5>2. ops[j] = OpOf(Evs[i - Len(ops) + j - 1])
              /\ Evs[i - Len(ops) + j - 1].rev = lastRev
          BY <3>1, <4>3, Zenon
        <5>3. QED
          BY <5>1, <5>2
      <4>4. j = Len(ops) + 1 \/ j \in 1 .. Len(ops)
        BY <1>2
      <4>5. QED
        BY <4>2, <4>3, <4>4
    <3>6. i' - Len(ops') = i - Len(ops)
      BY <1>0, <2>3, <1>2
    <3>7. lastRev' # 0 /\ lastRev' = rev' + 1 /\ lastRev' = lastRev
      BY <1>0, <1>3, <3>1, <3>4
    <3>8. 1 <= Len(ops') /\ Len(ops') < i'
      BY <1>0, <1>2, <2>3, <3>1
    <3>9. \A j \in 1 .. Len(ops') :
            /\ ops'[j] = OpOf(Evs'[i' - Len(ops') + j - 1])
            /\ Evs'[i' - Len(ops') + j - 1].rev = lastRev'
      BY <1>1, <2>3, <3>5, <3>6, <3>7
    <3>10. \A j \in 1 .. i' - Len(ops') - 1 : Evs'[j].rev <= rev'
      BY <1>0, <1>1, <3>1, <3>6
    <3>11. QED
      BY <3>7, <3>8, <3>9, <3>10 DEF Pending
  <2>6. QED
    BY <2>4, <2>5
<1>6. HistState(hist, rev)' = HistState(hist, rev)
  BY <1>0, <1>1
<1>7. InvRun'
  <2>1. Good => RunOK'
    <3>1. SUFFICES ASSUME Good PROVE RunOK'
      OBVIOUS
    <3>2. kv = HistState(hist, rev) /\ rev >= Low(d)
      BY <1>0, <3>1 DEF ReplayInv, InvRun, RunOK
    <3>3. kv' = HistState(hist, rev)' /\ rev' >= Low(d)'
      BY <1>0, <1>1, <1>6, <3>2
    <3>4. QED
      BY <1>0, <1>5, <3>1, <3>3 DEF RunOK
  <2>2. QED
    BY <1>1, <2>1 DEF InvRun
<1>8. InvFetch' /\ InvBad' /\ InvOk' /\ (pc' # "done" => result' = "none")
  BY <1>0, <1>1 DEF ReplayInv, InvFetch, InvBad, InvOk
<1>9. QED
  BY <1>1, <1>4, <1>7, <1>8 DEF ReplayInv

\* Committing the pending Txn, once the next event is of a later revision
\* or the delta ends: ops holds every event of revision rev + 1, so the
\* Txn takes etcd from the source's state at rev to the state at rev + 1.
LEMMA CommitPending ==
    ASSUME ReplayInv, Good, pc = "apply", lastRev # 0,
           i <= Len(Evs) => Evs[i].rev > lastRev
    PROVE  /\ CommitOps(kv, ops).kv = HistState(hist, lastRev)
           /\ CommitOps(kv, ops).chg
           /\ lastRev = rev + 1
           /\ lastRev \in From(d) .. deltas[d].last
           /\ \A j \in 1 .. i - 1 : Evs[j].rev <= lastRev
<1>1. /\ kv = HistState(hist, rev)
      /\ lastRev = rev + 1 /\ 1 <= Len(ops) /\ Len(ops) < i
      /\ \A j \in 1 .. Len(ops) :
            /\ ops[j] = OpOf(Evs[Slot(j)])
            /\ Evs[Slot(j)].rev = lastRev
      /\ \A j \in 1 .. i - Len(ops) - 1 : Evs[j].rev <= rev
  BY DEF ReplayInv, InvRun, RunOK, Pending, Slot
<1>2. /\ hist \in Histories
      /\ Evs \in Seq(Events)
      /\ i \in 1 .. Len(Evs) + 1 /\ rev \in Nat /\ lastRev \in 1 .. MaxRev
      /\ ops \in Seq(OpRecs) /\ kv \in KVs
  BY CurFacts DEF ReplayInv, InputsOK, TypeOK, OpRecs, KVs
<1>3. \A j \in 1 .. Len(ops) : Slot(j) \in 1 .. Len(Evs) /\ Slot(j) < i
  BY <1>1, <1>2 DEF Slot
<1>4. \A j \in 1 .. Len(ops) :
         /\ Evs[Slot(j)].key \in DOMAIN hist[lastRev]
         /\ Evs[Slot(j)] = EventOf(hist, lastRev, Evs[Slot(j)].key)
         /\ lastRev \in From(d) .. deltas[d].last
  <2>1. SUFFICES ASSUME NEW j \in 1 .. Len(ops)
                 PROVE  /\ Evs[Slot(j)].key \in DOMAIN hist[lastRev]
                        /\ Evs[Slot(j)] = EventOf(hist, lastRev, Evs[Slot(j)].key)
                        /\ lastRev \in From(d) .. deltas[d].last
    OBVIOUS
  <2>2. Evs[Slot(j)].rev = lastRev /\ Slot(j) \in 1 .. Len(Evs)
    BY <1>1, <1>3
  <2>3. QED
    BY <2>2, CurEvent, SMTT(30)
<1>5. lastRev \in From(d) .. deltas[d].last
  BY <1>1, <1>4
<1>6. \A k \in DOMAIN hist[lastRev] : \E j \in 1 .. Len(ops) : ops[j].key = k
  <2>1. SUFFICES ASSUME NEW k \in DOMAIN hist[lastRev]
                 PROVE  \E j \in 1 .. Len(ops) : ops[j].key = k
    OBVIOUS
  <2>2. PICK p \in 1 .. Len(Evs) : Evs[p] = EventOf(hist, lastRev, k)
    BY <1>5, CurEventAt
  <2>3. Evs[p].rev = lastRev /\ Evs[p].key = k /\ Evs[p] \in Events
    BY <2>2, CurEvent DEF EventOf
  <2>4. p >= i - Len(ops)
    <3>1. SUFFICES ASSUME p < i - Len(ops) PROVE FALSE
      BY <1>1, <1>2
    <3>2. p \in 1 .. i - Len(ops) - 1
      BY <1>1, <1>2, <3>1
    <3>3. Evs[p].rev <= rev
      BY <1>1, <3>2
    <3>4. QED
      BY <1>1, <1>2, <2>3, <3>3
  <2>5. p < i
    <3>1. SUFFICES ASSUME p >= i PROVE FALSE
      BY <1>2
    <3>2. i \in 1 .. Len(Evs) /\ Evs[i].rev > lastRev
      BY <1>2, <3>1
    <3>3. Evs[i].rev <= Evs[p].rev
      BY <3>1, <3>2, CurSorted
    <3>4. QED
      BY <1>2, <2>3, <3>2, <3>3, CurEvent DEF Events
  <2> DEFINE j0 == p - (i - Len(ops)) + 1
  <2>6. j0 \in 1 .. Len(ops) /\ Slot(j0) = p
    BY <1>1, <1>2, <2>4, <2>5 DEF Slot, j0
  <2>7. ops[j0] = OpOf(Evs[p])
    BY <1>1, <2>6
  <2>8. ops[j0].key = k
    BY <2>3, <2>7 DEF OpOf
  <2>9. QED
    BY <2>6, <2>8
<1>7. \A j \in 1 .. Len(ops) :
         /\ ops[j].key \in DOMAIN hist[lastRev]
         /\ ops[j] = OpOf(EventOf(hist, lastRev, ops[j].key))
  <2>1. SUFFICES ASSUME NEW j \in 1 .. Len(ops)
                 PROVE  /\ ops[j].key \in DOMAIN hist[lastRev]
                        /\ ops[j] = OpOf(EventOf(hist, lastRev, ops[j].key))
    OBVIOUS
  <2>2. ops[j] = OpOf(Evs[Slot(j)])
    BY <1>1
  <2>3. ops[j].key = Evs[Slot(j)].key
    BY <2>2 DEF OpOf
  <2>4. QED
    BY <1>4, <2>2, <2>3
<1>8. \A j, m \in 1 .. Len(ops) : j # m => ops[j].key # ops[m].key
  <2>1. SUFFICES ASSUME NEW j \in 1 .. Len(ops), NEW m \in 1 .. Len(ops), j # m
                 PROVE  ops[j].key # ops[m].key
    OBVIOUS
  <2>2. Slot(j) # Slot(m) /\ Slot(j) \in 1 .. Len(Evs) /\ Slot(m) \in 1 .. Len(Evs)
    <3>1. Slot(j) \in 1 .. Len(Evs) /\ Slot(m) \in 1 .. Len(Evs)
      BY <1>3
    <3>2. Slot(j) # Slot(m)
      BY <1>2, <2>1 DEF Slot
    <3>3. QED
      BY <3>1, <3>2
  <2>3. Evs[Slot(j)].rev = Evs[Slot(m)].rev
    BY <1>1
  <2>4. Evs[Slot(j)].key # Evs[Slot(m)].key
    BY <2>2, <2>3, CurDistinct
  <2>5. ops[j].key = Evs[Slot(j)].key /\ ops[m].key = Evs[Slot(m)].key
    <3>1. ops[j] = OpOf(Evs[Slot(j)]) /\ ops[m] = OpOf(Evs[Slot(m)])
      BY <1>1
    <3>2. QED
      BY <3>1 DEF OpOf
  <2>6. QED
    BY <2>4, <2>5
<1>9. HistState(hist, lastRev - 1) = kv
  BY <1>1, <1>2
<1>10. CommitOps(HistState(hist, lastRev - 1), ops).kv = HistState(hist, lastRev)
       /\ CommitOps(HistState(hist, lastRev - 1), ops).chg
  <2>1. lastRev \in 1 .. MaxRev /\ ops \in Seq(OpRecs) /\ Len(ops) >= 1
    BY <1>1, <1>2
  <2>2. QED
    BY <1>2, <1>6, <1>7, <1>8, <2>1, CommitRevision
<1>11. \A j \in 1 .. i - 1 : Evs[j].rev <= lastRev
  <2>1. SUFFICES ASSUME NEW j \in 1 .. i - 1 PROVE Evs[j].rev <= lastRev
    OBVIOUS
  <2>2. CASE j < i - Len(ops)
    <3>1. j \in 1 .. i - Len(ops) - 1
      BY <1>1, <1>2, <2>2
    <3>2. Evs[j].rev <= rev
      BY <1>1, <3>1
    <3>3. j \in 1 .. Len(Evs)
      BY <1>2
    <3>4. Evs[j] \in Events
      BY <3>3, CurEvent
    <3>5. QED
      BY <1>1, <1>2, <3>2, <3>4 DEF Events
  <2>3. CASE j >= i - Len(ops)
    <3>1. j - (i - Len(ops)) + 1 \in 1 .. Len(ops) /\ Slot(j - (i - Len(ops)) + 1) = j
      BY <1>1, <1>2, <2>3 DEF Slot
    <3>2. Evs[Slot(j - (i - Len(ops)) + 1)].rev = lastRev
      BY <1>1, <3>1
    <3>3. QED
      BY <1>2, <3>1, <3>2
  <2>4. QED
    BY <2>2, <2>3, <1>2
<1>12. QED
  BY <1>1, <1>5, <1>9, <1>10, <1>11

\* A successful commit keeps etcd's state a key-value state and its
\* revision from going back.
LEMMA CommitShape ==
    ASSUME ReplayInv, Commit(ops)
    PROVE  kv' \in KVs /\ rev' \in Nat /\ rev' >= rev
<1>1. kv \in KVs /\ ops \in Seq(OpRecs) /\ rev \in Nat
  BY DEF ReplayInv, TypeOK, KVs, OpRecs
<1>2. QED
  BY <1>1, CommitType DEF Commit

\* CommitAndAdd: the Txn of revision rev + 1 is committed, and the event
\* that ended it opens revision rev + 2.
LEMMA CommitAddStep ==
    ASSUME ReplayInv, CommitAndAdd
    PROVE  ReplayInv'
<1>0. /\ pc = "apply" /\ i \in 1 .. Len(Evs) /\ result = "none"
      /\ lastRev # 0 /\ Evs[i].rev > lastRev
  BY DEF CommitAndAdd, ReplayInv, TypeOK
<1>1. CASE Fail
  BY <1>1, FailStep
<1>2. CASE /\ Commit(ops)
           /\ ops' = <<OpOf(Evs[i])>>
           /\ lastRev' = Evs[i].rev
           /\ i' = i + 1
           /\ UNCHANGED <<inputs, pc, d, result, faulted>>
  <2>1. /\ hist' = hist /\ base' = base /\ deltas' = deltas
        /\ InputsOK' /\ Good' = Good /\ Low(d)' = Low(d) /\ Evs' = Evs
    BY <1>2, Frame
  <2>2. pc' = pc /\ d' = d /\ result' = result /\ faulted' = faulted
    BY <1>2
  <2>3. kv' \in KVs /\ rev' \in Nat /\ rev' >= rev
    BY <1>2, CommitShape
  <2>4. Evs[i] \in Events /\ Evs[i].rev \in From(d) .. deltas[d].last
    BY <1>0, CurEvent
  <2>5. OpOf(Evs[i]) \in OpRecs /\ Evs[i].rev \in 1 .. MaxRev
    BY <2>4 DEF OpOf, OpRecs, Events
  <2>6. TypeOK'
    <3>1. ops' \in Seq(OpRecs)
      BY <1>2, <2>5
    <3>2. QED
      BY <1>0, <1>2, <2>1, <2>2, <2>3, <2>5, <3>1 DEF ReplayInv, TypeOK, KVs, OpRecs
  <2>7. InvBad'
    <3>1. ~Good => d = 1 /\ rev >= base
      BY SMTT(30) DEF ReplayInv, InvBad
    <3>2. base \in Int /\ rev \in Nat
      BY CurFacts DEF ReplayInv, TypeOK
    <3>3. ~Good' => d' = 1 /\ rev' >= base'
      BY <2>1, <2>2, <2>3, <3>1, <3>2
    <3>4. result' # "ok"
      BY <1>0, <2>2
    <3>5. QED
      BY <3>3, <3>4 DEF InvBad
  <2>8. Good => RunOK'
    <3>1. SUFFICES ASSUME Good PROVE RunOK'
      OBVIOUS
    <3>2. /\ CommitOps(kv, ops).kv = HistState(hist, lastRev)
          /\ CommitOps(kv, ops).chg
          /\ lastRev = rev + 1
          /\ lastRev \in From(d) .. deltas[d].last
          /\ \A j \in 1 .. i - 1 : Evs[j].rev <= lastRev
      BY <1>0, <3>1, CommitPending
    <3>3. kv' = HistState(hist, lastRev) /\ rev' = lastRev
      BY <1>2, <3>2 DEF Commit
    <3>4. rev >= Low(d) /\ rev \in Nat /\ Low(d) \in 0 .. MaxRev
      BY <1>0, <3>1, CurFacts DEF ReplayInv, InvRun, RunOK, TypeOK
    <3>5. Evs[i].rev = lastRev + 1
      <4>1. lastRev + 1 \in From(d) .. deltas[d].last
        BY <2>4, <3>2, <1>0, CurFacts, SMTT(30)
      <4>2. \A j \in 1 .. i - 1 : Evs[j].rev < lastRev + 1
        <5>1. SUFFICES ASSUME NEW j \in 1 .. i - 1 PROVE Evs[j].rev < lastRev + 1
          OBVIOUS
        <5>2. Evs[j] \in Events
          BY <1>0, CurEvent
        <5>3. QED
          BY <3>2, <5>2 DEF Events
      <4>3. i \in 1 .. Len(Evs) + 1 /\ (i <= Len(Evs) => Evs[i].rev >= lastRev + 1)
        BY <1>0, <2>4, <3>2
      <4>4. QED
        BY <4>1, <4>2, <4>3, CurRev, SMTT(30)
    <3>6. Pending'
      <4>1. lastRev' # 0 /\ lastRev' = rev' + 1
        BY <1>2, <2>5, <3>3, <3>5
      <4>2. Len(ops') = 1 /\ ops'[1] = OpOf(Evs[i]) /\ 1 < i'
        BY <1>0, <1>2
      <4>3. i' - Len(ops') + 1 - 1 = i
        BY <1>0, <1>2, <4>2
      <4>4. \A j \in 1 .. Len(ops') :
              /\ ops'[j] = OpOf(Evs'[i' - Len(ops') + j - 1])
              /\ Evs'[i' - Len(ops') + j - 1].rev = lastRev'
        BY <1>2, <2>1, <4>2, <4>3, SMTT(30)
      <4>5. \A j \in 1 .. i' - Len(ops') - 1 : Evs'[j].rev <= rev'
        BY <1>0, <1>2, <2>1, <3>2, <3>3, <4>2
      <4>6. QED
        BY <4>1, <4>2, <4>4, <4>5 DEF Pending
    <3>7. HistState(hist, rev)' = HistState(hist, lastRev)
      BY <2>1, <3>3
    <3>8. QED
      BY <1>0, <2>1, <2>2, <3>2, <3>3, <3>4, <3>6, <3>7 DEF RunOK
  <2>9. InvRun'
    BY <2>1, <2>8 DEF InvRun
  <2>10. InvFetch' /\ InvOk' /\ (pc' # "done" => result' = "none")
    BY <1>0, <2>2 DEF InvFetch, InvOk
  <2>11. QED
    BY <2>1, <2>6, <2>7, <2>9, <2>10 DEF ReplayInv
<1>3. QED
  BY <1>0, <1>1, <1>2 DEF CommitAndAdd

\* FinalCommit: the delta's last Txn is committed, which leaves etcd at
\* the delta's LastRevision: no revision of the delta comes after it.
LEMMA FinalStep ==
    ASSUME ReplayInv, FinalCommit
    PROVE  ReplayInv'
<1>0. /\ pc = "apply" /\ i = Len(Evs) + 1 /\ result = "none"
  BY DEF FinalCommit, ReplayInv, TypeOK
<1>1. CASE Fail
  BY <1>1, FailStep
<1>2. CASE /\ Commit(ops)
           /\ pc' = "verify"
           /\ UNCHANGED <<inputs, d, i, ops, lastRev, result, faulted>>
  <2>1. /\ hist' = hist /\ base' = base /\ deltas' = deltas
        /\ InputsOK' /\ Good' = Good /\ Low(d)' = Low(d) /\ Evs' = Evs
    BY <1>2, Frame
  <2>2. d' = d /\ i' = i /\ ops' = ops /\ lastRev' = lastRev /\ result' = result
        /\ faulted' = faulted
    BY <1>2
  <2>3. kv' \in KVs /\ rev' \in Nat /\ rev' >= rev
    BY <1>2, CommitShape
  <2>4. TypeOK'
    BY <1>2, <2>1, <2>2, <2>3 DEF ReplayInv, TypeOK, KVs
  <2>5. InvBad'
    <3>1. ~Good => d = 1 /\ rev >= base
      BY DEF ReplayInv, InvBad
    <3>2. base \in Int /\ rev \in Nat
      BY CurFacts DEF ReplayInv, TypeOK
    <3>3. ~Good' => d' = 1 /\ rev' >= base'
      BY <2>1, <2>2, <2>3, <3>1, <3>2
    <3>4. result' # "ok"
      BY <1>0, <2>2, SMTT(30)
    <3>5. QED
      BY <3>3, <3>4 DEF InvBad
  <2>6. Good => RunOK'
    <3>1. SUFFICES ASSUME Good PROVE RunOK'
      OBVIOUS
    <3>2. Pending
      BY <1>0, <3>1 DEF ReplayInv, InvRun, RunOK
    <3>3. lastRev # 0
      BY <1>0, <3>2, SMTT(30) DEF Pending
    <3>4. /\ CommitOps(kv, ops).kv = HistState(hist, lastRev)
          /\ CommitOps(kv, ops).chg
          /\ lastRev = rev + 1
          /\ lastRev \in From(d) .. deltas[d].last
          /\ \A j \in 1 .. i - 1 : Evs[j].rev <= lastRev
      BY <1>0, <3>1, <3>3, CommitPending, SMTT(30)
    <3>5. kv' = HistState(hist, lastRev) /\ rev' = lastRev
      BY <1>2, <3>4 DEF Commit
    <3>6. lastRev = deltas[d].last
      <4>1. SUFFICES ASSUME lastRev # deltas[d].last PROVE FALSE
        BY SMTT(30)
      <4>2. deltas[d].last \in Int /\ lastRev + 1 \in From(d) .. deltas[d].last
        BY <3>4, <4>1, CurFacts, SMTT(30)
      <4>3. \A j \in 1 .. i - 1 : Evs[j].rev < lastRev + 1
        <5>1. SUFFICES ASSUME NEW j \in 1 .. i - 1 PROVE Evs[j].rev < lastRev + 1
          OBVIOUS
        <5>2. j \in 1 .. Len(Evs)
          BY <1>0, CurFacts
        <5>3. Evs[j] \in Events
          BY <5>2, CurEvent
        <5>4. QED
          BY <3>4, <5>3 DEF Events
      <4>4. i \in 1 .. Len(Evs) + 1 /\ ~(i <= Len(Evs))
        BY <1>0, CurFacts, SMTT(30)
      <4>5. QED
        BY <4>2, <4>3, <4>4, CurRev
    <3>7. rev >= Low(d) /\ rev \in Nat /\ Low(d) \in 0 .. MaxRev
      BY <1>0, <3>1, CurFacts DEF ReplayInv, InvRun, RunOK, TypeOK
    <3>8. HistState(hist, rev)' = HistState(hist, lastRev)
      BY <2>1, <3>5
    <3>9. QED
      BY <1>2, <2>1, <2>2, <3>4, <3>5, <3>6, <3>7, <3>8 DEF RunOK
  <2>7. InvRun'
    BY <2>1, <2>6 DEF InvRun
  <2>8. InvFetch' /\ InvOk' /\ (pc' # "done" => result' = "none")
    BY <1>0, <1>2, <2>2 DEF InvFetch, InvOk
  <2>9. QED
    BY <2>1, <2>4, <2>5, <2>7, <2>8 DEF ReplayInv
<1>3. QED
  BY <1>0, <1>1, <1>2 DEF FinalCommit

\* A delta's first event is of the revision the delta starts at.
LEMMA RangeStart ==
    ASSUME NEW h \in [1 .. MaxRev -> Txns], NEW s \in 1 .. MaxRev, NEW l \in Int,
           NEW es \in Seq(Events), IsRangeEvents(es, h, s, l), s <= l
    PROVE  1 <= Len(es) /\ es[1].rev = s
<1>1. s \in s .. l
  OBVIOUS
<1>2. 1 <= Len(es) => es[1].rev >= s
  <2>1. SUFFICES ASSUME 1 <= Len(es) PROVE es[1].rev >= s
    OBVIOUS
  <2>2. es[1].rev \in s .. l
    BY <2>1, EventIn
  <2>3. QED
    BY <2>2
<1>3. \A j \in 1 .. 1 - 1 : es[j].rev < s
  OBVIOUS
<1>4. QED
  BY <1>1, <1>2, <1>3, NextRev

\* applyEventsAndVerify on delta k + 1 starts right after delta k.
LEMMA NextDeltaStart ==
    ASSUME InputsOK, NEW k \in 1 .. Len(deltas) - 1
    PROVE  /\ 1 <= Len(deltas[k + 1].events)
           /\ deltas[k + 1].events[1].rev = deltas[k].last + 1
<1>1. /\ deltas[k + 1].events \in Seq(Events)
      /\ deltas[k + 1].last \in 1 .. MaxRev
      /\ From(k + 1) \in 1 .. deltas[k + 1].last
      /\ IsRangeEvents(deltas[k + 1].events, hist, From(k + 1), deltas[k + 1].last)
  BY DeltaFacts
<1>2. From(k + 1) = deltas[k].last + 1
  BY DEF From
<1>3. hist \in [1 .. MaxRev -> Txns]
  BY DEF InputsOK, Histories
<1>4. QED
  BY <1>1, <1>2, <1>3, RangeStart, SMTT(30)

\* Verify: a delta whose LastRevision etcd reached leads to the next delta
\* or to success; any other revision ends the replay with an error.
LEMMA VerifyStep ==
    ASSUME ReplayInv, Verify
    PROVE  ReplayInv'
<1>0. /\ pc = "verify" /\ result = "none"
      /\ d \in 1 .. Len(deltas) /\ rev \in Nat /\ base \in 0 .. MaxRev
      /\ deltas[d].last \in 1 .. MaxRev
  BY CurFacts DEF Verify, ReplayInv, TypeOK
<1>1. CASE Fail
  BY <1>1, FailStep
<1>2. rev = deltas[d].last => Good /\ kv = HistState(hist, rev)
  <2>1. SUFFICES ASSUME rev = deltas[d].last PROVE Good /\ kv = HistState(hist, rev)
    OBVIOUS
  <2>2. Good
    <3>1. SUFFICES ASSUME ~Good PROVE FALSE
      OBVIOUS
    <3>2. d = 1 /\ rev >= base
      BY <3>1 DEF ReplayInv, InvBad
    <3>3. QED
      BY <1>0, <2>1, <3>1, <3>2 DEF Good
  <2>3. QED
    BY <1>0, <2>2 DEF ReplayInv, InvRun, RunOK
<1>3. CASE /\ rev = deltas[d].last
           /\ d = Len(deltas)
           /\ pc' = "done" /\ result' = "ok"
           /\ UNCHANGED <<d, i, ops, lastRev>>
           /\ UNCHANGED <<inputs, kv, rev, faulted>>
  <2>1. /\ hist' = hist /\ base' = base /\ deltas' = deltas
        /\ InputsOK' /\ Good' = Good /\ Evs' = Evs
    BY <1>3, Frame
  <2>2. Good /\ kv = HistState(hist, rev)
    BY <1>2, <1>3
  <2>3. TypeOK'
    BY <1>3, <2>1 DEF ReplayInv, TypeOK
  <2>4. InvOk'
    BY <1>3, <2>1, <2>2, SMTT(30) DEF InvOk
  <2>5. InvBad' /\ InvFetch' /\ InvRun' /\ (pc' # "done" => result' = "none")
    BY <1>3, <2>1, <2>2 DEF InvBad, InvFetch, InvRun
  <2>6. QED
    BY <2>1, <2>3, <2>4, <2>5 DEF ReplayInv
<1>4. CASE /\ rev = deltas[d].last
           /\ d # Len(deltas)
           /\ NextDelta /\ UNCHANGED result
           /\ UNCHANGED <<inputs, kv, rev, faulted>>
  <2>1. /\ hist' = hist /\ base' = base /\ deltas' = deltas
        /\ d' = d + 1 /\ pc' = "apply" /\ i' = 1 /\ ops' = <<>> /\ lastRev' = 0
        /\ kv' = kv /\ rev' = rev /\ result' = result /\ faulted' = faulted
    BY <1>4 DEF NextDelta, StartApply, inputs
  <2>2. Good /\ kv = HistState(hist, rev)
    BY <1>2, <1>4
  <2>3. InputsOK' /\ Good' = Good
    BY <2>1 DEF ReplayInv, InputsOK, Good
  <2>4. d \in 1 .. Len(deltas) - 1 /\ InputsOK
    BY <1>0, <1>4 DEF ReplayInv
  <2>5. 1 <= Len(deltas[d + 1].events)
        /\ deltas[d + 1].events[1].rev = deltas[d].last + 1
    BY <2>4, NextDeltaStart
  <2>6. Evs' = deltas[d + 1].events /\ Low(d)' = deltas[d].last
    BY <2>1, <2>4 DEF Evs, Low
  <2>7. TypeOK'
    <3>1. d' \in 1 .. Len(deltas') /\ i' \in 1 .. Len(Evs') + 1
      BY <2>1, <2>4, <2>5, <2>6, SMTT(30)
    <3>2. QED
      BY <2>1, <3>1 DEF ReplayInv, TypeOK
  <2>8. Pending'
    BY <1>4, <2>1, <2>5, <2>6, SMTT(30) DEF Pending
  <2>9. RunOK'
    <3>1. HistState(hist, rev)' = HistState(hist, rev)
      BY <2>1
    <3>2. rev' >= Low(d)'
      BY <1>0, <1>4, <2>1, <2>6
    <3>3. QED
      BY <2>1, <2>2, <2>8, <3>1, <3>2 DEF RunOK
  <2>10. InvBad' /\ InvRun'
    BY <2>2, <2>3, <2>9, SMTT(30) DEF InvBad, InvRun
  <2>11. InvFetch' /\ InvOk' /\ (pc' # "done" => result' = "none")
    BY <1>0, <2>1 DEF InvFetch, InvOk
  <2>12. QED
    BY <2>3, <2>7, <2>10, <2>11 DEF ReplayInv
<1>5. CASE /\ rev # deltas[d].last
           /\ pc' = "done"
           /\ result' = "err"
           /\ UNCHANGED <<inputs, kv, rev, d, i, ops, lastRev, faulted>>
  <2>1. /\ hist' = hist /\ base' = base /\ deltas' = deltas
        /\ InputsOK' /\ Good' = Good /\ Evs' = Evs
    BY <1>5, Frame, SMTT(30)
  <2>2. TypeOK'
    BY <1>5, <2>1, SMTT(30) DEF ReplayInv, TypeOK
  <2>3. InvBad'
    BY <1>5, <2>1, SMTT(30) DEF ReplayInv, InvBad
  <2>4. InvFetch' /\ InvRun' /\ InvOk'
    BY <1>5 DEF InvFetch, InvRun, InvOk
  <2>5. QED
    BY <1>5, <2>1, <2>2, <2>3, <2>4 DEF ReplayInv
<1>6. QED
  BY <1>1, <1>3, <1>4, <1>5, SMTT(30) DEF Verify

\* The replay's invariant is inductive.
LEMMA ReplayStep ==
    ReplayInv /\ [Next]_vars => ReplayInv'
<1> SUFFICES ASSUME ReplayInv, [Next]_vars PROVE ReplayInv'
  OBVIOUS
<1>1. CASE FetchFirst
  BY <1>1, FetchStep
<1>2. CASE GetRevision
  BY <1>2, GetRevStep, SMTT(30)
<1>3. CASE AddOp
  BY <1>3, AddOpStep
<1>4. CASE CommitAndAdd
  BY <1>4, CommitAddStep
<1>5. CASE FinalCommit
  BY <1>5, FinalStep
<1>6. CASE Verify
  BY <1>6, VerifyStep
<1>7. CASE Done \/ UNCHANGED vars
  <2>1. UNCHANGED vars
    BY <1>7 DEF Done
  <2>2. /\ hist' = hist /\ base' = base /\ deltas' = deltas /\ kv' = kv
        /\ rev' = rev /\ pc' = pc /\ d' = d /\ i' = i /\ ops' = ops
        /\ lastRev' = lastRev /\ result' = result /\ faulted' = faulted
    BY <2>1 DEF vars
  <2>3. QED
    BY <2>2 DEF ReplayInv, TypeOK, InputsOK, InvFetch, InvBad, InvRun, InvOk,
                RunOK, Pending, Good, Low, Evs
<1>8. QED
  BY <1>1, <1>2, <1>3, <1>4, <1>5, <1>6, <1>7 DEF Next

-----------------------------------------------------------------------------
(* The theorems.                                                           *)

\* ReplayInv holds in every state of every replay.
THEOREM ReplayInvariant == Spec => []ReplayInv
BY ReplayInit, ReplayStep, PTL DEF Spec

\* Every variable of the replay keeps its type: etcd's state maps keys to
\* values, the delta index and the event index stay in range of the
\* delta chain, and the pending Txn holds put/delete ops.
THEOREM ReplayTypeCorrect == Spec => []TypeOK
<1>1. ReplayInv => TypeOK
  BY SMTT(30) DEF ReplayInv
<1>2. QED
  BY <1>1, ReplayInvariant, PTL

\* While applyEventsToEtcd replays a first delta that reaches past the full
\* snapshot, and while its revision is verified, the embedded etcd is
\* exactly in the source cluster's state at its own revision: the overlap
\* scan of newRevisionIndex skips every event the full snapshot holds, and
\* each committed Txn is one whole source revision.
THEOREM MirrorsHistoryHolds == Spec => []MirrorsHistory
<1>1. ReplayInv => MirrorsHistory
  <2>1. SUFFICES ASSUME ReplayInv, pc \in {"apply", "verify"}, base < deltas[1].last
                 PROVE  kv = HistState(hist, rev)
    BY DEF MirrorsHistory
  <2>2. InputsOK /\ 1 \in 1 .. Len(deltas)
    BY <2>1, ChainFacts DEF ReplayInv
  <2>3. base \in Nat /\ deltas[1].last \in Nat
    BY <2>2, DeltaFacts DEF InputsOK
  <2>4. Good
    BY <2>1, <2>3 DEF Good
  <2>5. QED
    BY <2>1, <2>4, SMTT(30) DEF ReplayInv, InvRun, RunOK
<1>2. QED
  BY <1>1, ReplayInvariant, PTL

\* A restore that applyDeltaSnapshots reports successful ends with the
\* embedded etcd at the last delta's LastRevision and in the source
\* cluster's state at that revision, whatever revision the full snapshot
\* restored.
THEOREM ReplaySound == Spec => []ReplayMatchesHistory
<1>1. ReplayInv => ReplayMatchesHistory
  BY DEF ReplayInv, InvOk, ReplayMatchesHistory
<1>2. QED
  BY <1>1, ReplayInvariant, PTL

=====
