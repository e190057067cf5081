----------------------------- MODULE EventReplay -----------------------------
(***************************************************************************)
(* Replay of delta-snapshot events into the embedded etcd, after the full  *)
(* snapshot has been restored (src/pkg/types/restorer.go):                 *)
(*                                                                         *)
(*   applyDeltaSnapshots      500-518  first delta, then its verification  *)
(*   applyFirstDeltaSnapshot  745-796  fetch, read, unmarshal, skip a      *)
(*                                     fully overlapped delta, or scan for *)
(*                                     the first event past the base       *)
(*   applyEventsAndVerify     733-742  every later delta                   *)
(*   applyEventsToEtcd        817-846  one etcd Txn per source revision    *)
(*   verifySnapshotRevision   848-864  compare etcd's revision with the    *)
(*                                     delta's LastRevision                *)
(*                                                                         *)
(* The source cluster's history is a sequence of transactions, one per     *)
(* revision; a transaction puts or deletes a few distinct keys. The full   *)
(* snapshot holds the state at revision `base`, which may be later than    *)
(* the revision in its name (etcd issue 9037, comment at 763-767): the     *)
(* first delta then starts at or before `base`. Deltas are contiguous.     *)
(* Every I/O or etcd call may fail; a failure ends the replay with an      *)
(* error, as every such call returns its error at once.                    *)
(***************************************************************************)
EXTENDS Naturals, Sequences

CONSTANTS
    Keys,       \* keys of the source cluster
    Vals,       \* values a put writes
    NoVal,      \* a key's value when it is absent
    MaxRev,     \* last revision of the source history
    MaxDeltas   \* most delta snapshots after the full one

ASSUME ReplayConstants ==
    /\ NoVal \notin Vals
    /\ MaxRev \in Nat \ {0}
    /\ MaxDeltas \in Nat \ {0}

VARIABLES
    hist,     \* hist[r]: the transaction of source revision r (input)
    base,     \* revision of the state the full snapshot restored (input)
    deltas,   \* the delta snapshots: [events, last] records (input)
    kv,       \* the embedded etcd's key-value state
    rev,      \* the embedded etcd's current revision
    pc,       \* "fetch", "getRev", "apply", "verify" or "done"
    d,        \* index of the delta being applied
    i,        \* next event of deltas[d].events (the range loop at 823)
    ops,      \* ops of the pending Txn (821)
    lastRev,  \* revision of the pending Txn's events (820)
    result,   \* "none", "ok" or "err"
    faulted   \* an I/O or etcd call returned an error

inputs == <<hist, base, deltas>>
vars == <<hist, base, deltas, kv, rev, pc, d, i, ops, lastRev, result, faulted>>

-----------------------------------------------------------------------------
(* The source history and the events a delta snapshot records.            *)

\* A transaction maps the keys it touches to their new value (NoVal: delete).
Txns == UNION {[K -> Vals \cup {NoVal}] : K \in (SUBSET Keys) \ {{}}}

\* The latest of a nonempty set of revisions.
Latest(W) == CHOOSE n \in W : \A m \in W : m <= n

\* The source cluster's state at revision r: each key holds what the last
\* transaction up to r wrote to it.
HistState(h, r) ==
    [k \in Keys |->
        LET W == {n \in 1 .. r : k \in DOMAIN h[n]}
        IN  IF W = {} THEN NoVal ELSE h[Latest(W)][k]]

\* Every source revision changes the state: a delete removes a present key.
Histories ==
    {h \in [1 .. MaxRev -> Txns] :
        \A r \in 1 .. MaxRev : \A k \in DOMAIN h[r] :
            h[r][k] = NoVal => HistState(h, r - 1)[k] # NoVal}

\* The watch event of key k at revision r, with ModRevision r.
EventOf(h, r, k) ==
    [rev  |-> r,
     type |-> IF h[r][k] = NoVal THEN "DELETE" ELSE "PUT",
     key  |-> k,
     val  |-> h[r][k]]

Events == [rev : 1 .. MaxRev, type : {"PUT", "DELETE"}, key : Keys,
           val : Vals \cup {NoVal}]

\* The events of revisions s .. l.
RevEvents(h, s, l) == UNION {{EventOf(h, r, k) : k \in DOMAIN h[r]} : r \in s .. l}

\* es holds every event of revisions s .. l once, in revision order; the
\* order of one revision's events is left open.
IsRangeEvents(es, h, s, l) ==
    /\ {es[j] : j \in 1 .. Len(es)} = RevEvents(h, s, l)
    /\ \A j, m \in 1 .. Len(es) : j < m => es[j].rev <= es[m].rev /\ es[j] # es[m]

-----------------------------------------------------------------------------
(* etcd's side: a Txn applies its ops in order; the store's revision grows *)
(* by one iff some op changed it (a put, or a delete of a present key).   *)

\* clientv3.OpPut / clientv3.OpDelete of an event (lines 833-837).
OpOf(e) == [type |-> e.type, key |-> e.key, val |-> e.val]

\* What op o leaves in its key.
OpVal(o) == IF o.type = "PUT" THEN o.val ELSE NoVal

\* The value of key k once the first n ops of os are applied to state s:
\* what the last of them on k leaves there.
OpsValue(s, os, n, k) ==
    LET J == {j \in 1 .. n : os[j].key = k}
    IN  IF J = {} THEN s[k] ELSE OpVal(os[Latest(J)])

\* The Txn's new state, and whether some op changed the store.
CommitOps(s, os) ==
    [kv  |-> [k \in Keys |-> OpsValue(s, os, Len(os), k)],
     chg |-> \E j \in 1 .. Len(os) :
                os[j].type = "PUT" \/ OpsValue(s, os, j - 1, os[j].key) # NoVal]

\* Txn(ctx).Then(ops...).Commit() succeeding (lines 826, 844).
Commit(os) ==
    LET c == CommitOps(kv, os)
    IN  /\ kv' = c.kv
        /\ rev' = IF c.chg THEN rev + 1 ELSE rev

-----------------------------------------------------------------------------
Evs == deltas[d].events

\* Any call returning its error ends the replay (748-772, 826-828, 844-845, 851-853).
Fail ==
    /\ pc' = "done"
    /\ result' = "err"
    /\ faulted' = TRUE
    /\ UNCHANGED <<inputs, kv, rev, d, i, ops, lastRev>>

\* Mutants of the overlap scan: Go's 0-based index kept as is, and an
\* event at the base revision taken as new.
NewRevisionIndexZeroBased(es, lastRevision) ==
    LET past == {j \in 1 .. Len(es) : es[j].rev > lastRevision}
    IN  IF past = {} THEN 0 ELSE (CHOOSE j \in past : \A m \in past : j <= m) - 1

NewRevisionIndexGE(es, lastRevision) ==
    LET past == {j \in 1 .. Len(es) : es[j].rev >= lastRevision}
    IN  IF past = {} THEN 1 ELSE CHOOSE j \in past : \A m \in past : j <= m

\* newRevisionIndex (784-790): the first event past lastRevision, or the
\* first event (Go's zero value) when there is none. 1-based here.
NewRevisionIndex(es, lastRevision) ==
    LET past == {j \in 1 .. Len(es) : es[j].rev > lastRevision}
    IN  IF past = {} THEN 1 ELSE CHOOSE j \in past : \A m \in past : j <= m

\* Start applyEventsToEtcd on deltas[d].events from index from (818-822).
StartApply(from) ==
    /\ pc' = "apply"
    /\ i' = from
    /\ ops' = <<>>
    /\ lastRev' = 0

\* applyEventsAndVerify (733-742) on the next delta: all of its events.
NextDelta == d' = d + 1 /\ StartApply(1)

\* Fetch, read and unmarshal the first delta (746-761).
FetchFirst ==
    /\ pc = "fetch"
    /\ \/ /\ pc' = "getRev"
          /\ UNCHANGED <<inputs, kv, rev, d, i, ops, lastRev, result, faulted>>
       \/ Fail

\* Get etcd's revision; skip a delta the base covers exactly, otherwise
\* apply its events from newRevisionIndex on (768-794).
GetRevision ==
    /\ pc = "getRev"
    /\ \/ /\ rev = deltas[1].last
          /\ pc' = "verify"
          /\ UNCHANGED <<inputs, kv, rev, d, i, ops, lastRev, result, faulted>>
       \/ /\ rev # deltas[1].last
          /\ StartApply(NewRevisionIndex(Evs, rev))
          /\ UNCHANGED <<inputs, kv, rev, d, result, faulted>>
       \/ Fail

\* An event of the pending Txn's revision joins it (829-837).
AddOp ==
    /\ pc = "apply"
    /\ i <= Len(Evs)
    /\ ~(lastRev # 0 /\ Evs[i].rev > lastRev)
    /\ ops' = Append(ops, OpOf(Evs[i]))
    /\ lastRev' = Evs[i].rev
    /\ i' = i + 1
    /\ UNCHANGED <<inputs, kv, rev, pc, d, result, faulted>>

\* An event of a later revision commits the pending Txn first (825-830).
CommitAndAdd ==
    /\ pc = "apply"
    /\ i <= Len(Evs)
    /\ lastRev # 0 /\ Evs[i].rev > lastRev
    /\ \/ /\ Commit(ops)
          /\ ops' = <<OpOf(Evs[i])>>
          /\ lastRev' = Evs[i].rev
          /\ i' = i + 1
          /\ UNCHANGED <<inputs, pc, d, result, faulted>>
       \/ Fail

\* The loop ends: commit the last Txn, even an empty one (844-845).
FinalCommit ==
    /\ pc = "apply"
    /\ i > Len(Evs)
    /\ \/ /\ Commit(ops)
          /\ pc' = "verify"
          /\ UNCHANGED <<inputs, d, i, ops, lastRev, result, faulted>>
       \/ Fail

\* Mutant: a verification that never compares the revisions.
VerifyNoCompare ==
    /\ pc = "verify"
    /\ \/ /\ IF d = Len(deltas)
               THEN /\ pc' = "done" /\ result' = "ok"
                    /\ UNCHANGED <<d, i, ops, lastRev>>
               ELSE NextDelta /\ UNCHANGED result
          /\ UNCHANGED <<inputs, kv, rev, faulted>>
       \/ Fail

\* verifySnapshotRevision (848-864); on success the next delta is applied
\* from its first event (applyEventsAndVerify, 733-742), or the replay ends.
Verify ==
    /\ pc = "verify"
    /\ \/ /\ rev = deltas[d].last
          /\ IF d = Len(deltas)
               THEN /\ pc' = "done" /\ result' = "ok"
                    /\ UNCHANGED <<d, i, ops, lastRev>>
               ELSE NextDelta /\ UNCHANGED result
          /\ UNCHANGED <<inputs, kv, rev, faulted>>
       \/ /\ rev # deltas[d].last
          /\ pc' = "done"
          /\ result' = "err"
          /\ UNCHANGED <<inputs, kv, rev, d, i, ops, lastRev, faulted>>
       \/ Fail

-----------------------------------------------------------------------------
\* Contiguous deltas: the first starts at most one past the base (its name
\* revision is at most base), each later one right after the previous.
IsDeltaChain(c, h, b) ==
    \E s \in 1 .. b + 1 :
        /\ s <= c[1].last
        /\ \A k \in 1 .. Len(c) - 1 : c[k].last < c[k + 1].last
        /\ \A k \in 1 .. Len(c) :
              IsRangeEvents(c[k].events, h,
                            IF k = 1 THEN s ELSE c[k - 1].last + 1, c[k].last)

Chain == Seq([last : 1 .. MaxRev, events : Seq(Events)])

DeltaChains(h, b) ==
    {c \in Chain : Len(c) \in 1 .. MaxDeltas /\ IsDeltaChain(c, h, b)}

Init ==
    /\ hist \in Histories
    /\ base \in 0 .. MaxRev
    /\ deltas \in DeltaChains(hist, base)
    /\ kv = HistState(hist, base)
    /\ rev = base
    /\ pc = "fetch"
    /\ d = 1
    /\ i = 1
    /\ ops = <<>>
    /\ lastRev = 0
    /\ result = "none"
    /\ faulted = FALSE

Done == pc = "done" /\ UNCHANGED vars

Next ==
    \/ FetchFirst \/ GetRevision \/ AddOp \/ CommitAndAdd
    \/ FinalCommit \/ Verify \/ Done

Spec == Init /\ [][Next]_vars

-----------------------------------------------------------------------------
(* Properties.                                                             *)

TypeOK ==
    /\ kv \in [Keys -> Vals \cup {NoVal}]
    /\ rev \in Nat
    /\ pc \in {"fetch", "getRev", "apply", "verify", "done"}
    /\ d \in 1 .. Len(deltas)
    /\ i \in 1 .. Len(Evs) + 1
    /\ ops \in Seq([type : {"PUT", "DELETE"}, key : Keys, val : Vals \cup {NoVal}])
    /\ lastRev \in 0 .. MaxRev
    /\ result \in {"none", "ok", "err"}
    /\ faulted \in BOOLEAN

\* While applyEventsToEtcd replays a first delta that reaches past the full
\* snapshot, every committed Txn leaves the embedded etcd exactly where the
\* source cluster was at the same revision: the overlap scan skips every
\* event the full snapshot already holds, and each Txn is one source revision.
MirrorsHistory ==
    (pc \in {"apply", "verify"} /\ base < deltas[1].last)
        => kv = HistState(hist, rev)

\* A restore that applyDeltaSnapshots reports successful ends with the
\* source's state at the last delta's LastRevision.
ReplayMatchesHistory ==
    result = "ok" =>
        /\ rev = deltas[Len(deltas)].last
        /\ kv = HistState(hist, rev)

\* The design's overlap policy: with no I/O or etcd error, the replay of a
\* contiguous chain of deltas succeeds, whatever the full snapshot's revision.
NoSpuriousFailure ==
    (pc = "done" /\ ~faulted) => result = "ok"

=============================================================================
