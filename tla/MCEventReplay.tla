---------------------------- MODULE MCEventReplay ----------------------------
(***************************************************************************)
(* Model of EventReplay for TLC. EventReplay describes a delta chain by    *)
(* what its events must be (IsDeltaChain); TLC cannot enumerate that set, *)
(* so the cfgs replace DeltaChains by MCDeltaChains, which builds the      *)
(* events of each revision in a fixed key order, as the watch reports one  *)
(* transaction's keys.                                                     *)
(***************************************************************************)
EXTENDS EventReplay, SequencesExt

CONSTANTS k1, k2, v1, none

MCKeys == {k1, k2}
MCVals == {v1}
MCMaxRev == 3
MCMaxDeltas == 2

KeyOrder == SetToSeq(Keys)

\* The watch events of revision r, one per key, in key order.
TxnEvents(h, r) ==
    LET ks == SelectSeq(KeyOrder, LAMBDA k : k \in DOMAIN h[r])
    IN  [j \in 1 .. Len(ks) |-> EventOf(h, r, ks[j])]

\* The events of revisions s .. l, in revision order.
RangeEvents(h, s, l) == FlattenSeq([n \in 1 .. l - s + 1 |-> TxnEvents(h, s + n - 1)])

MCDeltaChains(h, b) ==
    UNION {{[k \in 1 .. n |->
               [last   |-> lasts[k],
                events |-> RangeEvents(h, IF k = 1 THEN s ELSE lasts[k - 1] + 1,
                                       lasts[k])]] :
              lasts \in {ls \in [1 .. n -> s .. MaxRev] :
                            \A k \in 1 .. n - 1 : ls[k] < ls[k + 1]}} :
           n \in 1 .. MaxDeltas, s \in 1 .. b + 1}

\* Every chain TLC starts from is a delta chain as EventReplay defines it.
ASSUME MCChainsAreDeltaChains ==
    \A h \in Histories, b \in 0 .. MaxRev :
        \A c \in MCDeltaChains(h, b) :
            /\ c \in Chain
            /\ Len(c) \in 1 .. MaxDeltas
            /\ IsDeltaChain(c, h, b)

=============================================================================
