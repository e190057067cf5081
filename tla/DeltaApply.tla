----------------------------- MODULE DeltaApply -----------------------------
(***************************************************************************)
(* What applyDeltaSnapshots (src/pkg/types/restorer.go, 500-730) promises  *)
(* its caller about the remaining deltas 0 .. N-1, whatever its goroutines *)
(* do inside: the deltas reach the transient etcd one at a time and in     *)
(* order, the returned err is decided once, and nil is returned only when  *)
(* every delta has been written.  An error may be returned at any point,   *)
(* and writing may go on after it (a failed delta can be half-written).    *)
(***************************************************************************)
EXTENDS Naturals, Sequences

CONSTANT N          \* number of deltas to apply

VARIABLES
    written,        \* deltas written to the transient etcd, in order
    outcome         \* "none" until the err is decided, then "nil" or "err"

vars == <<written, outcome>>

Init ==
    /\ written = <<>>
    /\ outcome = "none"

\* The next delta in order is written.
WriteNext ==
    /\ Len(written) < N
    /\ written' = Append(written, Len(written))
    /\ UNCHANGED outcome

\* Success is reported once every delta has been written.
ReportNil ==
    /\ outcome = "none"
    /\ Len(written) = N
    /\ outcome' = "nil"
    /\ UNCHANGED written

\* An error is reported.
ReportErr ==
    /\ outcome = "none"
    /\ outcome' = "err"
    /\ UNCHANGED written

Next == WriteNext \/ ReportNil \/ ReportErr

Spec == Init /\ [][Next]_vars

=============================================================================
