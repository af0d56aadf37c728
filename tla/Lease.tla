------------------------------- MODULE Lease -------------------------------
(***************************************************************************)
(* What the warm pool promises its callers in single-flight mode: a process *)
(* is lent to one turn at a time (src/internal/adapter/pool/warm.go:20-27,  *)
(* 212-217).  WarmPool implements this specification.                       *)
(***************************************************************************)
CONSTANTS Process, Turn, Nobody

VARIABLE owner      \* owner[p]: the turn that process p serves, or Nobody

LeaseTypeOK == owner \in [Process -> Turn \union {Nobody}]

LeaseInit == owner = [p \in Process |-> Nobody]

(* A process that serves nobody is lent.                                   *)
Grant(p, t) ==
    /\ owner[p] = Nobody
    /\ owner' = [owner EXCEPT ![p] = t]

(* The borrower gives it back, whatever state it is in by then.             *)
GiveBack(p) ==
    /\ owner[p] # Nobody
    /\ owner' = [owner EXCEPT ![p] = Nobody]

LeaseNext ==
    \E p \in Process : GiveBack(p) \/ \E t \in Turn : Grant(p, t)

LeaseSpec == LeaseInit /\ [][LeaseNext]_owner
=============================================================================
