-------------------------------- MODULE Inbox --------------------------------
(***************************************************************************)
(* What the deferred path promises: a receipt ends once, either as one      *)
(* proposal the owner can decide on or by being dropped                     *)
(* (src/internal/settings/people_memory_recall.go:173-295).                 *)
(***************************************************************************)
CONSTANT Receipt

VARIABLE fate       \* "open", "taken" or "dropped"

InboxInit == fate = [r \in Receipt |-> "open"]

(* It becomes a proposal, or it is withdrawn or forgotten: once.            *)
End(r, how) ==
    /\ fate[r] = "open"
    /\ fate' = [fate EXCEPT ![r] = how]

InboxNext == \E r \in Receipt, how \in {"taken", "dropped"} : End(r, how)

InboxSpec == InboxInit /\ [][InboxNext]_fate
=============================================================================
