------------------------------ MODULE HoldLife ------------------------------
(***************************************************************************)
(* What the hold scheduler promises of the holds of a thread               *)
(* (src/internal/domains/custody/services/hold_scheduler.go:43-49, 77-82,  *)
(* 272-273): at most one is active at a time; each is registered, then in  *)
(* the hands of one who releases, expires or cancels it, then ended.  None *)
(* comes back, and none is dropped on the way.  HoldScheduler implements   *)
(* this specification.                                                     *)
(***************************************************************************)
CONSTANT Holds

VARIABLE phase      \* of each hold: unmade, active, taken, ended

LifeTypeOK == phase \in [Holds -> {"unmade", "active", "taken", "ended"}]

LifeInit == phase = [h \in Holds |-> "unmade"]

Move(h, from, to) == phase[h] = from /\ phase' = [phase EXCEPT ![h] = to]

(* A dog's hold is refused as long as another is active.                   *)
Register(h) == Move(h, "unmade", "active") /\ \A i \in Holds : phase[i] # "active"

(* A click, a webhook, the ticker, a command or a cancel takes it ...      *)
Take(h) == Move(h, "active", "taken")

(* ... and tells the ledger.                                               *)
End(h) == Move(h, "taken", "ended")

LifeNext == \E h \in Holds : Register(h) \/ Take(h) \/ End(h)

LifeSpec == LifeInit /\ [][LifeNext]_phase
=============================================================================
