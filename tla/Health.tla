------------------------------- MODULE Health -------------------------------
(***************************************************************************)
(* The cooldown arithmetic of MemoryHealth                                  *)
(* (src/internal/adapter/unified/health.go).  An entry holds the ticks left *)
(* of its cooldown and the consecutive transient strikes; a key without an  *)
(* entry is online.  Info deletes an expired entry when it reads it,        *)
(* RecordFailure does not look at the expiry.                               *)
(***************************************************************************)
EXTENDS Naturals

CONSTANTS TransientTicks, StructuralTicks, QuotaTicks, Strikes

ASSUME CooldownAssumption ==
    /\ TransientTicks \in Nat /\ StructuralTicks \in Nat /\ QuotaTicks \in Nat
    /\ 0 < TransientTicks
    /\ TransientTicks <= StructuralTicks
    /\ StructuralTicks <= QuotaTicks
    /\ Strikes \in Nat \ {0}

(* What ClassifyError tells apart; "unknown" is a text it does not match.   *)
Class == {"unknown", "transient", "structural", "quota"}

Online == [left |-> 0, strikes |-> 0]

Entry == [left : 0..QuotaTicks, strikes : 0..Strikes]

(* Info: an entry whose cooldown is over is deleted by the read.            *)
AsRead(e) == IF e.left = 0 THEN Online ELSE e

IsOnline(e) == e.left = 0

Struck(e) == IF e.strikes < Strikes THEN e.strikes + 1 ELSE Strikes

(* RecordFailure.  Strikes beyond the threshold are not told apart.         *)
Failed(e, class) ==
    CASE class = "quota" ->
            [left |-> QuotaTicks, strikes |-> 0]
      [] class = "structural" ->
            [left |-> StructuralTicks, strikes |-> 0]
      [] OTHER ->
            [strikes |-> Struck(e),
             left |-> IF Struck(e) >= Strikes THEN StructuralTicks
                                              ELSE TransientTicks]

Aged(e) == [e EXCEPT !.left = IF @ = 0 THEN 0 ELSE @ - 1]
=============================================================================
