---------------------------- MODULE MCBallLedger ----------------------------
(* The unconditional appends the program makes about each dog. *)
EXTENDS BallLedger, TLC

PlainEvents ==
  {By(t, b) : b \in Breed,
              t \in {"invocation.started", "invocation.heartbeat", "invocation.died", "ball.held",
                     "task.done", "task.blocked", "ball.hold_expired", "ball.handed_cvo"}}
  \cup {By("ball.void_pass", None)}

Symmetry == Permutations(Caller)
=============================================================================
