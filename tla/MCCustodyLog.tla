---------------------------- MODULE MCCustodyLog ----------------------------
(* What the program appends about one dog, and what names another. *)
EXTENDS CustodyLog

CONSTANTS a, b

MCWritable ==
  {By(t, a) : t \in {"invocation.started", "invocation.heartbeat", "task.done", "task.blocked",
                     "ball.held", "wake_condition_met", "hold_dispositioned",
                     "ball.wake_sent", "ball.disposition_rejected", "invocation.died",
                     "ball.hold_expired", "ball.handed_cvo"}}
  \cup {HandTo("dispatch_dispositioned", a), HandTo("ball.handed", b),
        By("invocation.started", b), By("invocation.heartbeat", b),
        By("ball.void_pass", None), By("task.unblocked", None), By("ball.frozen", None)}
=============================================================================
