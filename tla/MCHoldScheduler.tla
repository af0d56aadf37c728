-------------------------- MODULE MCHoldScheduler --------------------------
EXTENDS HoldScheduler

CONSTANTS a, b

Of(holder, kind, timed) == [id |-> 0, holder |-> holder, kind |-> kind, timed |-> timed]

MCAsks == {Of(a, "manual", FALSE), Of(a, "webhook", TRUE), Of(a, "command", FALSE)}

\* Another dog is started; the run of the parked dog is swept.
MCOthers == {By("invocation.started", b), By("invocation.started", a), By("invocation.died", a)}

\* A dog that runs before it parks, and nothing else.
MCRun == {HandTo("ball.handed", a), By("invocation.started", a)}
=============================================================================
