------------------------------ MODULE MCCarrier ------------------------------
EXTENDS Carrier

Of(m, l, s) == [multiplexing |-> m, maxLease |-> l, multi |-> s]

\* The transport for one provider, without and with stale leases taken back by
\* force, and the transport for several providers, which the platform builds.
MCModes == {Of(FALSE, FALSE, FALSE), Of(FALSE, TRUE, FALSE), Of(FALSE, FALSE, TRUE)}
=============================================================================
