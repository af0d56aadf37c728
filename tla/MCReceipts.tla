----------------------------- MODULE MCReceipts -----------------------------
EXTENDS Receipts

MCBackends == {"file", "redis"}
=============================================================================
