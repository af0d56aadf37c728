------------------------------ MODULE MCReview ------------------------------
EXTENDS Review
=============================================================================
