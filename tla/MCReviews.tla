------------------------------- MODULE MCReviews -------------------------------
EXTENDS Reviews
=============================================================================
