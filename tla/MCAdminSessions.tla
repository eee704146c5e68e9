--------------------------- MODULE MCAdminSessions ---------------------------
EXTENDS AdminSessions, TLC

\* Requests and sessions are interchangeable.
Symmetry == Permutations(Session) \cup Permutations(Request)
=============================================================================
