------------------------- MODULE MCSessionRepository -------------------------
\* Tabs and Sessions are interchangeable.
EXTENDS SessionRepository, TLC

Interchangeable == Permutations(Tab) \union Permutations(Session)
=============================================================================
