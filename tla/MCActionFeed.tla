----------------------------- MODULE MCActionFeed -----------------------------
EXTENDS ActionFeed, TLC

\* Actions of one slot are interchangeable.
Symmetries == Permutations(Ids)
=============================================================================
