----------------------------- MODULE MCRegistry -----------------------------
EXTENDS ActionRegistry
=============================================================================
