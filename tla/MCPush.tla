------------------------------- MODULE MCPush -------------------------------
EXTENDS PushOutbox
=============================================================================
