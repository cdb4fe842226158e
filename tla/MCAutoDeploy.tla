---------------------------- MODULE MCAutoDeploy ----------------------------
EXTENDS AutoDeploy
=============================================================================
