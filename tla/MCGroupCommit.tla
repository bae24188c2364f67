---------------------------- MODULE MCGroupCommit ----------------------------
EXTENDS GroupCommit
=============================================================================
