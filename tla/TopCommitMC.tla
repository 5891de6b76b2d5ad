---------------------------- MODULE TopCommitMC ----------------------------
(* TopCommit on codes of two letters, with bugs of the code to catch.      *)
EXTENDS TopCommit
=============================================================================
