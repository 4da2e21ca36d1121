---------------------------- MODULE MCServiceJobs ----------------------------
(* Instances of ServiceJobs for TLC.                                       *)
EXTENDS ServiceJobs, TLC

=============================================================================
