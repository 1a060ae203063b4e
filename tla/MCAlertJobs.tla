---------------------------- MODULE MCAlertJobs ----------------------------
(* Instances of AlertJobs for TLC. *)
EXTENDS AlertJobs, TLC

CONSTANTS w1, night, again, boss, mate

TwoLocks == night :> "warranty_refresh" @@ again :> "warranty_refresh"
OneWarranty == w1 :> "warranty_refresh"
=============================================================================
