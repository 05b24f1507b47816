---------------------------- MODULE MCTaskSchedule ----------------------------
(* Instances of TaskSchedule for TLC: replicas and slots are alike. *)
EXTENDS TaskSchedule, TLC

Alike == Permutations(Replica) \cup Permutations(Slot)
=============================================================================
