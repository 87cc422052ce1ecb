---------------------------- MODULE MCScheduler ----------------------------
(* Instances of Scheduler: a repeated task, of all nodes or of the master, and *)
(* a PG function with a "once" schedule.                                      *)
EXTENDS Scheduler, TLC

CONSTANTS checkIn, mailSend, fnc, sCheckIn, sMail, sOnce

MCMasterOnly  == {mailSend} \cap SystemTasks
MCRunAtFirst  == {}
MCFunctions   == {fnc}
MCSchedules   == {sCheckIn, sMail, sOnce}
MCOnce        == {sOnce}
MCScheduleOf  == [n \in Names |-> CASE n = checkIn  -> {sCheckIn}
                                    [] n = mailSend -> {sMail}
                                    [] n = fnc      -> {sOnce}]
MCInterval    == (sCheckIn :> 1) @@ (sMail :> 1) @@ (sOnce :> 1)
Symmetry      == Permutations(Runners)
=============================================================================
