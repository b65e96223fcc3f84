----------------------------- MODULE MCScheduler -----------------------------
(***************************************************************************)
(* Two schedules with two contents and the heartbeat, three changes, two   *)
(* stops.                                                                  *)
(***************************************************************************)
EXTENDS Scheduler

CONSTANTS a, b, daily, hourly
MCId == {a, b}
MCContent == {daily, hourly}
=============================================================================
