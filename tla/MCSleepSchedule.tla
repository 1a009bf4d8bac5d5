--------------------------- MODULE MCSleepSchedule --------------------------
(* Small instances of SleepSchedule.                                        *)
EXTENDS SleepSchedule

CONSTANTS o1, o2

=============================================================================
