--------------------------- MODULE MCWeeklyReports ---------------------------
(* WeeklyReports for TLC.                                                   *)
EXTENDS WeeklyReports, TLC

=============================================================================
