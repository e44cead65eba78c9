---------------------------- MODULE MCReminders ----------------------------
(***************************************************************************)
(* Two reminders and a task for TLC.                                       *)
(***************************************************************************)
EXTENDS Reminders

CONSTANTS r1, r2, t1

MCReminders == {r1, r2}
OneTask == {t1}

=============================================================================
