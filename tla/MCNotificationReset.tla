------------------------ MODULE MCNotificationReset ------------------------
(* Intake on, with pickup on or paused.                                      *)
EXTENDS NotificationReset

FoundSettings == {[intake |-> TRUE, pickup |-> on] : on \in BOOLEAN}
=============================================================================
