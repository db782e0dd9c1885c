----------------------------- MODULE AcMessages -----------------------------
(***************************************************************************)
(* The vocabulary of app_messages.h that the tasks share.                  *)
(***************************************************************************)

UserEvents == {"SETPOINT_UP", "SETPOINT_DOWN", "MANUAL", "POWER", "BUZZER_CLICK"}

AcState == {"OFF", "IDLE", "COOLING", "WINDOW_SUSPECT", "AC_PAUSED",
            "RECOVERY_WAIT", "MANUAL_OVERRIDE"}
=============================================================================
