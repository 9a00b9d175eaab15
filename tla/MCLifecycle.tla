---------------------------- MODULE MCLifecycle ----------------------------
(***************************************************************************)
(* Small instances of Lifecycle: one or two ONUs, two request goroutines.  *)
(***************************************************************************)
EXTENDS Lifecycle, TLC

CONSTANTS o1, o2

MCOne == <<o1>>
MCTwo == <<o1, o2>>

\* every ONU has an id of its own
MCOneId == o1 :> {1}
MCTwoIds == (o1 :> {1}) @@ (o2 :> {2})

AllRequests ==
    {"Enable", "ActivateOnu", "DeleteOnu", "DisablePonIf", "EnablePonIf",
     "DisableOlt", "ReenableOlt", "RestartOLT", "OmciImage", "OmciReboot",
     "ShutdownONU", "PoweronONU", "ShutdownONUsOnPON", "PoweronONUsOnPON"}
============================================================================
