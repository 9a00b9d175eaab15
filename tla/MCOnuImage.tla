----------------------------- MODULE MCOnuImage -----------------------------
(***************************************************************************)
(* What VOLTHA manages on an ONU besides its MIB: the software images      *)
(* (OnuImage) and the alarms (OnuAlarms), two parts that share no variable *)
(* but run in one loop.  A behaviour has one of them.                      *)
(***************************************************************************)
EXTENDS OnuImage, OnuAlarms

VARIABLE part

ASSUME AlarmsAssumption == PortsAssumption /\ MaxQueue \in Nat

MCInit ==
    /\ part \in {"image", "alarms"} /\ Init /\ AlarmInit
    /\ part = "alarms" => image = CHOOSE v \in Image : TRUE

MCNext ==
    /\ UNCHANGED part
    /\ \/ part = "image" /\ Next /\ UNCHANGED alarmVars
       \/ part = "alarms" /\ AlarmNext /\ UNCHANGED vars

\* the goroutine that reboots the ONU runs
MCSpec ==
    /\ MCInit /\ [][MCNext]_<<part, vars, alarmVars>>
    /\ WF_vars(part = "image" /\ RebootOff) /\ WF_vars(part = "image" /\ RebootOn)
=============================================================================
