----------------------------- MODULE DeviceFsm -----------------------------
(***************************************************************************)
(* The finite state machines of the simulated devices, as tables.          *)
(*                                                                         *)
(* Every device of BBSim drives its life cycle with a looplab/fsm machine. *)
(* A table maps the name of an event to the states it may be fired from    *)
(* and the state it leads to.  `Fires' and `After' are the library's       *)
(* FSM.Event: an event that the table does not allow in the current state  *)
(* is an error that changes nothing and runs no callback.                  *)
(***************************************************************************)

Tx(src, dst) == [src |-> src, dst |-> dst]

\* FSM.Event finds a transition and the machine really moves
Fires(table, event, state) ==
    state \in table[event].src /\ state # table[event].dst

After(table, event, state) ==
    IF Fires(table, event, state) THEN table[event].dst ELSE state

OnuStates ==
    {"created", "initialized", "discovered", "enabled", "disabled",
     "pon_disabled", "image_started", "image_in_progress",
     "image_complete", "image_error", "image_activated", "image_committed"}

OnuTx ==
    [initialize     |-> Tx({"created", "disabled", "pon_disabled"}, "initialized"),
     discover       |-> Tx({"initialized"}, "discovered"),
     enable         |-> Tx({"discovered", "pon_disabled"}, "enabled"),
     disable        |-> Tx({"enabled", "pon_disabled", "image_activated",
                            "image_error", "image_committed"}, "disabled"),
     pon_disable    |-> Tx({"enabled", "image_activated", "image_error",
                            "image_committed", "image_complete"}, "pon_disabled"),
     start_image    |-> Tx({"enabled", "image_complete", "image_error",
                            "image_committed"}, "image_started"),
     progress_image |-> Tx({"image_started"}, "image_in_progress"),
     complete_image |-> Tx({"image_in_progress"}, "image_complete"),
     fail_image     |-> Tx({"image_in_progress"}, "image_error"),
     activate_image |-> Tx({"image_complete"}, "image_activated"),
     commit_image   |-> Tx({"enabled"}, "image_committed")]

OnuEvents == DOMAIN OnuTx

PonStates == {"created", "enabled", "disabled"}

PonTx ==
    [enable  |-> Tx({"created", "disabled"}, "enabled"),
     disable |-> Tx({"enabled"}, "disabled")]

OltStates == {"created", "initialized", "enabled", "disabled", "deleted"}

OltTx ==
    [initialize |-> Tx({"created", "deleted"}, "initialized"),
     enable     |-> Tx({"initialized", "disabled"}, "enabled"),
     disable    |-> Tx({"enabled"}, "disabled"),
     delete     |-> Tx({"disabled", "enabled"}, "deleted")]

\* getOperStateFSM, also the operational state of PON and UNI ports
OperTx ==
    [enable  |-> Tx({"down"}, "up"),
     disable |-> Tx({"up"}, "down")]
============================================================================
