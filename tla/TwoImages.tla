------------------------------ MODULE TwoImages ------------------------------
(***************************************************************************)
(* What an ONU promises about its software: two slots hold one image each, *)
(* one of them is active and one, the same or the other, is committed.     *)
(* A download changes only a slot that is neither, and only to the image   *)
(* that was asked for; activating and committing change no image.          *)
(***************************************************************************)
CONSTANT Image \* versions of images

VARIABLES
    slot,       \* the image in every slot
    active,     \* the slot of the active image
    committed,  \* the slot of the committed image
    wanted      \* the image that is being downloaded

vars == <<slot, active, committed, wanted>>
Slots == {0, 1}

Init ==
    /\ slot \in [Slots -> Image]
    /\ active = 0
    /\ committed = 0
    /\ wanted \in Image

Want ==
    /\ wanted' \in Image
    /\ UNCHANGED <<slot, active, committed>>

Download(i) ==
    /\ i \notin {active, committed}
    /\ slot' = [slot EXCEPT ![i] = wanted]
    /\ UNCHANGED <<active, committed, wanted>>

Activate(i) ==
    /\ active' = i
    /\ UNCHANGED <<slot, committed, wanted>>

Commit ==
    /\ committed' = active
    /\ UNCHANGED <<slot, active, wanted>>

Next ==
    \/ Want \/ Commit
    \/ \E i \in Slots : Download(i) \/ Activate(i)

Spec == Init /\ [][Next]_vars
===============================================================================
