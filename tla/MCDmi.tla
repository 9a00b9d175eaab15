------------------------------- MODULE MCDmi -------------------------------
(* The two parts of the Device Management Interface for TLC.  They share only whether
   there is an inventory, which both model, so each is checked by itself: the first
   state of a behaviour chooses the part that moves.                              *)
EXTENDS DmiTelemetry

CONSTANTS Transceivers, Callers, MaxTrees

VARIABLES
  uuid, root, trees, PluggedIn, olt, pon, logging, call, over, overtaken,
  part \* the part that moves

tree == <<uuid, root, trees, PluggedIn, olt, pon, logging, call, over, overtaken>>

I == INSTANCE DmiInventory

ASSUME DmiAssumption == BoundsAssumption /\ I!DmiAssumption

MCInit == Init /\ I!Init /\ part \in {"inventory", "telemetry"}

MCNext ==
  /\ UNCHANGED part
  /\ \/ part = "inventory" /\ I!Next /\ UNCHANGED vars
     \/ part = "telemetry" /\ Next /\ UNCHANGED tree

MCSpec == MCInit /\ [][MCNext]_<<vars, tree, part>>

\* The inventory is that of the transceivers which are plugged in, see DmiInventory.
InventoryExact == I!InventoryExact
=============================================================================
