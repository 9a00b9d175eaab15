---------------------------- MODULE DmiInventory ----------------------------
(* The inventory of the Device Management Interface (src/internal/bbsim/dmiserver):
   a device manager starts and stops managing the OLT, which builds and drops a tree
   of components with a cage for each transceiver, and a user plugs transceivers out
   and in.  The handlers run on goroutines of the gRPC server and share their state
   without a lock.                                                             *)
EXTENDS Integers, Sequences, FiniteSets

CONSTANTS
  Transceivers, \* each has one PON
  Callers,      \* the goroutines of the calls
  MaxTrees      \* bound on StartManagingDevice

DmiAssumption == MaxTrees \in Nat

VARIABLES
  uuid,      \* whether it is set
  root,      \* the number of the tree, 0 for nil
  trees,     \* the trees that were built: the components in each cage
  PluggedIn, \* of each transceiver
  olt,       \* whether the OLT is enabled
  pon,       \* the PON of each transceiver: enabled, and its last LOS indication
  logging,   \* whether there is a logging endpoint
  call,      \* what each goroutine does
  over,      \* a handler has panicked
  overtaken  \* what has happened, of "race": two calls for a transceiver, or a call
             \* and a change of the tree, at the same time, "disable": the OLT was
             \* disabled, "nil": a call named the uuid of an unmanaged device, "gone": or
             \* a component that is not in the inventory

vars == <<uuid, root, trees, PluggedIn, olt, pon, logging, call, over, overtaken>>

Idle == [op |-> "none", t |-> "none", tree |-> 0]

Init ==
  /\ uuid = FALSE /\ root = 0
  /\ trees = <<>>
  /\ PluggedIn = [t \in Transceivers |-> TRUE]
  /\ olt = FALSE
  /\ pon = [t \in Transceivers |-> [enabled |-> FALSE, los |-> FALSE]]
  /\ logging = FALSE
  /\ call = [c \in Callers |-> Idle]
  /\ over = FALSE
  /\ overtaken = {}

Overtakes(how, happens) == overtaken' = IF happens THEN overtaken \cup {how} ELSE overtaken

\* A call begins; others may be under way, busy of which are in its way.  The
\* bound: once two calls have been in each other's way, no other one begins.
Begins(c, busy) ==
  /\ ~over
  /\ call[c] = Idle
  /\ "race" \notin overtaken
  /\ Overtakes("race", busy # {})
Handling(ops) == {c \in Callers : call[c].op \in ops}
About(t) == {c \in Callers : call[c].t = t}
Becomes(c, op, t, tree) == call' = [call EXCEPT ![c] = [op |-> op, t |-> t, tree |-> tree]]
Returns(c) == call' = [call EXCEPT ![c] = Idle]
----------------------------------------------------------------------------
(* StartManagingDevice, StopManagingDevice and GetPhysicalInventory.         *)

\* Mutant: every cage gets its transceiver.
FullTree == [t \in Transceivers |-> 1]

\* The transceivers survive in their own list; a cage is empty when its
\* transceiver is not plugged in.
NewTree == [t \in Transceivers |-> IF PluggedIn[t] THEN 1 ELSE 0]

StartManagingDevice(c) ==
  /\ Begins(c, Handling({"start", "out", "in"}))
  /\ Len(trees) < MaxTrees
  /\ uuid' = TRUE
  /\ trees' = Append(trees, NewTree)
  /\ Becomes(c, "start", "none", Len(trees) + 1)
  /\ UNCHANGED <<root, PluggedIn, olt, pon, logging, over>>

\* The tree becomes the root when it is complete.
SetRoot(c) ==
  /\ ~over
  /\ call[c].op = "start"
  /\ root' = call[c].tree
  /\ Returns(c)
  /\ UNCHANGED <<uuid, trees, PluggedIn, olt, pon, logging, over, overtaken>>

StopManagingDevice(c) ==
  /\ Begins(c, Handling({"start", "out", "in"}))
  /\ uuid' = FALSE /\ root' = 0
  /\ UNCHANGED <<trees, PluggedIn, olt, pon, logging, call, over>>

\* The uuid of a request is compared with the one of the device, which is nil when it
\* is not managed.
ComparesUuid(c) ==
  /\ ~over
  /\ call[c] = Idle
  /\ over' = ~uuid
  /\ Overtakes("nil", ~uuid)

GetPhysicalInventory(c) ==
  ComparesUuid(c) /\ UNCHANGED <<uuid, root, trees, PluggedIn, olt, pon, logging, call>>
UpdateStartupConfiguration(c) ==
  ComparesUuid(c) /\ UNCHANGED <<uuid, root, trees, PluggedIn, olt, pon, logging, call>>
GetStartupConfigurationInfo(c) ==
  ComparesUuid(c) /\ UNCHANGED <<uuid, root, trees, PluggedIn, olt, pon, logging, call>>
SetLoggingEndpoint(c) ==
  /\ ComparesUuid(c)
  /\ logging' = (logging \/ uuid)
  /\ UNCHANGED <<uuid, root, trees, PluggedIn, olt, pon, call>>
----------------------------------------------------------------------------
(* What the calls that only read find in the tree of the managed device.     *)

Cage(t) == trees[root][t]

\* What is not a cage, by class.
Parts == [FAN |-> {1, 2}, STORAGE |-> {0}, CPU |-> {0}, MEMORY |-> {0}, SENSOR |-> {0},
          POWER_SUPPLY |-> {0}]

\* A plugged-in transceiver hangs below its cage, and its port below the transceiver.
Component(class, id) == [class |-> class, id |-> id]
Below(t) == IF Cage(t) = 0 THEN {} ELSE {Component("TRANSCEIVER", t), Component("PORT", t)}
Components ==
  UNION {{Component(class, id) : id \in Parts[class]} : class \in DOMAIN Parts}
  \cup UNION {{Component("CONTAINER", t)} \cup Below(t) : t \in Transceivers}

findComponentsOfType(class) == {x \in Components : x.class = class}
findComponent(x) == x \in Components
GetHWComponentInfo(x) == IF root = 0 THEN "not managed" ELSE IF findComponent(x) THEN "OK" ELSE "UNKNOWN_DEVICE"
GetManagedDevices == IF root = 0 THEN {} ELSE {"device"}
GetTransceivers == {t \in Transceivers : PluggedIn[t]}

\* The component of the request is used as it was found, or not found.
GetMetric(c, x) ==
  /\ ~over
  /\ call[c] = Idle
  /\ root # 0
  /\ over' = ~findComponent(x)
  /\ Overtakes("gone", ~findComponent(x))
  /\ UNCHANGED <<uuid, root, trees, PluggedIn, olt, pon, logging, call>>
----------------------------------------------------------------------------
(* PlugOutTransceiver and PlugInTransceiver.                                 *)

\* The checks, up to the cage and the index of the transceiver in it.
Check(c, t, op) ==
  /\ Begins(c, Handling({"start"}) \cup About(t))
  /\ root # 0
  /\ PluggedIn[t] = (op = "out")
  /\ op = "out" => Cage(t) > 0

CheckOut(c, t) ==
  /\ Check(c, t, "out")
  /\ Becomes(c, "out", t, root)
  /\ UNCHANGED <<uuid, root, trees, PluggedIn, olt, pon, logging, over>>

CheckIn(c, t) ==
  /\ Check(c, t, "in")
  /\ Becomes(c, "in", t, root)
  /\ UNCHANGED <<uuid, root, trees, PluggedIn, olt, pon, logging, over>>

\* PlugoutTransceiverComponent: the component at the index is removed; there may
\* be none left.
RemoveComponent(c) ==
  /\ ~over
  /\ call[c].op = "out"
  /\ LET t == call[c].t IN
     IF trees[call[c].tree][t] = 0
     THEN over' = TRUE /\ UNCHANGED <<trees, PluggedIn, call>>
     ELSE /\ trees' = [trees EXCEPT ![call[c].tree][t] = @ - 1]
          /\ PluggedIn' = [PluggedIn EXCEPT ![t] = FALSE]
          /\ Becomes(c, "dark", t, 0)
          /\ UNCHANGED over
  /\ UNCHANGED <<uuid, root, olt, pon, logging, overtaken>>

\* PluginTransceiverComponent.
AddComponent(c) ==
  /\ ~over
  /\ call[c].op = "in"
  /\ LET t == call[c].t IN
     /\ trees' = [trees EXCEPT ![call[c].tree][t] = @ + 1]
     /\ PluggedIn' = [PluggedIn EXCEPT ![t] = TRUE]
     /\ Becomes(c, "lit", t, 0)
  /\ UNCHANGED <<uuid, root, olt, pon, logging, over, overtaken>>

\* A PON that is enabled loses its signal, if the OLT is enabled, and is disabled.
Darken(c) ==
  /\ ~over
  /\ call[c].op = "dark"
  /\ LET t == call[c].t IN
     pon' = IF olt /\ pon[t].enabled THEN [pon EXCEPT ![t] = [enabled |-> FALSE, los |-> TRUE]] ELSE pon
  /\ Returns(c)
  /\ UNCHANGED <<uuid, root, trees, PluggedIn, olt, logging, over, overtaken>>

\* The PON regains its signal, whatever its state, if the OLT is enabled.
Light(c) ==
  /\ ~over
  /\ call[c].op = "lit"
  /\ LET t == call[c].t IN
     pon' = IF olt THEN [pon EXCEPT ![t] = [enabled |-> TRUE, los |-> FALSE]] ELSE pon
  /\ Returns(c)
  /\ UNCHANGED <<uuid, root, trees, PluggedIn, olt, logging, over, overtaken>>
----------------------------------------------------------------------------
(* The OLT: what enables and disables it and its PONs.                       *)

EnableOlt ==
  /\ ~over /\ ~olt
  /\ olt' = TRUE
  /\ pon' = [t \in Transceivers |-> [pon[t] EXCEPT !.enabled = TRUE]]
  /\ UNCHANGED <<uuid, root, trees, PluggedIn, logging, call, over, overtaken>>

DisableOlt ==
  /\ Overtakes("disable", TRUE)
  /\ ~over /\ olt
  /\ olt' = FALSE
  /\ pon' = [t \in Transceivers |-> [pon[t] EXCEPT !.enabled = FALSE]]
  /\ UNCHANGED <<uuid, root, trees, PluggedIn, logging, call, over>>

EnablePonIf(t) ==
  /\ ~over /\ olt /\ ~pon[t].enabled
  /\ pon' = [pon EXCEPT ![t].enabled = TRUE]
  /\ UNCHANGED <<uuid, root, trees, PluggedIn, olt, logging, call, over, overtaken>>

DisablePonIf(t) ==
  /\ ~over /\ olt /\ pon[t].enabled
  /\ pon' = [pon EXCEPT ![t].enabled = FALSE]
  /\ UNCHANGED <<uuid, root, trees, PluggedIn, olt, logging, call, over, overtaken>>
----------------------------------------------------------------------------
Next ==
  \/ \E c \in Callers :
       \/ StartManagingDevice(c) \/ SetRoot(c) \/ StopManagingDevice(c)
       \/ GetPhysicalInventory(c) \/ SetLoggingEndpoint(c)
       \/ UpdateStartupConfiguration(c) \/ GetStartupConfigurationInfo(c)
       \/ \E t \in Transceivers : GetMetric(c, Component("TRANSCEIVER", t))
       \/ \E t \in Transceivers : CheckOut(c, t) \/ CheckIn(c, t)
       \/ RemoveComponent(c) \/ AddComponent(c) \/ Darken(c) \/ Light(c)
  \/ EnableOlt \/ DisableOlt
  \/ \E t \in Transceivers : EnablePonIf(t) \/ DisablePonIf(t)

Spec == Init /\ [][Next]_vars
----------------------------------------------------------------------------
\* The state has its types: a cage never holds two transceivers, unless two calls
\* have been in each other's way (the comment on DmiTransceiver.PluggedIn).
TypeOK ==
  /\ uuid \in BOOLEAN /\ logging \in BOOLEAN /\ olt \in BOOLEAN /\ over \in BOOLEAN
  /\ root \in 0..Len(trees) /\ Len(trees) <= MaxTrees
  /\ \A n \in DOMAIN trees : trees[n] \in [Transceivers -> IF "race" \in overtaken THEN Nat ELSE 0..1]
  /\ PluggedIn \in [Transceivers -> BOOLEAN]
  /\ pon \in [Transceivers -> [enabled : BOOLEAN, los : BOOLEAN]]
  /\ \A c \in Callers : call[c].op \in {"none", "start", "out", "in", "dark", "lit"}
  /\ overtaken \subseteq {"race", "disable", "nil", "gone"}

\* The inventory of a managed device and the list of the transceivers agree: the
\* transceiver and its port are found, one by one or by class, exactly when GetTransceivers
\* says that it is plugged in, however often management was started and stopped in
\* between, and while calls for other transceivers are under way; while the OLT stays
\* enabled the LOS alarm of a PON is raised only as long as its transceiver is out, also
\* when the PON is enabled and disabled in other ways meanwhile; and no handler panics
\* unless two calls were in each other's way, or named what is not managed or not there.
InventoryExact ==
  /\ TypeOK
  /\ GetManagedDevices # {} /\ "race" \notin overtaken =>
       LET still == {t \in Transceivers : About(t) = {}} IN
       /\ \A t \in still, class \in {"TRANSCEIVER", "PORT"} :
            GetHWComponentInfo(Component(class, t)) = "OK" <=> t \in GetTransceivers
       /\ {x.id : x \in findComponentsOfType("TRANSCEIVER")} \cap still = GetTransceivers \cap still
       /\ Cardinality(findComponentsOfType("FAN")) = 2
  /\ overtaken \cap {"race", "disable"} = {} =>
       \A t \in Transceivers : (About(t) = {} /\ pon[t].los) => ~PluggedIn[t]
  /\ over => overtaken \cap {"race", "nil", "gone"} # {}
============================================================================
