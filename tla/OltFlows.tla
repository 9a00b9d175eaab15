------------------------------- MODULE OltFlows -------------------------------
(***************************************************************************)
(* The flows of the OLT and the gem ports and alloc ids they refer to, on  *)
(* one PON port (devices/olt.go: FlowAdd, FlowRemove, validateFlow, ...).  *)
(*                                                                         *)
(* The nested maps GemPortIDs and AllocIDs [onu][port][resource][flow] are *)
(* relations here: the code deletes a resource with its last flow, so that *)
(* a key with an empty map below it never remains.  `known' are the ONUs   *)
(* that have a map at all.                                                 *)
(*                                                                         *)
(* FlowAdd takes the locks of the two tables again and again: to validate  *)
(* the flow, to store each of its gem ports and to store its alloc id.     *)
(* Between two of them other requests run, and each is a step here.        *)
(***************************************************************************)
EXTENDS Naturals, FiniteSets

CONSTANTS
    Onu,          \* ids of the ONUs on the PON port
    FlowId,       \* ids of the flows
    Catalog,      \* what every flow carries: kind, onu, port, gems and alloc
    Handler,      \* goroutines of the gRPC server
    NoFlow,       \* a handler without a request
    enablePerf,   \* Olt.enablePerf: flows are not stored
    MaxDup        \* bound on the copies of a flow in Onu.Flows

\* What the code relies on: a flow of an ONU names one that there is.
CatalogAssumption ==
    /\ MaxDup \in Nat
    /\ \A f \in FlowId :
        /\ Catalog[f].kind \in {"onu", "olt", "multicast"}
        /\ Catalog[f].kind = "onu" <=> Catalog[f].onu \in Onu

VARIABLES
    Flows,       \* OltDevice.Flows
    onuFlows,    \* how often each flow is in the Flows of its ONU
    GemPortIDs,  \* {<<onu, port, gem, flow>>}
    AllocIDs,    \* {<<onu, port, alloc, flow>>}
    known,       \* ONUs with a map in GemPortIDs and AllocIDs
    hasId,       \* ONUs that were given an ONU id
    ponMaps,     \* the maps of the PON port exist (InitOlt)
    active,      \* ONUs that are neither disabled nor pon_disabled
    phase,       \* of the gRPC server: up, draining (reboot), down
    req,         \* what every handler is doing
    accepted,    \* flows VOLTHA was told are installed
    wiped,       \* accepted flows whose references a reset has dropped
    panicked,    \* the process wrote to a nil map
    overlapped   \* what has overlapped so far: "claims" of two ONUs to one
                 \* resource, or a request and a "reboot"

vars == <<Flows, onuFlows, GemPortIDs, AllocIDs, known, hasId, ponMaps, active,
          phase, req, accepted, wiped, panicked, overlapped>>

tables == <<GemPortIDs, AllocIDs>>

Idle == [at |-> "idle", flow |-> NoFlow, gems |-> {}]

GemRefs(f) ==
    {<<Catalog[f].onu, Catalog[f].port, g, f>> : g \in Catalog[f].gems}
AllocRefs(f) == {<<Catalog[f].onu, Catalog[f].port, Catalog[f].alloc, f>>}

\* Flows of AccessIntfId -1 and multicast flows are only stored
OnuFlow(f) == Catalog[f].kind = "onu"

Gems == UNION {Catalog[f].gems : f \in FlowId}
Ports == {Catalog[f].port : f \in FlowId}
Allocs == {Catalog[f].alloc : f \in FlowId}

\* The types: references are those of flows of the catalogue, and a request is at
\* one of the lock acquisitions of FlowAdd and FlowRemove.
TypeOK ==
    /\ Flows \subseteq FlowId
    /\ onuFlows \in [FlowId -> 0..MaxDup]
    /\ GemPortIDs \subseteq Onu \X Ports \X Gems \X FlowId
    /\ AllocIDs \subseteq Onu \X Ports \X Allocs \X FlowId
    /\ known \subseteq Onu
    /\ hasId \subseteq Onu
    /\ ponMaps \in BOOLEAN
    /\ active \subseteq Onu
    /\ phase \in {"up", "draining", "down"}
    /\ req \in [Handler -> [at : {"idle", "validate", "gem", "alloc", "free"},
                            flow : FlowId \cup {NoFlow}, gems : SUBSET Gems]]
    /\ accepted \subseteq FlowId
    /\ wiped \subseteq FlowId
    /\ panicked \in BOOLEAN
    /\ overlapped \subseteq {"claims", "reboot"}

Init ==
    /\ Flows = {}
    /\ onuFlows = [f \in FlowId |-> 0]
    /\ GemPortIDs = {}
    /\ AllocIDs = {}
    /\ known = {}
    /\ hasId = {}
    /\ ponMaps = TRUE
    /\ active = {}
    /\ phase = "up"
    /\ req = [h \in Handler |-> Idle]
    /\ accepted = {}
    /\ wiped = {}
    /\ panicked = FALSE
    /\ overlapped = {}

AllIdle == \A h \in Handler : req[h] = Idle

\* VOLTHA reaches the OLT, in the first seconds of a reboot as well
Serving == ~panicked /\ phase \in {"up", "draining"}

\* VOLTHA sends the requests for one ONU one after the other
Free(o) == \A h \in Handler : req[h] # Idle => Catalog[req[h].flow].onu # o

\* some request in flight is about a gem port or the alloc id of the flow
Contended(f) ==
    \E h \in Handler :
        LET c == Catalog[req[h].flow] IN
        /\ req[h].at \in {"validate", "gem", "alloc"}
        /\ c.alloc = Catalog[f].alloc \/ c.gems \cap Catalog[f].gems # {}

\* history: what a request overlaps with when it starts
Overlaps(claims, reboot) ==
    overlapped' = overlapped \cup (IF claims THEN {"claims"} ELSE {})
                             \cup (IF reboot THEN {"reboot"} ELSE {})

-----------------------------------------------------------------------------
(***************************************************************************)
(* FlowAdd.                                                                *)
(***************************************************************************)

\* stores the flow, finds the ONU by its id and appends to its flows unless the ONU is
\* disabled
FlowAdd(h, f) ==
    /\ Serving
    /\ OnuFlow(f)
    /\ req[h] = Idle /\ Free(Catalog[f].onu)
    /\ f \notin accepted
    /\ onuFlows[f] < MaxDup
    /\ Flows' = IF enablePerf THEN Flows ELSE Flows \cup {f}
    /\ IF Catalog[f].onu \in hasId \cap active
       THEN /\ onuFlows' = IF enablePerf THEN onuFlows
                           ELSE [onuFlows EXCEPT ![f] = @ + 1]
            /\ req' = [req EXCEPT ![h] = [at |-> "validate", flow |-> f,
                                          gems |-> Catalog[f].gems]]
       ELSE UNCHANGED <<onuFlows, req>>
    /\ Overlaps(Contended(f), phase = "draining")
    /\ UNCHANGED <<tables, known, hasId, ponMaps, active, phase, accepted, wiped,
                   panicked>>

FlowAddOlt(f) ==
    /\ Serving
    /\ ~OnuFlow(f)
    /\ f \notin accepted
    /\ Flows' = IF enablePerf THEN Flows ELSE Flows \cup {f}
    /\ accepted' = accepted \cup {f}
    /\ UNCHANGED <<onuFlows, tables, known, hasId, ponMaps, active, phase, req,
                   wiped, panicked, overlapped>>

\* Mutant: the tables are not looked at.
NeverTaken(f) == FALSE

\* some other ONU has a flow that uses one of the resources
Taken(f) ==
    \/ \E r \in GemPortIDs : r[1] # Catalog[f].onu /\ r[3] \in Catalog[f].gems
    \/ \E r \in AllocIDs : r[1] # Catalog[f].onu /\ r[3] = Catalog[f].alloc

\* validateFlow holds both locks
ValidateFlow(h) ==
    /\ ~panicked
    /\ req[h].at = "validate"
    /\ req' = [req EXCEPT ![h] = IF Taken(@.flow) THEN Idle
                                 ELSE [@ EXCEPT !.at = "gem"]]
    /\ UNCHANGED <<Flows, onuFlows, tables, known, hasId, ponMaps, active, phase,
                   accepted, wiped, panicked, overlapped>>

\* storeGemPortIdByFlow: one call of storeGemPortId per gem port, in the order
\* of a Go map
StoreGemPortId(h, g) ==
    /\ ~panicked
    /\ req[h].at = "gem" /\ g \in req[h].gems
    /\ LET c == Catalog[req[h].flow]
           rest == req[h].gems \ {g}
       IN IF c.onu \in known
          THEN /\ GemPortIDs' = GemPortIDs \cup {<<c.onu, c.port, g, req[h].flow>>}
               /\ req' = [req EXCEPT ![h] =
                            [@ EXCEPT !.at = IF rest = {} THEN "alloc" ELSE "gem",
                                      !.gems = rest]]
          ELSE req' = [req EXCEPT ![h] = Idle] /\ UNCHANGED GemPortIDs
    /\ UNCHANGED <<Flows, onuFlows, AllocIDs, known, hasId, ponMaps, active, phase,
                   accepted, wiped, panicked, overlapped>>

\* storeAllocId logs that the ONU has no map and writes to it all the same
StoreAllocId(h) ==
    /\ ~panicked
    /\ req[h].at = "alloc"
    /\ LET f == req[h].flow IN
       IF Catalog[f].onu \in known
       THEN /\ AllocIDs' = AllocIDs \cup AllocRefs(f)
            /\ accepted' = accepted \cup {f}
            /\ wiped' = wiped \ {f}
            /\ req' = [req EXCEPT ![h] = Idle]
            /\ UNCHANGED panicked
       ELSE panicked' = TRUE /\ UNCHANGED <<AllocIDs, accepted, wiped, req>>
    /\ UNCHANGED <<Flows, onuFlows, GemPortIDs, known, hasId, ponMaps, active, phase,
                   overlapped>>

-----------------------------------------------------------------------------
(***************************************************************************)
(* FlowRemove, and the requests that reset the tables.                     *)
(***************************************************************************)

\* Mutant: the reference of the flow is not deleted.
KeepFlow(refs, f) == refs

WithoutFlow(refs, f) == {r \in refs : r[4] # f}

\* freeGemPortId comes first, whether or not the flow is known
FlowRemove(h, f) ==
    /\ Serving
    /\ req[h] = Idle /\ Free(Catalog[f].onu)
    /\ f \in accepted /\ OnuFlow(f)
    /\ GemPortIDs' = WithoutFlow(GemPortIDs, f)
    /\ accepted' = accepted \ {f}
    /\ wiped' = wiped \ {f}
    /\ req' = [req EXCEPT ![h] = [at |-> "free", flow |-> f, gems |-> {}]]
    /\ Overlaps(FALSE, phase = "draining")
    /\ UNCHANGED <<Flows, onuFlows, AllocIDs, known, hasId, ponMaps, active,
                   phase, panicked>>

WithoutAlloc(f) == WithoutFlow(AllocIDs, f)

DeleteFlow(f) == [onuFlows EXCEPT ![f] = IF @ = 0 THEN 0 ELSE @ - 1]

\* freeAllocId, Onu.DeleteFlow and Flows.Delete
FreeAllocId(h) ==
    /\ ~panicked
    /\ req[h].at = "free"
    /\ LET f == req[h].flow IN
       /\ AllocIDs' = WithoutAlloc(f)
       /\ IF ~enablePerf /\ f \in Flows
          THEN /\ onuFlows' = DeleteFlow(f)
               /\ Flows' = Flows \ {f}
          ELSE UNCHANGED <<onuFlows, Flows>>
    /\ req' = [req EXCEPT ![h] = Idle]
    /\ UNCHANGED <<GemPortIDs, known, hasId, ponMaps, active, phase, accepted,
                   wiped, panicked, overlapped>>

\* of a multicast flow, the ONU it names may not be found and the flow stays
FlowRemoveOlt(f) ==
    /\ Serving
    /\ ~OnuFlow(f) /\ f \in accepted
    /\ Flows' \in {Flows \ {f}} \cup
                  (IF Catalog[f].kind = "multicast" THEN {Flows} ELSE {})
    /\ accepted' = accepted \ {f}
    /\ UNCHANGED <<onuFlows, tables, known, hasId, ponMaps, active, phase, req, wiped,
                   panicked, overlapped>>

OfOnu(refs, o) == {r \in refs : r[1] = o}

\* a new map for the ONU in both tables; the ONU is then enabled unless it
\* is in a state with no such transition
ActivateOnu(o) ==
    /\ Serving /\ Free(o)
    /\ IF ponMaps
       THEN /\ known' = known \cup {o}
            /\ GemPortIDs' = GemPortIDs \ OfOnu(GemPortIDs, o)
            /\ AllocIDs' = AllocIDs \ OfOnu(AllocIDs, o)
            /\ wiped' = wiped \cup {f \in accepted : Catalog[f].onu = o}
            /\ active' \in {active, active \cup {o}}
            /\ hasId' = hasId \cup {o}
            /\ UNCHANGED panicked
       ELSE panicked' = TRUE /\ UNCHANGED <<known, hasId, tables, wiped, active>>
    /\ Overlaps(FALSE, phase = "draining")
    /\ UNCHANGED <<Flows, onuFlows, ponMaps, phase, req, accepted>>

\* cleanupOnuState empties Onu.Flows; the OLT's tables keep the references
DisableOnu(o) ==
    /\ ~panicked
    /\ o \in active
    /\ active' = active \ {o}
    /\ onuFlows' = [f \in FlowId |-> IF Catalog[f].onu = o THEN 0
                                     ELSE onuFlows[f]]
    /\ UNCHANGED <<Flows, tables, known, hasId, ponMaps, phase, req, accepted, wiped,
                   panicked, overlapped>>

\* a power cycle, or the discovery after a reboot: the ONU leaves disabled
PowerOnOnu(o) ==
    /\ ~panicked
    /\ o \notin active
    /\ phase = "up"
    /\ active' = active \cup {o}
    /\ UNCHANGED <<Flows, onuFlows, tables, known, hasId, ponMaps, phase, req,
                   accepted, wiped, panicked, overlapped>>

ClearAllResources ==
    /\ GemPortIDs' = {} /\ AllocIDs' = {}
    /\ known' = {} /\ ponMaps' = FALSE

\* RestartOLT: clearAllResources on the delete event, every ONU disabled
RestartOLT ==
    /\ ~panicked /\ phase = "up"
    /\ phase' = "draining"
    /\ ClearAllResources
    /\ active' = {}
    /\ onuFlows' = [f \in FlowId |-> IF Catalog[f].onu \in active THEN 0
                                     ELSE onuFlows[f]]
    /\ wiped' = {f \in accepted : OnuFlow(f)}
    /\ Overlaps(FALSE, ~AllIdle)
    /\ UNCHANGED <<Flows, hasId, req, accepted, panicked>>

\* after five seconds the requests in flight have been answered
StopOltServer ==
    /\ ~panicked /\ phase = "draining"
    /\ AllIdle
    /\ phase' = "down"
    /\ UNCHANGED <<Flows, onuFlows, tables, known, hasId, ponMaps, active, req,
                   accepted, wiped, panicked, overlapped>>

InitOlt ==
    /\ ~panicked /\ phase = "down"
    /\ phase' = "up"
    /\ ponMaps' = TRUE
    /\ UNCHANGED <<Flows, onuFlows, tables, known, hasId, active, req, accepted,
                   wiped, panicked, overlapped>>

Next ==
    \/ \E h \in Handler, f \in FlowId : FlowAdd(h, f) \/ FlowRemove(h, f)
    \/ \E f \in FlowId : FlowAddOlt(f) \/ FlowRemoveOlt(f)
    \/ \E h \in Handler : ValidateFlow(h) \/ StoreAllocId(h) \/ FreeAllocId(h)
    \/ \E h \in Handler, g \in Gems : StoreGemPortId(h, g)
    \/ \E o \in Onu : ActivateOnu(o) \/ DisableOnu(o) \/ PowerOnOnu(o)
    \/ RestartOLT \/ StopOltServer \/ InitOlt

Spec == Init /\ [][Next]_vars

-----------------------------------------------------------------------------
(***************************************************************************)
(* Properties.                                                             *)
(***************************************************************************)

\* validateFlow promises that no gem port and no alloc id is used by the flows
\* of two ONUs of the PON port.  It keeps that promise, across removals,
\* activations and reboots, as long as two requests that claim one resource
\* have never been in flight together.
ResourcesExclusive ==
    /\ TypeOK
    /\ "claims" \notin overlapped =>
        \A refs \in {GemPortIDs, AllocIDs} :
            \A r, s \in refs : r[3] = s[3] => r[1] = s[1]

Installed == {f \in accepted \ wiped : OnuFlow(f)}

\* Whenever no request is in flight the tables hold the references of exactly
\* the flows VOLTHA believes to be installed, all of them and nothing else,
\* but for the flows whose ONU was activated again or whose OLT rebooted since:
\* rejected flows leave no reference and removed flows take all of theirs.
\* Nor does a request write to a map that is nil: neither clearAllResources nor
\* an ONU that was never activated brings the simulator down, unless a request
\* overlapped with a reboot, which does not wait for those in flight.
ReferencesExact ==
    /\ "reboot" \notin overlapped => ~panicked
    /\ AllIdle /\ ~panicked =>
        /\ GemPortIDs = UNION {GemRefs(f) : f \in Installed}
        /\ AllocIDs = UNION {AllocRefs(f) : f \in Installed}
        /\ ~enablePerf => accepted \subseteq Flows
==============================================================================
