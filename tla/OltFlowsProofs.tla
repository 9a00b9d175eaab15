---------------------------- MODULE OltFlowsProofs ----------------------------
(***************************************************************************)
(* Proofs about OltFlows, for any number of ONUs, flows and handlers.      *)
(***************************************************************************)
EXTENDS OltFlows, TLAPS

\* FlowAdd has found the ONU; it has validated the flow.
Claiming(h) == req[h].at \in {"validate", "gem", "alloc"}
Storing(h) == req[h].at \in {"gem", "alloc"}

\* A request in flight is about a flow of an ONU that is not installed, no two are
\* about one ONU, and a flow that is being added is in the table of the flows.
RequestInv ==
    /\ \A h \in Handler : req[h].at = "idle" => req[h] = Idle
    /\ \A h \in Handler : req[h].at # "idle" =>
           /\ req[h].flow \in FlowId /\ OnuFlow(req[h].flow)
           /\ req[h].flow \notin accepted
           /\ Claiming(h) /\ ~enablePerf => req[h].flow \in Flows
           /\ Claiming(h) => req[h].gems \subseteq Catalog[req[h].flow].gems
           /\ req[h].at = "validate" => req[h].gems = Catalog[req[h].flow].gems
           /\ req[h].at = "alloc" => req[h].gems = {}
    /\ \A h, i \in Handler : h # i /\ req[h].at # "idle" /\ req[i].at # "idle" =>
           Catalog[req[h].flow].onu # Catalog[req[i].flow].onu
    /\ ~enablePerf => accepted \subseteq Flows

\* A map that is nil is met only in a reboot.
PhaseInv ==
    /\ phase = "up" => ponMaps
    /\ "reboot" \notin overlapped =>
           /\ ~panicked
           /\ \A h \in Handler : req[h].at = "alloc" => Catalog[req[h].flow].onu \in known

\* A reference is one of its flow, and the flow is installed or on its way in
\* (for an alloc id, on its way out).
ReferenceInv ==
    /\ \A r \in GemPortIDs :
           /\ r \in GemRefs(r[4]) /\ r[1] \in known
           /\ \/ r[4] \in Installed
              \/ \E h \in Handler : Storing(h) /\ req[h].flow = r[4]
    /\ \A r \in AllocIDs :
           /\ r \in AllocRefs(r[4]) /\ r[1] \in known
           /\ \/ r[4] \in Installed
              \/ \E h \in Handler : req[h].at = "free" /\ req[h].flow = r[4]

\* An installed flow has all its references, and one that is being added those
\* that were stored, unless a reboot has dropped them.
StoredInv ==
    /\ \A f \in Installed : GemRefs(f) \subseteq GemPortIDs /\ AllocRefs(f) \subseteq AllocIDs
    /\ \A h \in Handler : Storing(h) /\ Catalog[req[h].flow].onu \in known =>
           \A r \in GemRefs(req[h].flow) : r[3] \in req[h].gems \/ r \in GemPortIDs

\* Nobody else has, or claims, what a flow that was validated claims.
ClaimInv ==
    "claims" \notin overlapped =>
        /\ \A r, s \in GemPortIDs : r[3] = s[3] => r[1] = s[1]
        /\ \A r, s \in AllocIDs : r[3] = s[3] => r[1] = s[1]
        /\ \A h \in Handler : Storing(h) => ~Taken(req[h].flow)
        /\ \A h, i \in Handler : h # i /\ Claiming(h) /\ Claiming(i) =>
               /\ Catalog[req[h].flow].alloc # Catalog[req[i].flow].alloc
               /\ Catalog[req[h].flow].gems \cap Catalog[req[i].flow].gems = {}

\* A step that leaves the tables, the requests and the flows alone.
Quiet == UNCHANGED <<Flows, GemPortIDs, AllocIDs, known, req, accepted, wiped, panicked, overlapped>>

FlowInv == TypeOK /\ RequestInv /\ PhaseInv /\ ReferenceInv /\ StoredInv /\ ClaimInv

-----------------------------------------------------------------------------
(***************************************************************************)
(* What a flow claims.                                                     *)
(***************************************************************************)

LEMMA IdleAt == Idle.at = "idle"
BY Zenon DEF Idle

\* The reference that StoreGemPortId stores.
GemRef(f, g) == <<Catalog[f].onu, Catalog[f].port, g, f>>

LEMMA GemStored ==
    ASSUME TypeOK, NEW h \in Handler, NEW g \in Gems, StoreGemPortId(h, g)
    PROVE  /\ req[h].at = "gem" /\ g \in req[h].gems
           /\ UNCHANGED <<Flows, AllocIDs, known, ponMaps, phase, accepted, wiped,
                          panicked, overlapped>>
           /\ \A i \in Handler : i # h => req'[i] = req[i]
           /\ \/ req'[h] = Idle /\ Catalog[req[h].flow].onu \notin known
                 /\ UNCHANGED GemPortIDs
              \/ /\ req'[h].at \in {"gem", "alloc"} /\ req'[h].flow = req[h].flow
                 /\ req'[h].gems = req[h].gems \ {g}
                 /\ req'[h].at = "alloc" => req'[h].gems = {}
                 /\ Catalog[req[h].flow].onu \in known
                 /\ GemPortIDs' = GemPortIDs \cup {GemRef(req[h].flow, g)}
<1> DEFINE f == req[h].flow
           rest == req[h].gems \ {g}
           next == [req[h] EXCEPT !.at = IF rest = {} THEN "alloc" ELSE "gem",
                                  !.gems = rest]
<1>1. /\ req[h].at = "gem" /\ g \in req[h].gems
      /\ UNCHANGED <<Flows, AllocIDs, known, ponMaps, phase, accepted, wiped,
                     panicked, overlapped>>
  BY Zenon DEF StoreGemPortId
<1>2. CASE Catalog[f].onu \in known
  <2>1. GemPortIDs' = GemPortIDs \cup {GemRef(f, g)} /\ req' = [req EXCEPT ![h] = next]
    BY <1>2, Zenon DEF StoreGemPortId, GemRef
  <2>2. req'[h] = next /\ \A i \in Handler : i # h => req'[i] = req[i]
    BY <2>1, Zenon DEF TypeOK
  <2>3. /\ next.at = IF rest = {} THEN "alloc" ELSE "gem"
        /\ next.gems = rest /\ next.flow = f
    BY Zenon DEF TypeOK
  <2> QED
    BY <1>1, <1>2, <2>1, <2>2, <2>3, Zenon
<1>3. CASE Catalog[f].onu \notin known
  <2>1. GemPortIDs' = GemPortIDs /\ req' = [req EXCEPT ![h] = Idle]
    BY <1>3, Zenon DEF StoreGemPortId
  <2> QED
    BY <1>1, <1>3, <2>1, Zenon DEF TypeOK
<1> QED
  BY <1>2, <1>3, Zenon

\* The steps of the power switch, the server and the environment are quiet.
LEMMA QuietSteps ==
    ASSUME [Next]_vars
    PROVE  \/ \E h \in Handler, f \in FlowId : FlowAdd(h, f) \/ FlowRemove(h, f)
           \/ \E f \in FlowId : FlowAddOlt(f) \/ FlowRemoveOlt(f)
           \/ \E h \in Handler : ValidateFlow(h) \/ StoreAllocId(h) \/ FreeAllocId(h)
           \/ \E h \in Handler, g \in Gems : StoreGemPortId(h, g)
           \/ \E o \in Onu : ActivateOnu(o)
           \/ RestartOLT \/ Quiet
<1>1. ASSUME NEW o \in Onu, DisableOnu(o) \/ PowerOnOnu(o) PROVE Quiet
  BY <1>1, Zenon DEF DisableOnu, PowerOnOnu, Quiet, tables
<1>2. CASE StopOltServer \/ InitOlt \/ UNCHANGED vars
  BY <1>2, Zenon DEF StopOltServer, InitOlt, vars, Quiet, tables
<1> QED
  BY <1>1, <1>2, Zenon DEF Next

\* What is left to show when no request comes to claim another flow.
LEMMA ClaimsKept ==
    ASSUME ClaimInv, overlapped \subseteq overlapped',
           \A i \in Handler : Claiming(i)' => Claiming(i) /\ req'[i].flow = req[i].flow,
           "claims" \notin overlapped' =>
               /\ \A r, q \in GemPortIDs' : r[3] = q[3] => r[1] = q[1]
               /\ \A r, q \in AllocIDs' : r[3] = q[3] => r[1] = q[1]
               /\ \A i \in Handler : Storing(i)' => ~Taken(req[i].flow)'
    PROVE  ClaimInv'
<1>1. ASSUME "claims" \notin overlapped', NEW i \in Handler, NEW j \in Handler,
             i # j, Claiming(i)', Claiming(j)'
      PROVE  /\ Catalog[req'[i].flow].alloc # Catalog[req'[j].flow].alloc
             /\ Catalog[req'[i].flow].gems \cap Catalog[req'[j].flow].gems = {}
  <2>1. /\ Claiming(i) /\ req'[i].flow = req[i].flow
        /\ Claiming(j) /\ req'[j].flow = req[j].flow
    BY <1>1, Zenon
  <2>2. "claims" \notin overlapped
    BY <1>1, Zenon
  <2> QED
    BY <1>1, <2>1, <2>2 DEF ClaimInv
<1> QED
  BY <1>1, Zenon DEF ClaimInv

LEMMA ClaimsShrink ==
    ASSUME ClaimInv, GemPortIDs' \subseteq GemPortIDs, AllocIDs' \subseteq AllocIDs,
           overlapped \subseteq overlapped',
           \A i \in Handler : Claiming(i)' => req'[i] = req[i]
    PROVE  ClaimInv'
<1> SUFFICES ASSUME "claims" \notin overlapped' PROVE ClaimInv'
  BY Zenon DEF ClaimInv
<1>1. /\ \A r, q \in GemPortIDs' : r[3] = q[3] => r[1] = q[1]
      /\ \A r, q \in AllocIDs' : r[3] = q[3] => r[1] = q[1]
  BY Zenon DEF ClaimInv
<1>2. \A i \in Handler : Storing(i)' => ~Taken(req[i].flow)' /\ req'[i] = req[i]
  BY DEF ClaimInv, Storing, Claiming, Taken
<1>3. \A i \in Handler : Claiming(i)' => Claiming(i) /\ req'[i] = req[i]
  BY Zenon DEF Claiming
<1> QED
  BY <1>1, <1>2, <1>3 DEF ClaimInv

LEMMA ClaimStep ==
    ASSUME CatalogAssumption, TypeOK, RequestInv, ReferenceInv, ClaimInv, [Next]_vars
    PROVE  ClaimInv'
<1>1. ASSUME NEW h \in Handler, NEW f \in FlowId, FlowAdd(h, f) PROVE ClaimInv'
  <2>1. /\ UNCHANGED <<GemPortIDs, AllocIDs>> /\ req[h].at = "idle"
        /\ overlapped \subseteq overlapped'
        /\ Contended(f) => "claims" \in overlapped'
    BY <1>1, IdleAt, Zenon DEF FlowAdd, Overlaps, tables
  <2>2. \A i \in Handler : i # h => req'[i] = req[i]
    BY <1>1, Zenon DEF FlowAdd, TypeOK
  <2>3. req'[h] = req[h] \/ (req'[h].at = "validate" /\ req'[h].flow = f)
    BY <1>1 DEF FlowAdd, TypeOK
  <2>4. ASSUME NEW i \in Handler, Claiming(i), ~Contended(f)
        PROVE  /\ Catalog[req[i].flow].alloc # Catalog[f].alloc
               /\ Catalog[req[i].flow].gems \cap Catalog[f].gems = {}
    BY <2>4, Zenon DEF Contended, Claiming
  <2>5. \A i \in Handler : Storing(i)' => Storing(i) /\ req'[i] = req[i]
    BY <2>1, <2>2, <2>3, Zenon DEF Storing
  <2>6. \A i \in Handler : i # h => (Claiming(i)' <=> Claiming(i))
    BY <2>2, Zenon DEF Claiming
  <2>7. ASSUME "claims" \notin overlapped' 
        PROVE  \A i, k \in Handler : i # k /\ Claiming(i)' /\ Claiming(k)' =>
                 /\ Catalog[req'[i].flow].alloc # Catalog[req'[k].flow].alloc
                 /\ Catalog[req'[i].flow].gems \cap Catalog[req'[k].flow].gems = {}
    <3>1. ~Contended(f) /\ "claims" \notin overlapped
      BY <2>1, <2>7, Zenon
    <3>2. CASE req'[h] = req[h]
      BY <2>1, <2>2, <3>1, <3>2, SMTT(30) DEF ClaimInv, Claiming
    <3>3. CASE req'[h].flow = f
      <4>1. ASSUME NEW i \in Handler, NEW k \in Handler, i # k, i # h, k # h,
                   Claiming(i)', Claiming(k)'
            PROVE /\ Catalog[req'[i].flow].alloc # Catalog[req'[k].flow].alloc
                  /\ Catalog[req'[i].flow].gems \cap Catalog[req'[k].flow].gems = {}
        BY <2>2, <2>6, <3>1, <4>1 DEF ClaimInv
      <4> QED
        BY <2>2, <2>4, <2>6, <3>1, <3>3, <4>1
    <3> QED
      BY <2>3, <3>2, <3>3, Zenon
  <2> QED
    BY <2>1, <2>5, <2>7 DEF ClaimInv, Taken
<1>2. ASSUME NEW h \in Handler, NEW f \in FlowId, FlowRemove(h, f) PROVE ClaimInv'
  <2>1. /\ GemPortIDs' \subseteq GemPortIDs /\ AllocIDs' \subseteq AllocIDs
        /\ overlapped \subseteq overlapped'
    BY <1>2, Zenon DEF FlowRemove, WithoutFlow, Overlaps
  <2>2. \A i \in Handler : Claiming(i)' => req'[i] = req[i]
    BY <1>2, Zenon DEF FlowRemove, Claiming, TypeOK
  <2> QED
    BY <2>1, <2>2, ClaimsShrink, Zenon
<1>3. ASSUME NEW f \in FlowId, FlowAddOlt(f) PROVE ClaimInv'
  BY <1>3, ClaimsShrink, Zenon DEF FlowAddOlt, tables
<1>4. ASSUME NEW f \in FlowId, FlowRemoveOlt(f) PROVE ClaimInv'
  BY <1>4, ClaimsShrink, Zenon DEF FlowRemoveOlt, tables
<1>5. ASSUME NEW h \in Handler, ValidateFlow(h) PROVE ClaimInv'
  <2>1. /\ UNCHANGED <<GemPortIDs, AllocIDs, overlapped>>
        /\ req[h].at = "validate"
    BY <1>5, Zenon DEF ValidateFlow, tables
  <2>2. \A i \in Handler : i # h => req'[i] = req[i]
    BY <1>5, Zenon DEF ValidateFlow, TypeOK
  <2>3. \/ req'[h].at = "idle"
        \/ req'[h].at = "gem" /\ req'[h].flow = req[h].flow /\ ~Taken(req[h].flow)
    BY <1>5, IdleAt, Zenon DEF ValidateFlow, TypeOK
  <2>4. \A i \in Handler : Claiming(i)' => Claiming(i) /\ req'[i].flow = req[i].flow
    BY <2>1, <2>2, <2>3, Zenon DEF Claiming
  <2>5. ASSUME "claims" \notin overlapped, NEW i \in Handler, Storing(i)'
        PROVE  ~Taken(req[i].flow)'
    <3>1. ~Taken(req'[i].flow)
      BY <2>2, <2>3, <2>5, Zenon DEF ClaimInv, Storing
    <3> QED
      BY <2>1, <3>1, Zenon DEF Taken
  <2>6. "claims" \notin overlapped =>
        /\ \A r, q \in GemPortIDs' : r[3] = q[3] => r[1] = q[1]
        /\ \A r, q \in AllocIDs' : r[3] = q[3] => r[1] = q[1]
    BY <2>1, Zenon DEF ClaimInv
  <2> QED
    BY <2>1, <2>4, <2>5, <2>6, ClaimsKept, Zenon
<1>6. ASSUME NEW h \in Handler, NEW g \in Gems, StoreGemPortId(h, g) PROVE ClaimInv'
  <2> DEFINE f == req[h].flow
             new == GemRef(f, g)
  <2>1. /\ UNCHANGED <<AllocIDs, overlapped>> /\ req[h].at = "gem"
        /\ g \in req[h].gems
    BY <1>6, GemStored, Zenon
  <2>2. \A i \in Handler : i # h => req'[i] = req[i]
    BY <1>6, GemStored, Zenon
  <2>3. \/ req'[h].at = "idle"
        \/ req'[h].at \in {"gem", "alloc"} /\ req'[h].flow = f
    BY <1>6, GemStored, IdleAt, Zenon
  <2>4. GemPortIDs' = GemPortIDs \/ GemPortIDs' = GemPortIDs \cup {new}
    BY <1>6, GemStored, Zenon
  <2>5. CASE GemPortIDs' = GemPortIDs
    <3>1. \A i \in Handler : Claiming(i)' => Claiming(i) /\ req'[i].flow = req[i].flow
      BY <2>1, <2>2, <2>3, Zenon DEF Claiming
    <3>2. ASSUME "claims" \notin overlapped, NEW i \in Handler, Storing(i)'
          PROVE  ~Taken(req[i].flow)'
      <4>1. ~Taken(req'[i].flow)
        BY <2>1, <2>2, <2>3, <3>2, Zenon DEF ClaimInv, Storing
      <4> QED
        BY <2>1, <2>5, <4>1, Zenon DEF Taken
    <3>3. "claims" \notin overlapped =>
          /\ \A r, q \in GemPortIDs' : r[3] = q[3] => r[1] = q[1]
          /\ \A r, q \in AllocIDs' : r[3] = q[3] => r[1] = q[1]
      BY <2>1, <2>5, Zenon DEF ClaimInv
    <3> QED
      BY <2>1, <3>1, <3>2, <3>3, ClaimsKept, Zenon
  <2>6. CASE GemPortIDs' = GemPortIDs \cup {new}
    <3>1. new[1] = Catalog[f].onu /\ new[3] = g /\ g \in Catalog[f].gems
      BY <2>1, Zenon DEF RequestInv, Claiming, GemRef
    <3> HIDE DEF new
    <3>2. ASSUME "claims" \notin overlapped
          PROVE  /\ ~Taken(f)
                 /\ \A r \in GemPortIDs : r[3] = g => r[1] = Catalog[f].onu
      BY <2>1, <3>1, <3>2, Zenon DEF ClaimInv, Taken, Storing
    <3>3. ASSUME "claims" \notin overlapped
          PROVE  \A r, q \in GemPortIDs' : r[3] = q[3] => r[1] = q[1]
      BY <2>6, <3>1, <3>2, <3>3 DEF ClaimInv
    <3>4. ASSUME "claims" \notin overlapped, NEW i \in Handler, Storing(i)'
          PROVE  ~Taken(req[i].flow)' /\ req'[i].flow = req[i].flow
      <4>1. CASE i = h
        BY <2>1, <2>3, <2>6, <3>1, <3>2, <3>4, <4>1, Zenon DEF Taken, Storing
      <4>2. CASE i # h
        <5>1. req'[i] = req[i] /\ Storing(i)
          BY <2>2, <3>4, <4>2, Zenon DEF Storing
        <5>2. ~Taken(req[i].flow) /\ g \notin Catalog[req[i].flow].gems
          BY <2>1, <3>1, <3>4, <4>2, <5>1, Zenon DEF ClaimInv, Storing, Claiming
        <5> QED
          BY <2>1, <2>6, <3>1, <5>1, <5>2, Zenon DEF Taken
      <4> QED
        BY <4>1, <4>2, Zenon
    <3>5. \A i \in Handler : Claiming(i)' => Claiming(i) /\ req'[i].flow = req[i].flow
      BY <2>1, <2>2, <2>3, Zenon DEF Claiming
    <3>6. ASSUME "claims" \notin overlapped
          PROVE  \A r, q \in AllocIDs' : r[3] = q[3] => r[1] = q[1]
      BY <2>1, <3>6, Zenon DEF ClaimInv
    <3> QED
      BY <2>1, <3>3, <3>4, <3>5, <3>6, ClaimsKept, Zenon
  <2> QED
    BY <2>4, <2>5, <2>6, Zenon
<1>7. ASSUME NEW h \in Handler, StoreAllocId(h) PROVE ClaimInv'
  <2> DEFINE f == req[h].flow
             new == <<Catalog[f].onu, Catalog[f].port, Catalog[f].alloc, f>>
  <2>1. /\ UNCHANGED <<GemPortIDs, overlapped>> /\ req[h].at = "alloc"
    BY <1>7, Zenon DEF StoreAllocId
  <2>2. \A i \in Handler : req'[i] = req[i] \/ (i = h /\ req'[i].at = "idle")
    BY <1>7, IdleAt, Zenon DEF StoreAllocId, TypeOK
  <2>3. CASE AllocIDs' = AllocIDs
    <3>1. \A i \in Handler : Claiming(i)' => req'[i] = req[i]
      BY <2>2, Zenon DEF Claiming
    <3> QED
      BY <2>1, <2>3, <3>1, ClaimsShrink, Zenon
  <2>4. CASE AllocIDs' = AllocIDs \cup {new} /\ req'[h].at = "idle"
    <3>1. new[1] = Catalog[f].onu /\ new[3] = Catalog[f].alloc
      BY Zenon
    <3> HIDE DEF new
    <3>2. ASSUME "claims" \notin overlapped
          PROVE  \A r \in AllocIDs : r[3] = Catalog[f].alloc => r[1] = Catalog[f].onu
      BY <2>1, <3>2, Zenon DEF ClaimInv, Taken, Storing
    <3>3. ASSUME "claims" \notin overlapped
          PROVE  \A r, q \in AllocIDs' : r[3] = q[3] => r[1] = q[1]
      BY <2>4, <3>1, <3>2, <3>3 DEF ClaimInv
    <3>4. ASSUME "claims" \notin overlapped, NEW i \in Handler, Storing(i)'
          PROVE  ~Taken(req[i].flow)' /\ req'[i] = req[i]
      <4>1. req'[i] = req[i] /\ Storing(i) /\ i # h
        BY <2>2, <2>4, <3>4, Zenon DEF Storing
      <4>2. ~Taken(req[i].flow) /\ Catalog[f].alloc # Catalog[req[i].flow].alloc
        BY <2>1, <3>4, <4>1, Zenon DEF ClaimInv, Storing, Claiming
      <4>3. ASSUME NEW r \in AllocIDs'
            PROVE  r[3] = Catalog[req[i].flow].alloc => r[1] = Catalog[req[i].flow].onu
        BY <2>4, <3>1, <4>2, <4>3, Zenon DEF Taken
      <4>4. ASSUME NEW r \in GemPortIDs'
            PROVE  r[3] \in Catalog[req[i].flow].gems => r[1] = Catalog[req[i].flow].onu
        BY <2>1, <4>2, <4>4, Zenon DEF Taken
      <4> QED
        BY <4>1, <4>3, <4>4, Zenon DEF Taken
    <3>5. \A i \in Handler : Claiming(i)' => Claiming(i) /\ req'[i] = req[i]
      BY <2>2, Zenon DEF Claiming
    <3>6. ASSUME "claims" \notin overlapped
          PROVE  \A r, q \in GemPortIDs' : r[3] = q[3] => r[1] = q[1]
      BY <2>1, <3>6, Zenon DEF ClaimInv
    <3> QED
      BY <2>1, <3>3, <3>4, <3>5, <3>6, ClaimsKept, Zenon
  <2> QED
    BY <1>7, <2>3, <2>4, IdleAt, Zenon DEF StoreAllocId, AllocRefs, TypeOK
<1>8. ASSUME NEW h \in Handler, FreeAllocId(h) PROVE ClaimInv'
  <2>1. /\ GemPortIDs' \subseteq GemPortIDs /\ AllocIDs' \subseteq AllocIDs
        /\ overlapped \subseteq overlapped'
    BY <1>8, Zenon DEF FreeAllocId, WithoutAlloc, WithoutFlow
  <2>2. \A i \in Handler : Claiming(i)' => req'[i] = req[i]
    BY <1>8, Zenon DEF FreeAllocId, Claiming, TypeOK, Idle
  <2> QED
    BY <2>1, <2>2, ClaimsShrink, Zenon
<1>9. ASSUME NEW o \in Onu, ActivateOnu(o) PROVE ClaimInv'
  <2>1. /\ GemPortIDs' \subseteq GemPortIDs /\ AllocIDs' \subseteq AllocIDs
        /\ overlapped \subseteq overlapped'
    BY <1>9, Zenon DEF ActivateOnu, tables, Overlaps
  <2>2. \A i \in Handler : Claiming(i)' => req'[i] = req[i]
    BY <1>9, Zenon DEF ActivateOnu
  <2> QED
    BY <2>1, <2>2, ClaimsShrink, Zenon
<1>10. CASE RestartOLT
  BY <1>10, ClaimsShrink, Zenon DEF RestartOLT, ClearAllResources, Overlaps
<1>11. CASE Quiet
  BY <1>11, ClaimsShrink, Zenon DEF Quiet
<1> QED
  BY <1>1, <1>2, <1>3, <1>4, <1>5, <1>6, <1>7, <1>8, <1>9, <1>10, <1>11, QuietSteps, Zenon

-----------------------------------------------------------------------------
(***************************************************************************)
(* Types, requests and references.                                         *)
(***************************************************************************)

\* A request in flight is about a flow of an ONU that is not installed.
LEMMA InFlight ==
    ASSUME RequestInv
    PROVE  /\ \A i \in Handler : req[i].at # "idle" =>
                  req[i].flow \in FlowId /\ OnuFlow(req[i].flow) /\ req[i].flow \notin accepted
           /\ ~enablePerf => accepted \subseteq Flows
BY Zenon DEF RequestInv

LEMMA TypeStep ==
    ASSUME CatalogAssumption, TypeOK, RequestInv, [Next]_vars
    PROVE  TypeOK'
<1>1. ASSUME NEW h \in Handler, NEW f \in FlowId, FlowAdd(h, f) PROVE TypeOK'
  <2>1. req' \in [Handler -> [at : {"idle", "validate", "gem", "alloc", "free"},
                              flow : FlowId \cup {NoFlow}, gems : SUBSET Gems]]
    BY <1>1 DEF FlowAdd, TypeOK, Gems
  <2>2. onuFlows' \in [FlowId -> 0..MaxDup]
    BY <1>1 DEF FlowAdd, TypeOK, CatalogAssumption
  <2>3. overlapped' \subseteq {"claims", "reboot"}
    BY <1>1, Zenon DEF FlowAdd, Overlaps, TypeOK
  <2> QED
    BY <1>1, <2>1, <2>2, <2>3, Zenon DEF FlowAdd, tables, TypeOK
<1>2. ASSUME NEW h \in Handler, NEW f \in FlowId, FlowRemove(h, f) PROVE TypeOK'
  BY <1>2, Zenon DEF FlowRemove, Overlaps, TypeOK, WithoutFlow
<1>3. ASSUME NEW f \in FlowId, FlowAddOlt(f) PROVE TypeOK'
  BY <1>3, Zenon DEF FlowAddOlt, tables, TypeOK
<1>4. ASSUME NEW f \in FlowId, FlowRemoveOlt(f) PROVE TypeOK'
  BY <1>4, Zenon DEF FlowRemoveOlt, tables, TypeOK
<1>5. ASSUME NEW h \in Handler, ValidateFlow(h) PROVE TypeOK'
  BY <1>5 DEF ValidateFlow, tables, TypeOK, Idle
<1>6. ASSUME NEW h \in Handler, NEW g \in Gems, StoreGemPortId(h, g) PROVE TypeOK'
  <2>1. req[h].flow \in FlowId /\ Catalog[req[h].flow].onu \in Onu
    BY <1>6, InFlight, Zenon DEF StoreGemPortId, CatalogAssumption, OnuFlow
  <2>2. GemRef(req[h].flow, g) \in Onu \X Ports \X Gems \X FlowId
    BY <2>1, Zenon DEF GemRef, Ports
  <2>3. GemPortIDs' \subseteq Onu \X Ports \X Gems \X FlowId
    BY <1>6, <2>2, GemStored DEF TypeOK
  <2>4. req' \in [Handler -> [at : {"idle", "validate", "gem", "alloc", "free"},
                              flow : FlowId \cup {NoFlow}, gems : SUBSET Gems]]
    <3> DEFINE Requests == [at : {"idle", "validate", "gem", "alloc", "free"},
                            flow : FlowId \cup {NoFlow}, gems : SUBSET Gems]
               rest == req[h].gems \ {g}
               next == [req[h] EXCEPT !.at = IF rest = {} THEN "alloc" ELSE "gem",
                                      !.gems = rest]
    <3>1. \A at \in {"gem", "alloc"} : [req[h] EXCEPT !.at = at, !.gems = rest] \in Requests
      BY Zenon DEF TypeOK
    <3>2. next \in Requests /\ Idle \in Requests
      BY <3>1, Zenon DEF Idle
    <3>3. req' = [req EXCEPT ![h] = next] \/ req' = [req EXCEPT ![h] = Idle]
      BY <1>6, Zenon DEF StoreGemPortId
    <3>4. req \in [Handler -> Requests]
      BY Zenon DEF TypeOK
    <3> HIDE DEF Requests, next
    <3>5. req' \in [Handler -> Requests]
      BY <3>2, <3>3, <3>4, Zenon
    <3> QED
      BY <3>5, Zenon DEF Requests
  <2> QED
    BY <1>6, <2>3, <2>4, Zenon DEF StoreGemPortId, TypeOK
<1>7. ASSUME NEW h \in Handler, StoreAllocId(h) PROVE TypeOK'
  <2>1. req[h].flow \in FlowId /\ Catalog[req[h].flow].onu \in Onu
    BY <1>7, InFlight, Zenon DEF StoreAllocId, CatalogAssumption, OnuFlow
  <2>2. AllocRefs(req[h].flow) \subseteq Onu \X Ports \X Allocs \X FlowId
    BY <2>1 DEF AllocRefs, Ports, Allocs
  <2>3. Idle \in [at : {"idle", "validate", "gem", "alloc", "free"},
                  flow : FlowId \cup {NoFlow}, gems : SUBSET Gems]
    BY Zenon DEF Idle
  <2> QED
    BY <1>7, <2>1, <2>2, <2>3, Zenon DEF StoreAllocId, TypeOK
<1>8. ASSUME NEW h \in Handler, FreeAllocId(h) PROVE TypeOK'
  BY <1>8, SMTT(60) DEF FreeAllocId, CatalogAssumption, TypeOK, Idle, Gems, WithoutAlloc, WithoutFlow, DeleteFlow
<1>9. ASSUME NEW o \in Onu, ActivateOnu(o) PROVE TypeOK'
  <2>1. /\ GemPortIDs' \subseteq GemPortIDs /\ AllocIDs' \subseteq AllocIDs
        /\ known' \subseteq Onu /\ hasId' \subseteq Onu /\ active' \subseteq Onu
        /\ wiped' \subseteq FlowId
    BY <1>9, Zenon DEF ActivateOnu, tables, TypeOK
  <2>2. panicked' \in BOOLEAN
    BY <1>9, Zenon DEF ActivateOnu, TypeOK
  <2>3. overlapped' \subseteq {"claims", "reboot"}
    BY <1>9, Zenon DEF ActivateOnu, Overlaps, TypeOK
  <2> QED
    BY <1>9, <2>1, <2>2, <2>3, Zenon DEF ActivateOnu, TypeOK
<1>10. ASSUME NEW o \in Onu, DisableOnu(o) PROVE TypeOK'
  BY <1>10 DEF DisableOnu, tables, CatalogAssumption, TypeOK
<1>11. ASSUME NEW o \in Onu, PowerOnOnu(o) PROVE TypeOK'
  BY <1>11, Zenon DEF PowerOnOnu, tables, TypeOK
<1>12. CASE RestartOLT
  <2>1. onuFlows' \in [FlowId -> 0..MaxDup]
    BY <1>12 DEF RestartOLT, CatalogAssumption, TypeOK
  <2>2. overlapped' \subseteq {"claims", "reboot"}
    BY <1>12, Zenon DEF RestartOLT, Overlaps, TypeOK
  <2> QED
    BY <1>12, <2>1, <2>2, Zenon DEF RestartOLT, ClearAllResources, TypeOK
<1>13. CASE StopOltServer
  BY <1>13, Zenon DEF StopOltServer, tables, TypeOK
<1>14. CASE InitOlt
  BY <1>14, Zenon DEF InitOlt, tables, TypeOK
<1>15. CASE UNCHANGED vars
  BY <1>15, Zenon DEF vars, TypeOK
<1> QED
  BY <1>1, <1>2, <1>3, <1>4, <1>5, <1>6, <1>7, <1>8, <1>9, <1>10, <1>11, <1>12, <1>13, <1>14, <1>15, Zenon DEF Next

\* What is left to show when requests are only answered.
LEMMA RequestsKept ==
    ASSUME RequestInv, \A i \in Handler : req'[i] = req[i] \/ req'[i] = Idle,
           \A i \in Handler : req'[i].at # "idle" =>
               /\ req[i].flow \notin accepted'
               /\ req[i].flow \in Flows => req[i].flow \in Flows',
           ~enablePerf => accepted' \subseteq Flows'
    PROVE  RequestInv'
BY IdleAt DEF RequestInv, Claiming

LEMMA RequestStep ==
    ASSUME CatalogAssumption, TypeOK, RequestInv, [Next]_vars
    PROVE  RequestInv'
<1>1. ASSUME NEW h \in Handler, NEW f \in FlowId, FlowAdd(h, f) PROVE RequestInv'
  <2>1. /\ accepted' = accepted /\ Flows \subseteq Flows'
        /\ OnuFlow(f) /\ f \notin accepted /\ (~enablePerf => f \in Flows')
    BY <1>1, Zenon DEF FlowAdd
  <2>2. CASE req' = req
    BY <2>1, <2>2, InFlight, RequestsKept, Zenon
  <2>3. CASE req' = [req EXCEPT ![h] = [at |-> "validate", flow |-> f,
                                        gems |-> Catalog[f].gems]]
    <3>1. /\ req'[h] = [at |-> "validate", flow |-> f, gems |-> Catalog[f].gems]
          /\ \A i \in Handler : i # h => req'[i] = req[i]
      BY <2>3, Zenon DEF TypeOK
    <3>2. \A i \in Handler : req[i].at # "idle" => Catalog[req[i].flow].onu # Catalog[f].onu
      BY <1>1 DEF FlowAdd, Free, Idle
    <3> QED
      BY <2>1, <3>1, <3>2 DEF RequestInv, Claiming
  <2> QED
    BY <1>1, <2>2, <2>3, Zenon DEF FlowAdd
<1>2. ASSUME NEW h \in Handler, NEW f \in FlowId, FlowRemove(h, f) PROVE RequestInv'
  <2>1. accepted' = accepted \ {f} /\ Flows' = Flows /\ OnuFlow(f)
    BY <1>2, Zenon DEF FlowRemove
  <2>2. /\ req'[h] = [at |-> "free", flow |-> f, gems |-> {}]
        /\ \A i \in Handler : i # h => req'[i] = req[i]
    BY <1>2, Zenon DEF FlowRemove, TypeOK
  <2>3. \A i \in Handler : req[i].at # "idle" => Catalog[req[i].flow].onu # Catalog[f].onu
    BY <1>2 DEF FlowRemove, Free, Idle
  <2> QED
    BY <2>1, <2>2, <2>3 DEF RequestInv, Claiming
<1>3. ASSUME NEW f \in FlowId, FlowAddOlt(f) PROVE RequestInv'
  BY <1>3, InFlight, RequestsKept, Zenon DEF FlowAddOlt
<1>4. ASSUME NEW f \in FlowId, FlowRemoveOlt(f) PROVE RequestInv'
  BY <1>4, InFlight, RequestsKept, Zenon DEF FlowRemoveOlt
<1>5. ASSUME NEW h \in Handler, ValidateFlow(h) PROVE RequestInv'
  <2>1. accepted' = accepted /\ Flows' = Flows /\ req[h].at = "validate"
    BY <1>5, Zenon DEF ValidateFlow
  <2>2. \A i \in Handler : i # h => req'[i] = req[i]
    BY <1>5, Zenon DEF ValidateFlow, TypeOK
  <2>3. req'[h] \in {Idle, [req[h] EXCEPT !.at = "gem"]}
    BY <1>5, Zenon DEF ValidateFlow, TypeOK
  <2>4. \/ req'[h] = Idle
        \/ /\ req'[h].at = "gem" /\ req'[h].flow = req[h].flow
           /\ req'[h].gems = req[h].gems
    BY <2>3 DEF TypeOK
  <2> QED
    BY <2>1, <2>2, <2>4, IdleAt, SMTT(60) DEF RequestInv, Claiming
<1>6. ASSUME NEW h \in Handler, NEW g \in Gems, StoreGemPortId(h, g) PROVE RequestInv'
  BY <1>6, GemStored, IdleAt DEF RequestInv, Claiming
<1>7. ASSUME NEW h \in Handler, StoreAllocId(h) PROVE RequestInv'
  <2>1. Flows' = Flows /\ req[h].at = "alloc"
    BY <1>7, Zenon DEF StoreAllocId
  <2>2. CASE req' = req /\ accepted' = accepted
    BY <2>1, <2>2, InFlight, RequestsKept, Zenon
  <2>3. CASE req' = [req EXCEPT ![h] = Idle] /\ accepted' = accepted \cup {req[h].flow}
    <3>1. req'[h] = Idle /\ \A i \in Handler : i # h => req'[i] = req[i]
      BY <2>3, Zenon DEF TypeOK
    <3> QED
      BY <2>1, <2>3, <3>1, IdleAt DEF RequestInv, Claiming
  <2> QED
    BY <1>7, <2>2, <2>3, Zenon DEF StoreAllocId
<1>8. ASSUME NEW h \in Handler, FreeAllocId(h) PROVE RequestInv'
  <2>1. /\ accepted' = accepted /\ req[h].at = "free"
        /\ Flows' = Flows \/ Flows' = Flows \ {req[h].flow}
    BY <1>8, Zenon DEF FreeAllocId
  <2>2. req'[h] = Idle /\ \A i \in Handler : i # h => req'[i] = req[i]
    BY <1>8, Zenon DEF FreeAllocId, TypeOK
  <2> QED
    BY <2>1, <2>2, IdleAt DEF RequestInv, Claiming
<1>9. ASSUME NEW o \in Onu, ActivateOnu(o) PROVE RequestInv'
  BY <1>9, InFlight, RequestsKept, Zenon DEF ActivateOnu
<1>10. CASE RestartOLT
  BY <1>10, InFlight, RequestsKept, Zenon DEF RestartOLT
<1>11. CASE Quiet
  BY <1>11, InFlight, RequestsKept, Zenon DEF Quiet
<1> QED
  BY <1>1, <1>2, <1>3, <1>4, <1>5, <1>6, <1>7, <1>8, <1>9, <1>10, <1>11, QuietSteps, Zenon

LEMMA PhaseStep ==
    ASSUME CatalogAssumption, TypeOK, RequestInv, PhaseInv, [Next]_vars
    PROVE  PhaseInv'
<1>1. ASSUME NEW h \in Handler, NEW f \in FlowId, FlowAdd(h, f) PROVE PhaseInv'
  BY <1>1 DEF FlowAdd, Overlaps, TypeOK, PhaseInv
<1>2. ASSUME NEW h \in Handler, NEW f \in FlowId, FlowRemove(h, f) PROVE PhaseInv'
  BY <1>2 DEF FlowRemove, Overlaps, PhaseInv
<1>3. ASSUME NEW f \in FlowId, FlowAddOlt(f) PROVE PhaseInv'
  BY <1>3, Zenon DEF FlowAddOlt, PhaseInv
<1>4. ASSUME NEW f \in FlowId, FlowRemoveOlt(f) PROVE PhaseInv'
  BY <1>4, Zenon DEF FlowRemoveOlt, PhaseInv
<1>5. ASSUME NEW h \in Handler, ValidateFlow(h) PROVE PhaseInv'
  BY <1>5 DEF ValidateFlow, PhaseInv, Idle
<1>6. ASSUME NEW h \in Handler, NEW g \in Gems, StoreGemPortId(h, g) PROVE PhaseInv'
  BY <1>6, GemStored, IdleAt, Zenon DEF PhaseInv
<1>7. ASSUME NEW h \in Handler, StoreAllocId(h) PROVE PhaseInv'
  BY <1>7 DEF StoreAllocId, TypeOK, PhaseInv, Idle
<1>8. ASSUME NEW h \in Handler, FreeAllocId(h) PROVE PhaseInv'
  BY <1>8 DEF FreeAllocId, PhaseInv, Idle
<1>9. ASSUME NEW o \in Onu, ActivateOnu(o) PROVE PhaseInv'
  BY <1>9, Zenon DEF ActivateOnu, PhaseInv, Overlaps, Serving
<1>10. ASSUME NEW o \in Onu, DisableOnu(o) PROVE PhaseInv'
  BY <1>10, Zenon DEF DisableOnu, PhaseInv
<1>11. ASSUME NEW o \in Onu, PowerOnOnu(o) PROVE PhaseInv'
  BY <1>11, Zenon DEF PowerOnOnu, PhaseInv
<1>12. CASE RestartOLT
  BY <1>12 DEF RestartOLT, PhaseInv, Idle, Overlaps, AllIdle
<1>13. CASE StopOltServer
  BY <1>13, Zenon DEF StopOltServer, PhaseInv
<1>14. CASE InitOlt
  BY <1>14, Zenon DEF InitOlt, PhaseInv
<1>15. CASE UNCHANGED vars
  BY <1>15, Zenon DEF vars, PhaseInv
<1> QED
  BY <1>1, <1>2, <1>3, <1>4, <1>5, <1>6, <1>7, <1>8, <1>9, <1>10, <1>11, <1>12, <1>13, <1>14, <1>15, Zenon DEF Next

LEMMA ReferenceStep ==
    ASSUME CatalogAssumption, TypeOK, RequestInv, ReferenceInv, StoredInv, [Next]_vars
    PROVE  ReferenceInv'
<1>1. ASSUME NEW h \in Handler, NEW f \in FlowId, FlowAdd(h, f) PROVE ReferenceInv'
  <2>1. UNCHANGED <<GemPortIDs, AllocIDs, known, accepted, wiped>> /\ req[h].at = "idle"
    BY <1>1, IdleAt, Zenon DEF FlowAdd, tables
  <2>2. \A i \in Handler : i # h => req'[i] = req[i]
    BY <1>1, Zenon DEF FlowAdd, TypeOK
  <2> QED
    BY <2>1, <2>2 DEF ReferenceInv, Installed, Storing
<1>2. ASSUME NEW h \in Handler, NEW f \in FlowId, FlowRemove(h, f) PROVE ReferenceInv'
  BY <1>2 DEF FlowRemove, TypeOK, ReferenceInv, Installed, Storing, Idle, WithoutFlow
<1>3. ASSUME NEW f \in FlowId, FlowAddOlt(f) PROVE ReferenceInv'
  BY <1>3, Zenon DEF FlowAddOlt, ReferenceInv, Installed, Storing, tables
<1>4. ASSUME NEW f \in FlowId, FlowRemoveOlt(f) PROVE ReferenceInv'
  BY <1>4 DEF FlowRemoveOlt, ReferenceInv, Installed, Storing, tables
<1>5. ASSUME NEW h \in Handler, ValidateFlow(h) PROVE ReferenceInv'
  BY <1>5 DEF ValidateFlow, ReferenceInv, Installed, Storing, tables
<1>6. ASSUME NEW h \in Handler, NEW g \in Gems, StoreGemPortId(h, g) PROVE ReferenceInv'
  <2> DEFINE f == req[h].flow
  <2>1. /\ GemRef(f, g)[4] = f /\ GemRef(f, g)[1] = Catalog[f].onu
        /\ GemRef(f, g) \in GemRefs(f)
    BY <1>6, GemStored, ZenonT(60) DEF GemRef, GemRefs, RequestInv, Claiming
  <2>2. CASE req'[h] = Idle
    <3>1. \A r \in GemPortIDs : r[4] # f
      BY <1>6, <2>2, GemStored, IdleAt DEF ReferenceInv, GemRefs
    <3> QED
      BY <1>6, <2>2, <3>1, GemStored, IdleAt DEF ReferenceInv, Installed, Storing
  <2>3. CASE req'[h] # Idle
    <3>1. Storing(h)' /\ req'[h].flow = f
      BY <1>6, <2>3, GemStored, Zenon DEF Storing
    <3>2. \A i \in Handler : Storing(i) => Storing(i)' /\ req'[i].flow = req[i].flow
      BY <1>6, <3>1, GemStored, Zenon DEF Storing
    <3>3. \A i \in Handler : req[i].at = "free" => req'[i] = req[i]
      BY <1>6, GemStored, Zenon
    <3>4. Installed' = Installed
      BY <1>6, GemStored, Zenon DEF Installed
    <3> QED
      BY <1>6, <2>1, <2>3, <3>1, <3>2, <3>3, <3>4, GemStored DEF ReferenceInv
  <2> QED
    BY <2>2, <2>3, Zenon
<1>7. ASSUME NEW h \in Handler, StoreAllocId(h) PROVE ReferenceInv'
  <2> DEFINE f == req[h].flow
  <2>1. UNCHANGED <<GemPortIDs, known>> /\ req[h].at = "alloc"
    BY <1>7, Zenon DEF StoreAllocId
  <2>2. CASE UNCHANGED <<AllocIDs, accepted, wiped, req>>
    BY <2>1, <2>2, Zenon DEF ReferenceInv, Installed, Storing
  <2>3. CASE /\ Catalog[f].onu \in known /\ AllocIDs' = AllocIDs \cup AllocRefs(f)
             /\ accepted' = accepted \cup {f} /\ wiped' = wiped \ {f}
             /\ req' = [req EXCEPT ![h] = Idle]
    <3>1. Installed' = Installed \cup {f}
      BY <2>1, <2>3, Zenon DEF Installed, RequestInv
    <3>2. \A i \in Handler : i # h => req'[i] = req[i]
      BY <2>3, Zenon DEF TypeOK
    <3>3. \A r \in AllocRefs(f) : r[4] = f /\ r[1] = Catalog[f].onu
      BY DEF AllocRefs
    <3> QED
      BY <2>1, <2>3, <3>1, <3>2, <3>3 DEF ReferenceInv, Storing
  <2> QED
    BY <1>7, <2>2, <2>3, Zenon DEF StoreAllocId
<1>8. ASSUME NEW h \in Handler, FreeAllocId(h) PROVE ReferenceInv'
  BY <1>8 DEF FreeAllocId, ReferenceInv, Installed, Storing, WithoutAlloc, WithoutFlow
<1>9. ASSUME NEW o \in Onu, ActivateOnu(o) PROVE ReferenceInv'
  BY <1>9 DEF ActivateOnu, ReferenceInv, Installed, Storing, GemRefs, AllocRefs, tables, OfOnu
<1>10. CASE RestartOLT
  BY <1>10, Zenon DEF RestartOLT, ReferenceInv, ClearAllResources
<1>11. CASE Quiet
  BY <1>11, Zenon DEF Quiet, ReferenceInv, Installed, Storing
<1> QED
  BY <1>1, <1>2, <1>3, <1>4, <1>5, <1>6, <1>7, <1>8, <1>9, <1>10, <1>11, QuietSteps, Zenon

LEMMA StoredStep ==
    ASSUME CatalogAssumption, TypeOK, RequestInv, ReferenceInv, StoredInv, [Next]_vars
    PROVE  StoredInv'
<1>1. ASSUME NEW h \in Handler, NEW f \in FlowId, FlowAdd(h, f) PROVE StoredInv'
  <2>1. UNCHANGED <<GemPortIDs, AllocIDs, known, accepted, wiped>>
    BY <1>1, Zenon DEF FlowAdd, tables
  <2>2. \A i \in Handler : req'[i] = req[i] \/ req'[i].at = "validate"
    BY <1>1 DEF FlowAdd, TypeOK
  <2> QED
    BY <2>1, <2>2, Zenon DEF StoredInv, Installed, Storing
<1>2. ASSUME NEW h \in Handler, NEW f \in FlowId, FlowRemove(h, f) PROVE StoredInv'
  <2>1. /\ GemPortIDs' = WithoutFlow(GemPortIDs, f) /\ UNCHANGED <<AllocIDs, known>>
        /\ Installed' = Installed \ {f} /\ f \in accepted
    BY <1>2, Zenon DEF FlowRemove, Installed
  <2>2. \A i \in Handler : Storing(i)' => req'[i] = req[i] /\ Storing(i) /\ req[i].flow # f
    BY <1>2, InFlight, Zenon DEF FlowRemove, Storing, TypeOK
  <2>3. \A r \in GemPortIDs : r \in GemPortIDs' \/ r[4] = f
    BY <2>1, Zenon DEF WithoutFlow
  <2>4. \A e \in FlowId : \A r \in GemRefs(e) : r[4] = e
    BY DEF GemRefs
  <2>5. Installed \subseteq FlowId /\ \A i \in Handler : Storing(i) => req[i].flow \in FlowId
    BY InFlight, Zenon DEF TypeOK, Installed, Storing
  <2> QED
    BY <2>1, <2>2, <2>3, <2>4, <2>5 DEF StoredInv
<1>3. ASSUME NEW f \in FlowId, FlowAddOlt(f) PROVE StoredInv'
  BY <1>3, Zenon DEF FlowAddOlt, StoredInv, Installed, Storing, tables
<1>4. ASSUME NEW f \in FlowId, FlowRemoveOlt(f) PROVE StoredInv'
  BY <1>4, Zenon DEF FlowRemoveOlt, StoredInv, Installed, Storing, tables
<1>5. ASSUME NEW h \in Handler, ValidateFlow(h) PROVE StoredInv'
  <2>1. UNCHANGED <<GemPortIDs, AllocIDs, known, accepted, wiped>> /\ req[h].at = "validate"
    BY <1>5, Zenon DEF ValidateFlow, tables
  <2>2. \A i \in Handler : i # h => req'[i] = req[i]
    BY <1>5, Zenon DEF ValidateFlow, TypeOK
  <2>3. \/ req'[h].at = "idle"
        \/ req'[h].flow = req[h].flow /\ req'[h].gems = req[h].gems
    BY <1>5, Zenon DEF ValidateFlow, TypeOK, Idle
  <2>4. \A r \in GemRefs(req[h].flow) : r[3] \in req[h].gems
    BY <2>1 DEF RequestInv, GemRefs
  <2> QED
    BY <2>1, <2>2, <2>3, <2>4, Zenon DEF StoredInv, Installed, Storing
<1>6. ASSUME NEW h \in Handler, NEW g \in Gems, StoreGemPortId(h, g) PROVE StoredInv'
  <2> DEFINE f == req[h].flow
  <2>1. GemPortIDs \subseteq GemPortIDs' /\ AllocIDs' = AllocIDs /\ known' = known
    BY <1>6, GemStored, Zenon
  <2>2. Installed' = Installed
    BY <1>6, GemStored, Zenon DEF Installed
  <2>3. ASSUME NEW i \in Handler, Storing(i)', Catalog[req'[i].flow].onu \in known,
               NEW r \in GemRefs(req'[i].flow), r[3] \notin req'[i].gems
        PROVE  r \in GemPortIDs'
    <3>1. CASE i # h
      BY <1>6, <2>1, <2>3, <3>1, GemStored DEF StoredInv, Storing
    <3>2. CASE i = h
      <4>1. /\ req'[h].flow = f /\ req'[h].gems = req[h].gems \ {g}
            /\ GemPortIDs' = GemPortIDs \cup {GemRef(f, g)} /\ Storing(h)
        BY <1>6, <2>3, <3>2, GemStored, IdleAt, Zenon DEF Storing
      <4>2. r[3] = g => r = GemRef(f, g)
        BY <2>3, <3>2, <4>1 DEF GemRefs, GemRef
      <4>3. r[3] # g => r \in GemPortIDs
        BY <2>3, <3>2, <4>1, Zenon DEF StoredInv
      <4> QED
        BY <4>1, <4>2, <4>3, Zenon
    <3> QED
      BY <3>1, <3>2, Zenon
  <2> QED
    BY <2>1, <2>2, <2>3, Zenon DEF StoredInv
<1>7. ASSUME NEW h \in Handler, StoreAllocId(h) PROVE StoredInv'
  BY <1>7, SMTT(30) DEF StoreAllocId, TypeOK, RequestInv, StoredInv, Installed, Storing, Idle
<1>8. ASSUME NEW h \in Handler, FreeAllocId(h) PROVE StoredInv'
  BY <1>8, SMTT(30) DEF FreeAllocId, RequestInv, StoredInv, Installed, Storing, AllocRefs, Idle, WithoutAlloc, WithoutFlow
<1>9. ASSUME NEW o \in Onu, ActivateOnu(o) PROVE StoredInv'
  BY <1>9, SMTT(30) DEF ActivateOnu, StoredInv, Installed, Storing, GemRefs, AllocRefs, Idle, tables, OfOnu, Free
<1>10. CASE RestartOLT
  BY <1>10, Zenon DEF RestartOLT, StoredInv, Installed, ClearAllResources
<1>11. CASE Quiet
  BY <1>11, Zenon DEF Quiet, StoredInv, Installed, Storing
<1> QED
  BY <1>1, <1>2, <1>3, <1>4, <1>5, <1>6, <1>7, <1>8, <1>9, <1>10, <1>11, QuietSteps, Zenon

-----------------------------------------------------------------------------
(***************************************************************************)
(* The invariant, and what follows from it.                                *)
(***************************************************************************)

LEMMA FlowInit == CatalogAssumption /\ Init => FlowInv
<1> SUFFICES ASSUME CatalogAssumption, Init PROVE FlowInv
  BY Zenon
<1>1. TypeOK
  <2>1. onuFlows \in [FlowId -> 0..MaxDup]
    BY DEF Init, CatalogAssumption
  <2>2. req \in [Handler -> [at : {"idle", "validate", "gem", "alloc", "free"},
                              flow : FlowId \cup {NoFlow}, gems : SUBSET Gems]]
    BY Zenon DEF Init, Idle
  <2> QED
    BY <2>1, <2>2, Zenon DEF Init, TypeOK
<1>2. \A h \in Handler : req[h] = Idle
  BY Zenon DEF Init
<1>3. RequestInv /\ PhaseInv
  BY <1>2, IdleAt, Zenon DEF Init, RequestInv, PhaseInv
<1>4. ReferenceInv /\ StoredInv /\ ClaimInv
  BY <1>2, IdleAt, Zenon DEF Init, ReferenceInv, StoredInv, ClaimInv, Installed, Storing, Claiming
<1> QED
  BY <1>1, <1>3, <1>4, Zenon DEF FlowInv

LEMMA FlowStep == CatalogAssumption /\ FlowInv /\ [Next]_vars => FlowInv'
BY TypeStep, RequestStep, PhaseStep, ReferenceStep, StoredStep, ClaimStep, Zenon DEF FlowInv

LEMMA FlowInvariant == ASSUME CatalogAssumption PROVE Spec => []FlowInv
<1>1. Init => FlowInv
  BY FlowInit, Zenon
<1>2. FlowInv /\ [Next]_vars => FlowInv'
  BY FlowStep, Zenon
<1> QED
  BY <1>1, <1>2, PTL DEF Spec

\* No gem port and no alloc id is used for the flows of two ONUs, unless two
\* requests that claim one resource were in flight together (validateFlow), for
\* any number of ONUs, flows and handlers.
THEOREM ResourcesAreExclusive ==
    ASSUME CatalogAssumption PROVE Spec => []ResourcesExclusive
<1>1. FlowInv => ResourcesExclusive
  BY DEF FlowInv, ClaimInv, ResourcesExclusive
<1> QED
  BY <1>1, FlowInvariant, PTL

\* With no request in flight the tables are what the installed flows refer to, and
\* nothing is written to a nil map unless a request overlapped a reboot (FlowAdd,
\* FlowRemove, ActivateOnu), for any number of ONUs, flows and handlers.
THEOREM ReferencesAreExact ==
    ASSUME CatalogAssumption PROVE Spec => []ReferencesExact
<1>1. FlowInv => ReferencesExact
  <2> SUFFICES ASSUME FlowInv PROVE ReferencesExact
    BY Zenon
  <2>1. "reboot" \notin overlapped => ~panicked
    BY Zenon DEF FlowInv, PhaseInv
  <2>2. ASSUME AllIdle
        PROVE  /\ GemPortIDs = UNION {GemRefs(f) : f \in Installed}
               /\ AllocIDs = UNION {AllocRefs(f) : f \in Installed}
               /\ ~enablePerf => accepted \subseteq Flows
    <3>1. \A h \in Handler : req[h].at = "idle"
      BY <2>2, IdleAt, Zenon DEF AllIdle
    <3>2. \A r \in GemPortIDs : r[4] \in Installed /\ r \in GemRefs(r[4])
      BY <3>1, Zenon DEF FlowInv, ReferenceInv, Storing
    <3>3. \A r \in AllocIDs : r[4] \in Installed /\ r \in AllocRefs(r[4])
      BY <3>1, Zenon DEF FlowInv, ReferenceInv
    <3>4. \A f \in Installed : GemRefs(f) \subseteq GemPortIDs /\ AllocRefs(f) \subseteq AllocIDs
      BY Zenon DEF FlowInv, StoredInv
    <3> QED
      BY <3>2, <3>3, <3>4 DEF FlowInv, RequestInv
  <2> QED
    BY <2>1, <2>2, Zenon DEF ReferencesExact
<1> QED
  BY <1>1, FlowInvariant, PTL
==============================================================================
