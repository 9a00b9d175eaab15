----------------------------- MODULE MCOnuFlows -----------------------------
(***************************************************************************)
(* The flows of VOLTHA in the OLT (OltFlows), for two ONUs, and the channel *)
(* on which the OLT hands them to an ONU (OnuChannel): two parts that share *)
(* no variable, of which a behaviour has one.                               *)
(***************************************************************************)
EXTENDS OltFlows, OnuChannel, TLC

VARIABLE part

Unicast(o, p, gs, a) == [kind |-> "onu", onu |-> o, port |-> p, gems |-> gs, alloc |-> a]

\* two ONUs; f1 and f2 share a gem port and the alloc id of their ONU, f3 claims
\* a gem port of f1 for the other ONU, f4 is a multicast flow
MCFlows ==
    [f \in {"f1", "f2", "f3", "f4"} |->
        CASE f = "f1" -> Unicast(1, "p1", {"g1", "g2"}, "a1")
          [] f = "f2" -> Unicast(1, "p1", {"g2"}, "a1")
          [] f = "f3" -> Unicast(2, "p2", {"g1", "g3"}, "a2")
          [] f = "f4" -> [Unicast(0, "p0", {}, "a0") EXCEPT !.kind = "multicast"]]

ASSUME FlowsAssumption == CatalogAssumption /\ enablePerf \in BOOLEAN

\* handlers are interchangeable
Symmetry == Permutations(Handler)

MCInit == part \in {"olt", "onu"} /\ Init /\ ChannelInit

MCNext ==
    /\ UNCHANGED part
    /\ \/ part = "olt" /\ Next /\ UNCHANGED channelVars
       \/ part = "onu" /\ ChannelNext /\ UNCHANGED vars

MCSpec == MCInit /\ [][MCNext]_<<part, vars, channelVars>>
=============================================================================
