----------------------------- MODULE MCPackets -----------------------------
(***************************************************************************)
(* The packets of the subscribers of one ONU, and how subscribers are made *)
(* of a configuration: two parts that share no state, of which a behaviour *)
(* has one.                                                                *)
(*                                                                         *)
(* The ONU of the packets has two UNIs.  The services of UNI 0 share no    *)
(* tag; the first of them and the one of UNI 1 have the same C-tag and     *)
(* both speak IGMP; the second is the management service of an FTTB unit.  *)
(***************************************************************************)
EXTENDS Packets

MCCatalog ==
    <<[uni |-> 0, k |-> 0, ctag |-> 5, stag |-> 50, dhcp |-> TRUE, igmp |-> TRUE, dpu |-> FALSE],
      [uni |-> 0, k |-> 1, ctag |-> 6, stag |-> 60, dhcp |-> TRUE, igmp |-> FALSE, dpu |-> TRUE],
      [uni |-> 1, k |-> 0, ctag |-> 5, stag |-> 51, dhcp |-> TRUE, igmp |-> TRUE, dpu |-> FALSE]>>
MCGroups == {<<239, 1, 1, 1>>}

CONSTANTS Inputs, SmallByte, Parts
VARIABLES part, input, stage, Config, PonsConfig, nextCtag, nextStag, Pons, connected

P == INSTANCE Subscribers WITH Byte <- SmallByte

provisioning == <<input, stage, Config, PonsConfig, nextCtag, nextStag, Pons, connected>>

Yaml(name, ctag, ctags, stag, stags) ==
    [name |-> name, ctag |-> ctag, ctags |-> ctags, stag |-> stag, stags |-> stags,
     dhcp |-> TRUE, igmp |-> FALSE, configureMac |-> name = "voip"]

Att == <<Yaml("hsia", 900, "unique", 900, "shared")>>
Tt == <<Yaml("hsia", 900, "unique", 900, "shared"), Yaml("voip", 444, "shared", 333, "shared")>>
Twice == <<Yaml("hsia", 900, "unique", 900, "unique"), Yaml("hsia", 900, "unique", 900, "unique")>>
Dt == <<Yaml("hsia", 4096, "shared", 4090, "unique")>>
Blank == <<Yaml("hsia", 900, " unique", 900, "unknown")>>
Bad == {<<Yaml("hsia", 900, "none", 900, "shared")>>, <<Yaml("hsia", 900, "unique", 900, "")>>}

Files == {<<>>, [PonPorts |-> 2, PotsPorts |-> 1], [UniPorts |-> 2]}
CommandLines == {<<>>, [PonPorts |-> 2, OnusPonPort |-> 2], [UniPorts |-> 1, PotsPorts |-> 2],
                 [UniPorts |-> 5], [PotsPorts |-> 0, PonPorts |-> 3, UniPorts |-> 2]}

\* As many ports and ONUs as a byte can tell apart, and one more.
Limits == {[OnusPonPort |-> n, UniPorts |-> 1] : n \in {SmallByte, SmallByte + 1}}
          \cup {[PonPorts |-> n, UniPorts |-> 1] : n \in {SmallByte, SmallByte + 1}}

Between(start, end) == [start |-> start, end |-> end]
Span(pons, onus, tech) ==
    [pons |-> pons, tech |-> tech, onus |-> onus, allocs |-> Between(1, 4), gems |-> Between(1, 4)]
PonsFiles == {<<>>,
    [Number |-> 3, Ranges |-> <<Span(Between(0, 0), Between(1, 2), "GPON"),
                               Span(Between(1, 2), Between(1, 1), "XGS-PON")>>],
    [Number |-> 2, Ranges |-> <<Span(Between(0, 1), Between(1, 2), "GPON"),
                               Span(Between(1, 1), Between(1, 2), "GPON")>>],
    [Number |-> 2, Ranges |-> <<Span(Between(0, 1), Between(2, 1), "GPON")>>],
    [Number |-> 2, Ranges |-> <<Span(Between(0, 0), Between(1, 2), "GPON")>>]}

MCInputs ==
    [file : Files, args : CommandLines, pons : PonsFiles, services : {Att, Tt, Twice, Dt, Blank}]
    \cup [file : {<<>>}, args : {<<>>}, pons : {<<>>}, services : Bad]
    \cup [file : {<<>>}, args : Limits, pons : {<<>>}, services : {Att, Tt}]

MCInit ==
    /\ part \in Parts
    /\ Init
    /\ IF part = "packets"
       THEN /\ input = <<>> /\ stage = "load" /\ Config = <<>> /\ PonsConfig = <<>>
            /\ nextCtag = <<>> /\ nextStag = <<>> /\ Pons = <<>> /\ connected = FALSE
       ELSE P!Init

MCNext ==
    /\ UNCHANGED part
    /\ \/ part = "packets" /\ Next /\ UNCHANGED provisioning
       \/ part = "provisioning" /\ P!Next /\ UNCHANGED vars

MCSpec == MCInit /\ [][MCNext]_<<part, vars, provisioning>>

\* No two subscribers are alike (see Subscribers).
SubscribersDistinct == part = "provisioning" => P!SubscribersDistinct

\* SADIS, the API and the devices tell the same (see Subscribers).
ViewsAgree == part = "provisioning" => P!ViewsAgree

\* The pools of GetDeviceInfo suffice for the subscribers (see Subscribers).
PoolsSuffice == part = "provisioning" => P!PoolsSuffice

\* "CLI arguments override values specified here" (see Subscribers).
FlagThenFileThenDefault == part = "provisioning" => P!FlagThenFileThenDefault
====
