---------------------------- MODULE Subscribers ----------------------------
(***************************************************************************)
(* How BBSim gets its subscribers: LoadConfig makes one configuration of   *)
(* the defaults, the file and the command line, CreateOLT makes the PON    *)
(* ports, ONUs, UNIs and services with their addresses and VLAN tags, and  *)
(* SADIS, the API and GetDeviceInfo tell others about them.                *)
(*                                                                         *)
(* An option is a number, with 0 for what Go calls its zero value.         *)
(***************************************************************************)
EXTENDS Naturals, Sequences, FiniteSets, SequencesExt

CONSTANTS
    Inputs,   \* [file, args, pons, services]: files and command line
    Byte      \* the number of values of a byte: 256, and fewer in the runs

VARIABLES
    input,      \* the files and the command line of this process
    stage,      \* what main does: load, create a "pon", "onu", "uni", serve; or Fatal
    Config,     \* common.Config.Olt
    PonsConfig, \* common.PonsConfig
    nextCtag,   \* CreateOLT's maps from the name of a service to its last tag
    nextStag,
    Pons,       \* olt.Pons, with the ONUs and their ports
    connected   \* olt.PreviouslyConnected

vars == <<input, stage, Config, PonsConfig, nextCtag, nextStag, Pons, connected>>

---------------------------------------------------------------------------
(* LoadConfig.                                                             *)

GetDefaultOps ==
    [ID |-> 0, PonPorts |-> 1, OnusPonPort |-> 1, UniPorts |-> 4, PotsPorts |-> 0]

\* What the flags that are given, or the lines of a file, make of a structure.
\* A file that cannot be read has no lines.
Set(conf, given) ==
    [f \in DOMAIN conf |-> IF f \in DOMAIN given THEN given[f] ELSE conf[f]]

readCliParams(args) == Set(GetDefaultOps, args)
loadBBSimConf(file) == Set(GetDefaultOps, file)

\* mergo.Merge with WithOverride: zero values do not override.
Merge(dst, src) == [f \in DOMAIN dst |-> IF src[f] # 0 THEN src[f] ELSE dst[f]]

Merged(file, args) ==
    Merge(Merge(GetDefaultOps, loadBBSimConf(file)), readCliParams(args))

IdRange(start, end) == [start |-> start, end |-> end]
Ids(range) == range.start..range.end

defaultOnuIdStart == 1
defaultAllocIdStart == 1024
defaultGemportIdStart == 1024
defaultGemPortIdPerAllocId == 8

\* Mutant: the pool of alloc ids is that of one ONU.
DefaultPonsShort(conf, services) ==
    LET allocIds == conf.OnusPonPort * conf.UniPorts * Len(services)
    IN  [Number |-> conf.PonPorts,
         Ranges |-> <<[pons |-> IdRange(0, conf.PonPorts - 1), tech |-> "XGS-PON",
             onus |-> IdRange(defaultOnuIdStart, defaultOnuIdStart + conf.OnusPonPort - 1),
             allocs |-> IdRange(defaultAllocIdStart, defaultAllocIdStart + conf.UniPorts * Len(services)),
             gems |-> IdRange(defaultGemportIdStart,
                              defaultGemportIdStart + allocIds * defaultGemPortIdPerAllocId)]>>]

getDefaultPonsConfig(conf, services) ==
    LET allocIds == conf.OnusPonPort * conf.UniPorts * Len(services)
    IN  [Number |-> conf.PonPorts,
         Ranges |-> <<[pons |-> IdRange(0, conf.PonPorts - 1), tech |-> "XGS-PON",
             onus |-> IdRange(defaultOnuIdStart, defaultOnuIdStart + conf.OnusPonPort - 1),
             allocs |-> IdRange(defaultAllocIdStart, defaultAllocIdStart + allocIds),
             gems |-> IdRange(defaultGemportIdStart,
                              defaultGemportIdStart + allocIds * defaultGemPortIdPerAllocId)]>>]

loadBBSimPons(conf, services, file) == Set(getDefaultPonsConfig(conf, services), file)

Technologies == {"GPON", "XGS-PON"}

validatePonsConfig(pons) ==
    /\ pons.Number # 0
    /\ \A i \in DOMAIN pons.Ranges :
        LET r == pons.Ranges[i] IN
        /\ r.tech \in Technologies
        /\ \A range \in {r.pons, r.onus, r.allocs, r.gems} : range.start <= range.end
        /\ r.pons.end < pons.Number
    /\ \A p \in 0..(pons.Number - 1) :
        Cardinality({i \in DOMAIN pons.Ranges : p \in Ids(pons.Ranges[i].pons)}) = 1

\* tagAllocationFromString trims blanks, which NewUniPort does not.
Trim(allocation) == IF allocation = " unique" THEN "unique" ELSE allocation
tagAllocationFromString(allocation) == Trim(allocation) \in {"shared", "unique"}

loadBBSimServices(services) ==
    \A k \in DOMAIN services : /\ services[k].ctags # "" /\ services[k].stags # ""
                               /\ tagAllocationFromString(services[k].ctags)

LoadConfig ==
    /\ stage = "load"
    /\ LET conf == Merged(input.file, input.args)
           pons == loadBBSimPons(conf, input.services, input.pons)
       IN  /\ Config' = conf
           /\ PonsConfig' = pons
           /\ stage' = IF loadBBSimServices(input.services) /\ validatePonsConfig(pons)
                       THEN "pon" ELSE "fatal"
    /\ UNCHANGED <<input, nextCtag, nextStag, Pons, connected>>

---------------------------------------------------------------------------
(* CreateOLT.                                                              *)

\* The first range with the port, in a sequence that is empty if there is none.
GetPonConfigById(id) ==
    LET found == SelectSeq(PonsConfig.Ranges, LAMBDA r : id \in Ids(r.pons))
    IN  SubSeq(found, 1, IF found = <<>> THEN 0 ELSE 1)

CreatePonPort ==
    /\ stage = "pon"
    /\ LET id == Len(Pons)
           conf == GetPonConfigById(id) IN
       IF id = Config.PonPorts
       THEN stage' = "serve" /\ UNCHANGED Pons
       ELSE IF conf = <<>> \/ Cardinality(Ids(conf[1].onus)) < Config.OnusPonPort
       THEN stage' = "fatal" /\ UNCHANGED Pons
       ELSE /\ Pons' = Append(Pons, [ID |-> id, tech |-> conf[1].tech, onus |-> <<>>])
            /\ stage' = "onu"
    /\ UNCHANGED <<input, Config, PonsConfig, nextCtag, nextStag, connected>>

\* The port and the ONU that are being made.
Pon == Pons[Len(Pons)]
Onu == Pon.onus[Len(Pon.onus)]

NewSN(pon, onu) == <<0, Config.ID % Byte, pon % Byte, onu % Byte>>

CreateONU ==
    /\ stage = "onu"
    /\ IF Len(Pon.onus) = Config.OnusPonPort
       THEN stage' = "pon" /\ UNCHANGED Pons
       ELSE LET id == Len(Pon.onus) + 1 IN
            /\ Pons' = [Pons EXCEPT ![Len(Pons)].onus =
                   Append(@, [ID |-> id, PonPortID |-> Pon.ID, sn |-> NewSN(Pon.ID, id),
                              unis |-> <<>>, pots |-> <<>>])]
            /\ stage' = "uni"
    /\ UNCHANGED <<input, Config, PonsConfig, nextCtag, nextStag, connected>>

maxUniPorts == 4
maxTag == 4096

\* Mutant: a unique tag is not counted on.
TagUnchanged(next, name, first, allocation) == IF name \in DOMAIN next THEN next[name] ELSE first

NextTag(next, name, first, allocation) ==
    IF name \notin DOMAIN next THEN first
    ELSE IF allocation = "unique" THEN next[name] + 1
    ELSE next[name]

Remember(next, name, tag) ==
    [n \in DOMAIN next \cup {name} |-> IF n = name THEN tag ELSE next[n]]

\* The limit is only checked when a tag has been incremented.
OverLimit(next, name, tag, allocation) ==
    name \in DOMAIN next /\ allocation = "unique" /\ tag > maxTag

NewService(k, conf, uni, ctag, stag) ==
    [id |-> k, conf |-> conf, ctag |-> ctag, stag |-> stag,
     mac |-> <<46, Config.ID % Byte, Onu.PonPortID % Byte, Onu.ID % Byte, uni % Byte, k % Byte>>]

\* Services with one name share their counters.
AddService(acc, k, uni) ==
    LET s == input.services[k]
        ctag == NextTag(acc.ctags, s.name, s.ctag, s.ctags)
        stag == NextTag(acc.stags, s.name, s.stag, s.stags)
    IN  [ctags |-> Remember(acc.ctags, s.name, ctag),
         stags |-> Remember(acc.stags, s.name, stag),
         over |-> \/ acc.over
                  \/ OverLimit(acc.ctags, s.name, ctag, s.ctags)
                  \/ OverLimit(acc.stags, s.name, stag, s.stags),
         made |-> Append(acc.made, NewService(k - 1, s, uni, ctag, stag))]

NewUniPort ==
    /\ stage = "uni" /\ Len(Onu.unis) < Config.UniPorts
    /\ LET id == Len(Onu.unis)
           all == FoldLeft(LAMBDA acc, k : AddService(acc, k, id),
                           [ctags |-> nextCtag, stags |-> nextStag, over |-> FALSE, made |-> <<>>],
                           [k \in DOMAIN input.services |-> k])
       IN  IF id > maxUniPorts - 1 \/ all.over
           THEN stage' = "fatal" /\ UNCHANGED <<nextCtag, nextStag, Pons>>
           ELSE /\ nextCtag' = all.ctags /\ nextStag' = all.stags
                /\ Pons' = [Pons EXCEPT ![Len(Pons)].onus[Len(Pon.onus)].unis =
                       Append(@, [ID |-> id, MeId |-> id + 1, services |-> all.made])]
                /\ UNCHANGED stage
    /\ UNCHANGED <<input, Config, PonsConfig, connected>>

\* The ids of the POTS ports go on from those of the UNIs.
NewPotsPorts ==
    /\ stage = "uni" /\ Len(Onu.unis) = Config.UniPorts
    /\ Pons' = [Pons EXCEPT ![Len(Pons)].onus[Len(Pon.onus)].pots =
           [i \in 1..Config.PotsPorts |-> [ID |-> Config.UniPorts + i - 1,
                                           MeId |-> Config.UniPorts + i]]]
    /\ stage' = "onu"
    /\ UNCHANGED <<input, Config, PonsConfig, nextCtag, nextStag, connected>>

---------------------------------------------------------------------------
(* Looking subscribers up.  A result is a sequence, empty if there is none. *)

First(seq) == SubSeq(seq, 1, IF seq = <<>> THEN 0 ELSE 1)

Onus == FlattenSeq([i \in DOMAIN Pons |-> Pons[i].onus])

\* The hexadecimal digits of the vendor specific bytes.
OnuSnToString(sn) == FlattenSeq([i \in DOMAIN sn |-> <<sn[i] \div 16, sn[i] % 16>>])
Sn(onu) == OnuSnToString(onu.sn)

FindOnuBySn(sn) == First(SelectSeq(Onus, LAMBDA o : Sn(o) = sn))
FindOnuById(pon, id) == First(SelectSeq(Onus, LAMBDA o : o.PonPortID = pon /\ o.ID = id))
FindUniById(onu, id) == First(SelectSeq(onu.unis, LAMBDA u : u.ID = id))

ServicesOf(onu) == FlattenSeq([i \in DOMAIN onu.unis |-> onu.unis[i].services])
findServiceByMacAddress(onu, mac) == First(SelectSeq(ServicesOf(onu), LAMBDA s : s.mac = mac))
FindServiceByMacAddress(mac) ==
    First(FlattenSeq([i \in DOMAIN Onus |-> findServiceByMacAddress(Onus[i], mac)]))

---------------------------------------------------------------------------
(* SADIS.                                                                  *)

OltSerialNumber == <<"BBSIM_OLT", Config.ID>>

GetOltEntry == [what |-> "olt", id |-> OltSerialNumber]

UniTag(s) ==
    [service |-> s.conf.name, ctag |-> s.ctag, stag |-> s.stag,
     dhcp |-> s.conf.dhcp, igmp |-> s.conf.igmp,
     upstream |-> "User_Bandwidth1", downstream |-> "User_Bandwidth2",
     mac |-> IF s.conf.configureMac THEN s.mac ELSE <<>>]

Null == [what |-> "null"]

\* Mutant: the numbers of the UNIs start from 0, as their ids do.
EntryFromZero(onu, uni) ==
    LET found == FindUniById(onu, uni)
    IN  IF found = <<>> THEN Null
        ELSE [what |-> "onu", id |-> <<Sn(onu), uni>>,
              tags |-> [k \in DOMAIN found[1].services |-> UniTag(found[1].services[k])]]

\* In SADIS the UNIs are numbered from 1.  The number 0 becomes the largest
\* integer, which is the id of no UNI.
GetOnuEntryV2(onu, uni) ==
    LET found == IF uni = 0 THEN <<>> ELSE FindUniById(onu, uni - 1)
    IN  IF found = <<>> THEN Null
        ELSE [what |-> "onu", id |-> <<Sn(onu), uni>>,
              tags |-> [k \in DOMAIN found[1].services |-> UniTag(found[1].services[k])]]

\* An id is split at its dashes.  The error of GetOnuEntryV2 is dropped, and a
\* UNI that does not exist has the entry null.
ServeEntry(version, id) ==
    IF id = <<OltSerialNumber>> THEN [status |-> 200, body |-> GetOltEntry]
    ELSE IF Len(id) # 2 THEN [status |-> 422, body |-> Null]
    ELSE LET onu == FindOnuBySn(id[1])
         IN  IF onu = <<>> THEN [status |-> 404, body |-> Null]
             ELSE IF version = "v1" THEN [status |-> 400, body |-> Null]
             ELSE [status |-> 200,
                   body |-> IF version = "v2" THEN GetOnuEntryV2(onu[1], id[2]) ELSE Null]

bandwidthProfiles == {"User_Bandwidth1", "User_Bandwidth2", "User_Bandwidth3", "Default"}

ServeBWPEntry(version, id) ==
    [status |-> IF version \in {"v1", "v2"} /\ id \in bandwidthProfiles THEN 200 ELSE 404]

\* The status is written before the version is looked at.
ServeBaseConfig(version) ==
    [status |-> 200, entries |-> IF version \in {"v1", "v2"} THEN <<GetOltEntry>> ELSE <<>>]

\* The whole configuration; the subscribers are only in version 2.
ServeStaticConfig(version) ==
    IF version = "v1" THEN [status |-> 400, entries |-> <<>>]
    ELSE [status |-> 200,
          entries |-> <<GetOltEntry>> \o
              (IF version # "v2" THEN <<>>
               ELSE FlattenSeq([i \in DOMAIN Onus |->
                        [u \in DOMAIN Onus[i].unis |->
                            GetOnuEntryV2(Onus[i], Onus[i].unis[u].ID + 1)]]))]

---------------------------------------------------------------------------
(* BBSim's API and the legacy one, in what they say about subscribers.     *)

convertBBSimServiceToProtoService(onu, uni, s) ==
    [name |-> s.conf.name, OnuSn |-> Sn(onu), UniId |-> uni.ID, HwAddress |-> s.mac,
     CTag |-> s.ctag, STag |-> s.stag]

convertBBSimUniPortToProtoUniPort(onu, uni) ==
    [ID |-> uni.ID, OnuSn |-> Sn(onu), MeID |-> uni.MeId, Type |-> "ETH"]
convertBBSimPotsPortToProtoUniPort(onu, pots) ==
    [ID |-> pots.ID, OnuSn |-> Sn(onu), MeID |-> pots.MeId, Type |-> "POTS"]

ProtoOnu(onu) ==
    [ID |-> onu.ID, SerialNumber |-> Sn(onu), PonPortID |-> onu.PonPortID,
     Unis |-> [i \in DOMAIN onu.unis |-> convertBBSimUniPortToProtoUniPort(onu, onu.unis[i])]
              \o [i \in DOMAIN onu.pots |-> convertBBSimPotsPortToProtoUniPort(onu, onu.pots[i])]]

GetONUs == [i \in DOMAIN Onus |-> ProtoOnu(Onus[i])]
GetONU(sn) == LET onu == FindOnuBySn(sn) IN [i \in DOMAIN onu |-> ProtoOnu(onu[i])]
GetUnis == FlattenSeq([i \in DOMAIN GetONUs |-> GetONUs[i].Unis])
GetOnuUnis(sn) == LET onu == GetONU(sn) IN IF onu = <<>> THEN <<>> ELSE onu[1].Unis

ProtoServices(onu) ==
    FlattenSeq([i \in DOMAIN onu.unis |->
        [k \in DOMAIN onu.unis[i].services |->
            convertBBSimServiceToProtoService(onu, onu.unis[i], onu.unis[i].services[k])]])

\* With a serial number and the id of a UNI.
GetServices(sn, uni) ==
    SelectSeq(FlattenSeq([i \in DOMAIN Onus |-> ProtoServices(Onus[i])]),
              LAMBDA s : s.OnuSn = sn /\ s.UniId = uni)

copyONUInfo(onu) == [OnuId |-> onu.ID, PonPortId |-> onu.PonPortID, OnuSerial |-> Sn(onu)]

\* By serial number, by id, or all: no ONU has the id 0.
handleONUStatusRequest(in) ==
    LET found == IF in.OnuSerial # <<>> THEN FindOnuBySn(in.OnuSerial)
                 ELSE IF in.OnuId # 0 THEN FindOnuById(in.PonPortId, in.OnuId)
                 ELSE Onus
    IN  [i \in DOMAIN found |-> copyONUInfo(found[i])]

---------------------------------------------------------------------------
(* GetDeviceInfo, which VOLTHA calls when it connects.                     *)

DeviceInfo ==
    [PonPorts |-> Config.PonPorts, PreviouslyConnected |-> connected,
     Ranges |-> [i \in DOMAIN PonsConfig.Ranges |->
         LET r == PonsConfig.Ranges[i]
         IN  [IntfIds |-> Ids(r.pons), tech |-> r.tech, ONU_ID |-> Ids(r.onus),
              ALLOC_ID |-> Ids(r.allocs), GEMPORT_ID |-> Ids(r.gems)]]]

GetDeviceInfo ==
    /\ stage = "serve" /\ ~connected
    /\ connected' = TRUE
    /\ UNCHANGED <<input, stage, Config, PonsConfig, nextCtag, nextStag, Pons>>

---------------------------------------------------------------------------

Init ==
    /\ input \in Inputs
    /\ stage = "load" /\ Config = GetDefaultOps
    /\ PonsConfig = [Number |-> 0, Ranges |-> <<>>]
    /\ nextCtag = <<>> /\ nextStag = <<>> /\ Pons = <<>> /\ connected = FALSE

Next == LoadConfig \/ CreatePonPort \/ CreateONU \/ NewUniPort \/ NewPotsPorts \/ GetDeviceInfo

Spec == Init /\ [][Next]_vars

---------------------------------------------------------------------------

\* Types of the stages of main, and of the ports it makes.
TypeOK ==
    /\ stage \in {"load", "pon", "onu", "uni", "serve", "fatal"}
    /\ DOMAIN nextCtag = DOMAIN nextStag /\ connected \in BOOLEAN
    /\ \A i \in DOMAIN Pons : Pons[i].ID = i - 1 /\ Pons[i].tech \in Technologies

AllServices == FlattenSeq([i \in DOMAIN Onus |-> ServicesOf(Onus[i])])

Distinct(seq) == Cardinality({seq[i] : i \in DOMAIN seq}) = Len(seq)

\* The premise of what follows: the numbers of ports and ONUs fit the byte
\* they have in a MAC address and in a serial number.
FitsBytes == Config.PonPorts <= Byte /\ Config.OnusPonPort <= Byte

TagsOf(name, tag) ==
    LET of == SelectSeq(AllServices, LAMBDA s : s.conf.name = name)
    IN  [i \in DOMAIN of |-> of[i][tag]]

\* No two subscribers are alike once main serves: ONUs have serial numbers, and
\* services MAC addresses, of their own and are found by them; a service with
\* unique tags has another tag on each UNI, one with shared tags the same
\* everywhere, and no tag has been counted past 4096.
SubscribersDistinct ==
    /\ TypeOK
    /\ stage = "serve" /\ FitsBytes =>
        /\ \A i \in DOMAIN Onus : FindOnuBySn(Sn(Onus[i])) = <<Onus[i]>>
        /\ Distinct([i \in DOMAIN AllServices |-> AllServices[i].mac])
        /\ \A i \in DOMAIN AllServices :
            FindServiceByMacAddress(AllServices[i].mac) = <<AllServices[i]>>
    /\ stage = "serve" =>
        \A k \in DOMAIN input.services :
            LET s == input.services[k] IN
            /\ s.ctags = "unique" => Distinct(TagsOf(s.name, "ctag"))
            /\ s.stags = "unique" => Distinct(TagsOf(s.name, "stag"))
            /\ \A t \in ToSet(TagsOf(s.name, "ctag")) :
                t <= maxTag \/ t = s.ctag
            /\ s.ctags # "unique" => Cardinality(ToSet(TagsOf(s.name, "ctag"))) = 1

\* SADIS, the API and the devices tell the same: the entry of each UNI, which
\* counts from 1, describes the services that the API lists for the UNI, which
\* counts from 0, in their order and with their tags and addresses; the static
\* configuration holds these entries and no other; a UNI that does not exist
\* has no tags and an ONU that does not exist no entry; the bandwidth profiles
\* of the entries are served; and the API gives each port of an ONU, Ethernet
\* or POTS, one id.
ViewsAgree ==
    stage = "serve" /\ FitsBytes =>
        /\ \A i \in DOMAIN Onus :
            LET o == Onus[i] IN
            /\ \A n \in 0..(Len(o.unis) + 1) :
                LET answer == ServeEntry("v2", <<Sn(o), n>>)
                    listed == IF n = 0 THEN <<>> ELSE GetServices(Sn(o), n - 1)
                IN  /\ answer.status = 200
                    /\ answer.body = Null <=> n \notin 1..Len(o.unis)
                    /\ answer.body # Null =>
                        /\ answer.body \in ToSet(ServeStaticConfig("v2").entries)
                        /\ Len(answer.body.tags) = Len(listed)
                        /\ \A k \in DOMAIN listed :
                            LET tag == answer.body.tags[k] IN
                            /\ tag.service = listed[k].name
                            /\ <<tag.ctag, tag.stag>> = <<listed[k].CTag, listed[k].STag>>
                            /\ tag.mac \in {<<>>, listed[k].HwAddress}
                            /\ \A profile \in {tag.upstream, tag.downstream} :
                                ServeBWPEntry("v2", profile).status = 200
            /\ GetOnuUnis(Sn(o)) = SelectSeq(GetUnis, LAMBDA u : u.OnuSn = Sn(o))
            /\ Distinct([k \in DOMAIN GetOnuUnis(Sn(o)) |-> GetOnuUnis(Sn(o))[k].ID])
            /\ handleONUStatusRequest([OnuSerial |-> Sn(o), OnuId |-> 0, PonPortId |-> 0])
               = handleONUStatusRequest([OnuSerial |-> <<>>, OnuId |-> o.ID, PonPortId |-> o.PonPortID])
        /\ Len(ServeStaticConfig("v2").entries) =
              FoldLeft(LAMBDA n, o : n + Len(o.unis), 1, Onus)
        /\ ServeBaseConfig("v2").entries = <<ServeEntry("v2", <<OltSerialNumber>>).body>>
        /\ ServeEntry("v2", <<OnuSnToString(<<1, 1, 1, 1>>), 1>>).status = 404

\* What GetDeviceInfo announces suffices for what CreateOLT has made: each PON
\* port is in one range, whose pool has an id for each ONU of the port; and if
\* the ranges are not given in a file, for each service of each of its UNIs an
\* alloc id and eight gem ports.
PoolsSuffice ==
    stage = "serve" =>
        \A i \in DOMAIN Pons :
            /\ Cardinality({r \in DOMAIN DeviceInfo.Ranges :
                                Pons[i].ID \in DeviceInfo.Ranges[r].IntfIds}) = 1
            /\ \A r \in DOMAIN DeviceInfo.Ranges :
                LET range == DeviceInfo.Ranges[r]
                    services == FoldLeft(LAMBDA n, o : n + Len(ServicesOf(o)), 0, Pons[i].onus)
                IN  Pons[i].ID \in range.IntfIds =>
                        /\ Pons[i].tech = range.tech
                        /\ Cardinality(range.ONU_ID) >= Len(Pons[i].onus)
                        /\ DOMAIN input.pons = {} =>
                            /\ Cardinality(range.ALLOC_ID) >= services
                            /\ Cardinality(range.GEMPORT_ID) >= 8 * services

\* "CLI arguments override values specified here": an option has the value of
\* its flag if that is given, else that of the file, else its default.
FlagThenFileThenDefault ==
    stage # "load" => Config = Set(Set(GetDefaultOps, input.file), input.args)
====
