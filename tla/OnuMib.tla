-------------------------------- MODULE OnuMib --------------------------------
(***************************************************************************)
(* OMCI configuration of the ONUs on one PON port: the gem ports and alloc *)
(* ids they reserve in the tables of the port, the MIB data sync counter   *)
(* (MDS) that VOLTHA audits, and the limited response rate.                *)
(*                                                                         *)
(* Every ONU handles its requests one at a time, in its own goroutine.     *)
(* A request that reserves something looks it up under the read lock of    *)
(* the table and stores it under the write lock, which are two steps.      *)
(***************************************************************************)
EXTENDS Naturals

CONSTANTS
    Onu,              \* ONUs of the PON port
    Gem,              \* ids of gem ports
    Entity,           \* T-CONTs of an ONU
    Alloc,            \* ids of allocations
    NoOnu, NoAlloc,   \* an entry that is free
    maxOmciMsgCounter, \* requests in a round of the response rate (10)
    OmciResponseRate, \* how many requests of a round are answered
    Modulus,          \* of MibDataSync (256: it is a uint8)
    MaxAdded,         \* the most that InvalidateMds adds to the MDS (10)
    MaxInvalid        \* bound on InvalidateMds calls between two resets

ASSUME FreeAssumption == NoOnu \notin Onu /\ NoAlloc \notin Alloc
ASSUME RateAssumption == maxOmciMsgCounter \in Nat \ {0} /\ OmciResponseRate \in Nat
ASSUME MdsAssumption ==
    Modulus \in Nat \ {0, 1} /\ MaxAdded \in Nat \ {0} /\ MaxInvalid \in Nat

VARIABLES
    AllocatedGemPorts, \* the ONU that has each gem port
    AllocatedAllocIds, \* the alloc id of every T-CONT of every ONU
    MibDataSync,       \* of every ONU
    OmciMsgCounter,    \* of every ONU
    answered,          \* requests answered since OmciMsgCounter was 1
    up,                \* ONUs that are not disabled
    reset,             \* ONUs whose MIB VOLTHA has reset since they came up
    work,              \* the request every ONU is handling
    acked,             \* changes acknowledged since the last reset
    invalid,           \* InvalidateMds calls since the last reset
    gemsOf, allocOf,   \* what VOLTHA believes to be configured
    overlapped         \* history: steps of two goroutines that overlapped

vars == <<AllocatedGemPorts, AllocatedAllocIds, MibDataSync, OmciMsgCounter,
          answered, up, reset, work, acked, invalid, gemsOf, allocOf,
          overlapped>>
tables == <<AllocatedGemPorts, AllocatedAllocIds>>
believed == <<gemsOf, allocOf>>
switches == <<up, reset, invalid>>

NoAllocs == [e \in Entity |-> NoAlloc]
Idle == [op |-> "idle"]
Create(at, g) == [op |-> "create", at |-> at, gem |-> g]
Assign(at, e, a) == [op |-> "assign", at |-> at, entity |-> e, alloc |-> a]

Work ==
    {Idle} \cup {Create(at, g) : at \in {"check", "store"}, g \in Gem}
           \cup {Assign(at, e, a) : at \in {"check", "store"},
                                    e \in Entity, a \in Alloc}

\* The types: tables, counters within their widths, and requests between their
\* look-up and their store (the Create and Set cases of handleOmciRequest).
TypeOK ==
    /\ AllocatedGemPorts \in [Gem -> Onu \cup {NoOnu}]
    /\ AllocatedAllocIds \in [Onu -> [Entity -> Alloc \cup {NoAlloc}]]
    /\ MibDataSync \in [Onu -> 0..(Modulus - 1)]
    /\ OmciMsgCounter \in [Onu -> 0..maxOmciMsgCounter]
    /\ answered \in [Onu -> 0..maxOmciMsgCounter]
    /\ up \subseteq Onu /\ reset \subseteq Onu
    /\ work \in [Onu -> Work]
    /\ acked \in [Onu -> 0..(Modulus - 1)]
    /\ invalid \in [Onu -> 0..MaxInvalid]
    /\ gemsOf \in [Onu -> SUBSET Gem]
    /\ allocOf \in [Onu -> [Entity -> Alloc \cup {NoAlloc}]]
    /\ overlapped \subseteq {"claim", "down"}

Init ==
    /\ AllocatedGemPorts = [g \in Gem |-> NoOnu]
    /\ AllocatedAllocIds = [o \in Onu |-> NoAllocs]
    /\ MibDataSync = [o \in Onu |-> 0]
    /\ OmciMsgCounter = [o \in Onu |-> 0]
    /\ answered = [o \in Onu |-> 0]
    /\ up = {} /\ reset = {}
    /\ work = [o \in Onu |-> Idle]
    /\ acked = [o \in Onu |-> 0]
    /\ invalid = [o \in Onu |-> 0]
    /\ gemsOf = [o \in Onu |-> {}]
    /\ allocOf = [o \in Onu |-> NoAllocs]
    /\ overlapped = {}

-----------------------------------------------------------------------------
(***************************************************************************)
(* The tables of the PON port.                                             *)
(***************************************************************************)

StoreGemPort(g, o) ==
    AllocatedGemPorts' = [AllocatedGemPorts EXCEPT ![g] = o]

RemoveGemPort(g) ==
    AllocatedGemPorts' = [AllocatedGemPorts EXCEPT ![g] = NoOnu]

IsGemPortAllocated(g) == AllocatedGemPorts[g] # NoOnu

StoreAllocId(o, e, a) ==
    AllocatedAllocIds' = [AllocatedAllocIds EXCEPT ![o][e] = a]

\* the key of the table is the T-CONT of the ONU, not the alloc id
IsAllocIdAllocated(o, e) == AllocatedAllocIds[o][e] # NoAlloc

KeepGemPorts(os) == UNCHANGED AllocatedGemPorts

RemoveGemPortBySn(os) ==
    AllocatedGemPorts' =
        [g \in Gem |-> IF AllocatedGemPorts[g] \in os THEN NoOnu
                       ELSE AllocatedGemPorts[g]]

RemoveAllocIdsForOnuSn(os) ==
    AllocatedAllocIds' = [o \in Onu |-> IF o \in os THEN NoAllocs
                                        ELSE AllocatedAllocIds[o]]

-----------------------------------------------------------------------------
(***************************************************************************)
(* handleOmciRequest.                                                      *)
(***************************************************************************)

NextCount(n) == IF n < maxOmciMsgCounter THEN n + 1 ELSE 1

CountMessage(o) ==
    OmciMsgCounter' = [OmciMsgCounter EXCEPT ![o] = NextCount(@)]

Answers(o) == NextCount(OmciMsgCounter[o]) <= OmciResponseRate

Ready(o) == work[o] = Idle /\ o \in up

Answered(o, yes) ==
    answered' = [answered EXCEPT
        ![o] = (IF NextCount(OmciMsgCounter[o]) = 1 THEN 0 ELSE @) +
               (IF yes THEN 1 ELSE 0)]

\* a request that is not answered has no effect either
Skip(o) ==
    /\ Ready(o) /\ ~Answers(o)
    /\ CountMessage(o)
    /\ Answered(o, FALSE)
    /\ UNCHANGED <<tables, MibDataSync, switches, work, acked, believed,
                   overlapped>>

Accept(o) ==
    /\ Ready(o) /\ Answers(o)
    /\ CountMessage(o)
    /\ Answered(o, TRUE)
    /\ UNCHANGED overlapped

\* VOLTHA resets the MIB of an ONU that came up before it configures it
AcceptConfig(o) == o \in reset /\ Accept(o)

\* MDS and a successful answer
Success(o) ==
    /\ MibDataSync' = [MibDataSync EXCEPT ![o] = (@ + 1) % Modulus]
    /\ acked' = [acked EXCEPT ![o] = (@ + 1) % Modulus]

ResetToOne(o) == MibDataSync' = [MibDataSync EXCEPT ![o] = 1]

ResetMds(o) == MibDataSync' = [MibDataSync EXCEPT ![o] = 0]

MibReset(o) ==
    /\ Accept(o)
    /\ ResetMds(o)
    /\ acked' = [acked EXCEPT ![o] = 0]
    /\ invalid' = [invalid EXCEPT ![o] = 0]
    /\ RemoveAllocIdsForOnuSn({o})
    /\ RemoveGemPortBySn({o})
    /\ reset' = reset \cup {o}
    /\ gemsOf' = [gemsOf EXCEPT ![o] = {}]
    /\ allocOf' = [allocOf EXCEPT ![o] = NoAllocs]
    /\ UNCHANGED <<up, work>>

\* a MIB upload, a Get, the time: nothing changes
Inspect(o) ==
    /\ AcceptConfig(o)
    /\ UNCHANGED <<tables, MibDataSync, switches, work, acked, believed>>

\* Set, Create and Delete of other entities, and of gem port 4069
Configure(o) ==
    /\ AcceptConfig(o)
    /\ Success(o)
    /\ UNCHANGED <<tables, switches, work, believed>>

CreateGemPort(o, g) ==
    /\ AcceptConfig(o)
    /\ g \notin gemsOf[o]
    /\ work' = [work EXCEPT ![o] = Create("check", g)]
    /\ UNCHANGED <<tables, MibDataSync, switches, acked, believed>>

CheckedGem(o) == work[o].op = "create" /\ work[o].at = "check"
StoredGem(o) == work[o].op = "create" /\ work[o].at = "store"

\* another ONU has found the gem port free, and has not stored it yet
Contended(o) ==
    \E p \in Onu \ {o} : StoredGem(p) /\ work[p].gem = work[o].gem

NoCheck(o) ==
    /\ CheckedGem(o)
    /\ work' = [work EXCEPT ![o].at = "store"]
    /\ overlapped' = IF Contended(o) THEN overlapped \cup {"claim"} ELSE overlapped
    /\ UNCHANGED <<tables, MibDataSync, OmciMsgCounter, answered, switches,
                   acked, believed>>

\* a duplicate is a ProcessingError, and leaves the MDS alone
CheckGemPort(o) ==
    /\ CheckedGem(o)
    /\ work' = [work EXCEPT ![o] = IF IsGemPortAllocated(@.gem) THEN Idle
                                   ELSE Create("store", @.gem)]
    /\ overlapped' = IF Contended(o) THEN overlapped \cup {"claim"} ELSE overlapped
    /\ UNCHANGED <<tables, MibDataSync, OmciMsgCounter, answered, switches,
                   acked, believed>>

FinishCreate(o) ==
    /\ StoredGem(o)
    /\ StoreGemPort(work[o].gem, o)
    /\ Success(o)
    /\ gemsOf' = [gemsOf EXCEPT ![o] = IF o \in up THEN @ \cup {work[o].gem}
                                       ELSE @]
    /\ work' = [work EXCEPT ![o] = Idle]
    /\ UNCHANGED <<AllocatedAllocIds, OmciMsgCounter, answered, switches,
                   allocOf, overlapped>>

\* removeGemPort does not ask who has the gem port
DeleteGemPort(o, g) ==
    /\ AcceptConfig(o)
    /\ g \in gemsOf[o]
    /\ RemoveGemPort(g)
    /\ Success(o)
    /\ gemsOf' = [gemsOf EXCEPT ![o] = @ \ {g}]
    /\ UNCHANGED <<AllocatedAllocIds, switches, work, allocOf>>

AssignAlloc(o, e, a) ==
    /\ AcceptConfig(o)
    /\ work' = [work EXCEPT ![o] = Assign("check", e, a)]
    /\ UNCHANGED <<tables, MibDataSync, switches, acked, believed>>

\* a T-CONT that has an alloc id already is an AttributeFailure
CheckAlloc(o) ==
    /\ work[o].op = "assign" /\ work[o].at = "check"
    /\ work' = [work EXCEPT ![o] = IF IsAllocIdAllocated(o, @.entity) THEN Idle
                                   ELSE Assign("store", @.entity, @.alloc)]
    /\ UNCHANGED <<tables, MibDataSync, OmciMsgCounter, answered, switches,
                   acked, believed, overlapped>>

FinishAssign(o) ==
    /\ work[o].op = "assign" /\ work[o].at = "store"
    /\ StoreAllocId(o, work[o].entity, work[o].alloc)
    /\ Success(o)
    /\ allocOf' = [allocOf EXCEPT ![o][work[o].entity] =
                      IF o \in up THEN work[o].alloc ELSE @]
    /\ work' = [work EXCEPT ![o] = Idle]
    /\ UNCHANGED <<AllocatedGemPorts, OmciMsgCounter, answered, switches, gemsOf,
                   overlapped>>

\* alloc ids 255 and 65535 free the T-CONT
FreeAlloc(o, e) ==
    /\ AcceptConfig(o)
    /\ StoreAllocId(o, e, NoAlloc)
    /\ Success(o)
    /\ allocOf' = [allocOf EXCEPT ![o][e] = NoAlloc]
    /\ UNCHANGED <<AllocatedGemPorts, switches, work, gemsOf>>

-----------------------------------------------------------------------------
(***************************************************************************)
(* The life of the ONUs.                                                   *)
(***************************************************************************)

ComeUp(o) ==
    /\ o \notin up
    /\ up' = up \cup {o}
    /\ UNCHANGED <<tables, MibDataSync, OmciMsgCounter, answered, reset, work,
                   acked, invalid, believed, overlapped>>

\* cleanupOnuState, of one ONU or, when the OLT reboots, of all
GoDown(os) ==
    /\ up \cap os # {}
    /\ RemoveAllocIdsForOnuSn(os)
    /\ RemoveGemPortBySn(os)
    /\ up' = up \ os
    /\ reset' = reset \ os
    /\ gemsOf' = [o \in Onu |-> IF o \in os THEN {} ELSE gemsOf[o]]
    /\ allocOf' = [o \in Onu |-> IF o \in os THEN NoAllocs ELSE allocOf[o]]
    /\ overlapped' = IF \E o \in os : work[o] # Idle
                     THEN overlapped \cup {"down"} ELSE overlapped
    /\ UNCHANGED <<MibDataSync, OmciMsgCounter, answered, work, acked, invalid>>

Added(n, r) == (n + r) % Modulus

InvalidatedFromZero(n, r) == (n + r - 1) % Modulus

Invalidated(n, r) == IF Added(n, r) = 0 THEN 1 ELSE Added(n, r)

\* the API: one to MaxAdded is added to the MDS
InvalidateMds(o, r) ==
    /\ invalid[o] < MaxInvalid
    /\ invalid' = [invalid EXCEPT ![o] = @ + 1]
    /\ MibDataSync' = [MibDataSync EXCEPT ![o] = Invalidated(@, r)]
    /\ UNCHANGED <<tables, OmciMsgCounter, answered, up, reset, work, acked,
                   believed, overlapped>>

Next ==
    \/ \E o \in Onu :
          \/ Skip(o) \/ MibReset(o) \/ Inspect(o) \/ Configure(o)
          \/ CheckGemPort(o) \/ FinishCreate(o)
          \/ CheckAlloc(o) \/ FinishAssign(o)
          \/ ComeUp(o) \/ GoDown({o})
    \/ \E o \in Onu, g \in Gem : CreateGemPort(o, g) \/ DeleteGemPort(o, g)
    \/ \E o \in Onu, e \in Entity : FreeAlloc(o, e)
    \/ \E o \in Onu, e \in Entity, a \in Alloc : AssignAlloc(o, e, a)
    \/ \E o \in Onu, r \in 1..MaxAdded : InvalidateMds(o, r)
    \/ GoDown(Onu)

Spec == Init /\ [][Next]_vars

-----------------------------------------------------------------------------
(***************************************************************************)
(* Properties.                                                             *)
(***************************************************************************)

\* Whenever an ONU is not in the middle of a request, the tables of the PON
\* port hold for it exactly what VOLTHA was told is configured: resets, power
\* cycles and reboots of the OLT forget all of it and nothing of another ONU.
\* Unless two ONUs claimed one gem port at the same time, or an ONU went down
\* in the middle of a request: the code guards against neither.
TablesExact ==
    overlapped = {} =>
        \A o \in Onu : work[o] = Idle =>
            /\ {g \in Gem : AllocatedGemPorts[g] = o} = gemsOf[o]
            /\ AllocatedAllocIds[o] = allocOf[o]

\* "check for GemPortNetworkCtp and make sure there are no duplicates on the
\* same PON" (devices/onu.go:989): no gem port is acknowledged to two ONUs,
\* whichever of them go down and when, unless both found it free at once.
GemPortsUnique ==
    "claim" \notin overlapped =>
        \A o, p \in Onu : o # p => gemsOf[o] \cap gemsOf[p] = {}

\* cleanupOnuState "is to clean the local state when the ONU is disabled"
\* (devices/onu.go:394): an ONU that is down has no gem port and no alloc id,
\* unless it went down in the middle of a request.
DownOwnsNothing ==
    "down" \notin overlapped =>
        \A o \in Onu \ up :
            /\ \A g \in Gem : AllocatedGemPorts[g] # o
            /\ AllocatedAllocIds[o] = NoAllocs

\* The MDS that VOLTHA audits is the number of changes it was told succeeded,
\* also across requests that failed, that were skipped, and power cycles.
MdsFollows ==
    \A o \in Onu : invalid[o] = 0 => MibDataSync[o] = acked[o]

\* After one InvalidateMds call the MDS is wrong until the next reset, however
\* many changes follow and wherever the counter wraps.
InvalidationSeen ==
    \A o \in Onu : invalid[o] = 1 => MibDataSync[o] # acked[o]

\* Of maxOmciMsgCounter requests in a row exactly OmciResponseRate are
\* answered, or all of them if the rate is higher.
RateExact ==
    \A o \in Onu : OmciMsgCounter[o] = maxOmciMsgCounter =>
        answered[o] = IF OmciResponseRate < maxOmciMsgCounter
                      THEN OmciResponseRate ELSE maxOmciMsgCounter
===============================================================================
