------------------------------ MODULE MCOnuMib ------------------------------
(***************************************************************************)
(* The MIB of an ONU, in two parts that share no variable: what VOLTHA      *)
(* configures in it (OnuMib), for two ONUs, and how it is uploaded           *)
(* (MibUpload), for the databases of several configurations (MibDb).  A      *)
(* behaviour is one of either part.                                          *)
(***************************************************************************)
EXTENDS OnuMib, MibDb, FiniteSets, TLC

CONSTANTS o1, o2, Unis, Pots, UnknownAttributes, UnknownMe

VARIABLES part, baselineItems, phase, passed, mes, total, length, responses, client

MCOnu == {o1, o2}
MCSymmetry == Permutations(MCOnu)

\* One database per configuration: the number of ports of each kind, and whether
\* the two kinds of test entities are injected.
MCDatabases ==
  {GenerateMibDatabase(c) :
     c \in [uni : Unis, pots : Pots, unknownAttributes : UnknownAttributes,
           unknownMe : UnknownMe]}

U == INSTANCE MibUpload WITH Databases <- MCDatabases, i <- passed

\* The commands are counted in 16 bits, and the first entry is the ONU data.
ASSUME DatabasesFit ==
  \A db \in MCDatabases : db \in Seq(U!Entry) /\ Len(db) \in 1..65535 /\ ~db[1].packet

\* The instances of the classes that have several are told apart by their ids:
\* the byte that holds a port and a priority does not confuse two queues.
ASSUME InstancesDistinct ==
  \A db \in MCDatabases :
    \A class \in {"PptpEthernet", "PptpPots", "UniG", "PriorityQueue", "TCont", "TrafficScheduler"} :
      LET K == {k \in DOMAIN db : db[k].class = class}
      IN \A k, l \in K : (db[k].instance = db[l].instance /\ db[k].part = db[l].part) => k = l

uploadVars == <<baselineItems, phase, passed, mes, total, length, responses, client>>
mcVars == <<vars, uploadVars, part>>

MCInit ==
  \/ part = "configure" /\ Init
     /\ baselineItems = <<>> /\ phase = "pack" /\ passed = 0 /\ mes = {} /\ total = 0
     /\ length = 0 /\ responses = <<>> /\ client = U!Idle
  \/ part = "upload" /\ Init /\ U!Init

\* A program that has panicked stays as it is.
MCNext ==
  /\ UNCHANGED part
  /\ \/ part = "configure" /\ Next /\ UNCHANGED uploadVars
     \/ part = "upload" /\ U!Next /\ UNCHANGED vars
     \/ part = "upload" /\ phase = "panic" /\ UNCHANGED <<vars, uploadVars>>

MCSpec == MCInit /\ [][MCNext]_mcVars

\* A client that asks for every command receives the whole MIB (see MibUpload).
UploadComplete == U!UploadComplete
=============================================================================
