------------------------------- MODULE MibDb -------------------------------
(* The managed entities of an ONU, in the order in which GenerateMibDatabase
   (src/internal/common/omci/onu_mib_db.go) lists them for a MIB upload.  An
   entry stands for one baseline response: the class and the instance of the
   entity, which of its responses this is, and the bytes its attributes take.
   An entry with a packet of its own (an entity that no client knows, put
   there to test the client) is sent as it is.                              *)
EXTENDS Integers, Sequences, SequencesExt

Tconts == 8
Queues == 8
CardHolder == 1
TcontSlot == 128

\* Which responses report an entity, by the bytes of their attributes: what
\* does not fit in one baseline response is spread over several entries.
Attributes == [OnuData |-> <<1>>, CircuitPack |-> <<24, 7, 24, 4>>, AniG |-> <<21>>,
               PptpEthernet |-> <<17>>, PptpPots |-> <<15>>, UniG |-> <<8>>,
               PriorityQueue |-> <<0, 26>>, TCont |-> <<2>>, TrafficScheduler |-> <<6>>,
               Onu2G |-> <<17>>]
Report(class, instance) ==
  [k \in 1..Len(Attributes[class]) |->
     [class |-> class, instance |-> instance, part |-> k,
      size |-> Attributes[class][k], packet |-> FALSE]]

\* An entry with a packet of its own, 26 bytes of attributes.
Custom(class) == <<[class |-> class, instance |-> <<0, 0>>, part |-> 1, size |-> 26, packet |-> TRUE]>>

\* The instance of a priority queue: its slot, and a byte of owner and priority.
QueueInstance(slot, i, j) == <<slot, (16 * i + j) % 256>>
QueuesOf(slot, i) == FlattenSeq([j \in 1..Queues |-> Report("PriorityQueue", QueueInstance(slot, i, j - 1))])

\* The entities of the ports: Ethernet first, then POTS.
Port(i, uni) ==
     Report(IF i <= uni THEN "PptpEthernet" ELSE "PptpPots", <<CardHolder, i % 256>>)
  \o Report("UniG", <<CardHolder, i % 256>>)
  \o QueuesOf(CardHolder, i)

TcontEntries(i) ==
     Report("TCont", <<TcontSlot, i>>)
  \o Report("TrafficScheduler", <<CardHolder, i>>)
  \o QueuesOf(TcontSlot, i)

\* The ONU itself, its ANI, and one circuit pack per kind of card.
Equipment(c) ==
     Report("OnuData", <<0, 0>>)
  \o Report("CircuitPack", <<CardHolder, CardHolder>>)
  \o Report("AniG", <<TcontSlot, 1>>)
  \o Report("CircuitPack", <<CardHolder, CardHolder>>)
  \o (IF c.pots > 0 THEN Report("CircuitPack", <<CardHolder, CardHolder>>) ELSE <<>>)

\* The baseline items of an ONU with the given ports and test entities.
GenerateMibDatabase(c) ==
     Equipment(c)
  \o FlattenSeq([i \in 1..(c.uni + c.pots) |-> Port(i, c.uni)])
  \o FlattenSeq([i \in 1..Tconts |-> TcontEntries(i)])
  \o (IF c.unknownAttributes THEN Custom("Onu2G") ELSE Report("Onu2G", <<0, 0>>))
  \o (IF c.unknownMe THEN Custom("Unknown") ELSE <<>>)
=============================================================================
