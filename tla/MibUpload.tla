----------------------------- MODULE MibUpload -----------------------------
(* How an ONU reports its MIB.  GenerateMibDatabase packs the baseline entries
   into the responses of the extended message format, as many as fit in each,
   and CreateMibUploadResponse and CreateMibUploadNextResponse then serve either
   format to a client that asks for one response after another.

   A database is the list of baseline entries of an ONU (see MibDb); a response is
   the set of the entries in it and its length in bytes, 0 for the nil slice.   *)
EXTENDS Integers, Sequences, FiniteSetsExt

CONSTANT Databases   \* the baseline entries of the ONUs that are tried

\* Of the OMCI library: the two message lengths, the bytes before the first
\* entity of an extended response, and the headers of its entities.
MaxExtendedLength == 1980
MaxBaselineLength == 48
Prefix == 12
FirstHeader == 6
Header == 8
\* The most attribute bytes a baseline response can hold.
MaxAttributes == 26

Entry == [class : STRING, instance : (0..255) \X (0..255), part : Nat,
          size : 0..MaxAttributes, packet : BOOLEAN]

VARIABLES
  baselineItems,
  phase,       \* "pack", "add", "serve" or "panic"
  i,           \* the entries the packing loop has passed
  mes, total,  \* the response being built: its entities and their bytes
  length,      \* outgoingPacketLen, what was serialized so far
  responses,   \* extendedResponses
  client       \* the upload in progress: its format, its length, the commands
               \* answered and the entries received

packing == <<i, mes, total, length, responses>>
vars == <<baselineItems, phase, packing, client>>

Idle == [format |-> "none", number |-> 0, next |-> 0, mes |-> {}]
Entries == 1..Len(baselineItems)
NumberOfBaselineCommands == Len(baselineItems)
NumberOfExtendedCommands == Len(responses)
Ordinary(S) == {k \in S : ~baselineItems[k].packet}
Remaining == (i + 1)..NumberOfBaselineCommands
NextOrdinary == CHOOSE k \in Remaining : ~baselineItems[k].packet /\ Ordinary((i + 1)..(k - 1)) = {}
Size(k) == baselineItems[k].size

Init ==
  /\ baselineItems \in Databases
  /\ phase = "pack"
  /\ i = 0 /\ mes = {} /\ total = 0 /\ length = 0 /\ responses = <<>>
  /\ client = Idle
----------------------------------------------------------------------------
(* GenerateMibDatabase: the extended responses.                              *)

Panic ==
  /\ phase' = "panic"
  /\ UNCHANGED <<baselineItems, packing, client>>

\* The first entity of a response.  Entries with a packet are skipped, here
\* without a look at the end of the list.
StartResponse ==
  /\ phase = "pack"
  /\ i < NumberOfBaselineCommands
  /\ IF Ordinary(Remaining) = {}
     THEN Panic
     ELSE LET k == NextOrdinary IN
          /\ phase' = "add"
          /\ i' = k
          /\ mes' = {k}
          /\ total' = Prefix + FirstHeader + Size(k)
          /\ length' = 0
          /\ UNCHANGED <<baselineItems, responses, client>>

\* Whether the loop that fills the response goes on.
HasRoom == length <= MaxExtendedLength - MaxBaselineLength

\* One more entity, and the response is serialized.
AddMe ==
  /\ phase = "add"
  /\ HasRoom
  /\ Ordinary(Remaining) # {}
  /\ LET k == NextOrdinary IN
     /\ i' = k
     /\ mes' = mes \cup {k}
     /\ total' = total + Header + Size(k)
     /\ length' = total'
  /\ UNCHANGED <<baselineItems, phase, responses, client>>

\* The response is full or the list is at its end; what the last AddMe has
\* serialized becomes the response: nothing, for an entity that is alone in it.
CloseResponse ==
  /\ phase = "add"
  /\ ~HasRoom \/ Ordinary(Remaining) = {}
  /\ i' = IF HasRoom THEN NumberOfBaselineCommands ELSE i
  /\ responses' = Append(responses, [mes |-> IF length = 0 THEN {} ELSE mes, length |-> length])
  /\ phase' = "pack"
  /\ UNCHANGED <<baselineItems, mes, total, length, client>>

\* Mutant: the entries with a packet are left out.
AppendNothing ==
  /\ phase = "pack"
  /\ i = NumberOfBaselineCommands
  /\ phase' = "serve"
  /\ UNCHANGED <<baselineItems, packing, client>>

\* AppendAdditionalMEs: the entries with a packet go to the last response.
AppendAdditionalMEs ==
  /\ phase = "pack"
  /\ i = NumberOfBaselineCommands
  /\ LET custom == Entries \ Ordinary(Entries)
         last == responses[NumberOfExtendedCommands]
     IN responses' = [responses EXCEPT ![NumberOfExtendedCommands] =
          [mes |-> last.mes \cup custom,
           length |-> last.length + MapThenSumSet(LAMBDA k : Header + Size(k), custom)]]
  /\ phase' = "serve"
  /\ UNCHANGED <<baselineItems, i, mes, total, length, client>>
----------------------------------------------------------------------------
(* The requests of a client, answered one at a time by the loop of the ONU.   *)

NumberOfCommands(format) ==
  IF format = "extended" THEN NumberOfExtendedCommands ELSE NumberOfBaselineCommands

\* CreateMibUploadResponse: how many responses there are.
MibUpload(format) ==
  /\ phase = "serve"
  /\ client' = [Idle EXCEPT !.format = format, !.number = NumberOfCommands(format)]
  /\ UNCHANGED <<baselineItems, phase, packing>>

\* The commands the client may ask for now: the next one, the last one again
\* when its answer was lost, or, when it has them all, one that is not there.
Commands ==
  IF client.next < client.number
  THEN {client.next} \cup (IF client.next > 0 THEN {client.next - 1} ELSE {})
  ELSE IF client.format # "none" THEN client.number..(client.number + 1) ELSE {}

\* The entries in the response to a command, which counts from 0.
Response(command) ==
  IF client.format = "extended" THEN responses[command + 1].mes ELSE {command + 1}

\* CreateMibUploadNextResponse: the command just past the end is not refused, and
\* a response that is nil has no transaction id to set.
MibUploadNext(command) ==
  /\ phase = "serve"
  /\ CASE command > NumberOfCommands(client.format) -> UNCHANGED vars
       [] command = NumberOfCommands(client.format) -> Panic
       [] command < NumberOfCommands(client.format) ->
            IF client.format = "extended" /\ responses[command + 1].length = 0
            THEN Panic
            ELSE /\ client' = [client EXCEPT !.next = command + 1,
                                             !.mes = @ \cup Response(command)]
                 /\ UNCHANGED <<baselineItems, phase, packing>>

Next ==
  \/ StartResponse \/ AddMe \/ CloseResponse \/ AppendAdditionalMEs
  \/ \E format \in {"baseline", "extended"} : MibUpload(format)
  \/ \E command \in Commands : MibUploadNext(command)

Spec == Init /\ [][Next]_vars
----------------------------------------------------------------------------
Responses == [mes : SUBSET Entries, length : Nat]

\* The types: the loops that pack never pass the end of the list, and what a
\* response holds are entries of the database (GenerateMibDatabase).
TypeOK ==
  /\ baselineItems \in Seq(Entry)
  /\ phase \in {"pack", "add", "serve", "panic"}
  /\ i \in 0..NumberOfBaselineCommands
  /\ mes \subseteq Entries
  /\ total \in Nat /\ length \in Nat
  /\ responses \in Seq(Responses)
  /\ client \in [format : {"none", "baseline", "extended"}, number : 0..65535, next : 0..65535,
                 mes : SUBSET Entries]

\* The entries that some response, or the one being built, holds.
Packed ==
  UNION {responses[r].mes : r \in DOMAIN responses} \cup (IF phase = "add" THEN mes ELSE {})

\* The last entry begins a response of its own, or has a packet and no response
\* is left to begin: with two Ethernet ports and no POTS port, among others.
LastAlone == Cardinality(mes) = 1 \/ (i < NumberOfBaselineCommands /\ Ordinary(Remaining) = {})

\* The packing loop loses no entry and reports none twice: what it has passed is
\* in exactly one response (GenerateMibDatabase, the loops over i), unless the
\* last one is alone.
EachOnce ==
  (phase = "add" \/ (phase = "pack" /\ ~LastAlone)) =>
    /\ Packed = Ordinary(1..i)
    /\ \A r, s \in DOMAIN responses : r # s => responses[r].mes \cap responses[s].mes = {}
    /\ phase = "add" => \A r \in DOMAIN responses : responses[r].mes \cap mes = {}

\* An extended response that is served is a whole message: its length is the one
\* of the entities in it, and it fits in the longest extended message (the comment
\* before AppendAdditionalMEs, "there is enough space in the last extended
\* response"); not so when the last entry is alone.
ResponseWhole ==
  (phase = "serve" /\ ~LastAlone) =>
    \A r \in DOMAIN responses :
      /\ responses[r].length =
           Prefix + FirstHeader - Header + MapThenSumSet(LAMBDA k : Header + Size(k), responses[r].mes)
      /\ responses[r].length <= MaxExtendedLength

\* The program indexes a slice out of its range only when the last entry is alone,
\* or for a command past the end (GenerateMibDatabase, CreateMibUploadNextResponse):
\* every other command the client was told of is answered, again if need be.
NoPanic == phase = "panic" => LastAlone \/ (client.number > 0 /\ client.next = client.number)

\* A client that has asked for every command it was told of has received the
\* whole MIB, in either format (CreateMibUploadResponse announces the number);
\* only an extended upload whose last entry is alone may miss one.  On the way
\* there GenerateMibDatabase has each entry in one response, and every response is
\* a whole message, and the program does not panic.
UploadComplete ==
  /\ TypeOK /\ EachOnce /\ ResponseWhole
  /\ (client.number > 0 /\ client.next = client.number)
       => client.mes = Entries \/ (LastAlone /\ client.format = "extended")
  /\ NoPanic

=============================================================================
