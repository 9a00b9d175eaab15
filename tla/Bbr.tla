-------------------------------- MODULE Bbr --------------------------------
(* The BroadBand Reflector (src/internal/bbr, src/cmd/bbr): a process that plays
   VOLTHA against BBSim.  It activates every ONU that BBSim announces, uploads its
   MIB, enables its first UNI, pushes an EAPOL and a DHCP flow, relays the DHCP
   packets, counts the ONUs that have received their DHCP ack, and when all have,
   asks BBSim for its services and closes the connection.

   ONUs are the numbers 1..N of a PON, in the order of its list.  Both programs
   give ONU o the id o when they create it, and find an ONU by the first one of
   the list that has the id.                                                  *)
EXTENDS Integers, Sequences, FiniteSets, FiniteSetsExt

CONSTANTS
  N,           \* the number of ONUs
  Commands,    \* the number of responses to a MIB upload
  MaxRetry     \* bound on the retries of an announcement

ASSUME NAssumption == N \in Nat \ {0} /\ Commands \in Nat \ {0} /\ MaxRetry \in Nat

Onus == 1..N

VARIABLES
  sim,         \* BBSim: the id and the state of each ONU, what its service has
               \* reached, and the MIB upload commands it was asked
  inbox,       \* BBSim: the channel of each ONU
  stream,      \* the indications of each ONU on their way to BBR
  bbr,         \* BBR: the id and the state of each ONU, its loop, and seqNumber
  channel,     \* BBR: the channel of each ONU
  done,        \* DoneChannel of each ONU, which holds one message
  waiter,      \* the goroutine that waits for it, and what it has read of the counter
  completed,   \* CompletedOnus
  lastId,      \* LastUsedOnuId
  retries,     \* the retries of each ONU, and the ones that are under way
  over,        \* "no", "done", "fatal" or "panic"
  overtaken    \* what has happened, of "order": an ONU was activated before one that
               \* precedes it in the list, "late": an ONU was activated between the
               \* check and the send of a retry, "count": two goroutines counted at
               \* the same time, "slow": BBSim was asked for the services with
               \* packets still on the channels

simvars == <<sim, inbox>>
bbrvars == <<bbr, channel, done, lastId>>
ends == <<waiter, completed>>
history == <<retries, overtaken>>
vars == <<simvars, stream, bbrvars, ends, history, over>>

Overtakes(how, happens) == overtaken' = IF happens THEN overtaken \cup {how} ELSE overtaken

Init ==
  /\ sim = [o \in Onus |-> [id |-> o, state |-> "initialized", eapol |-> FALSE, dhcp |-> FALSE,
                            asked |-> <<>>, set |-> FALSE, port |-> 0]]
  /\ inbox = [o \in Onus |-> <<>>]
  /\ stream = [o \in Onus |-> <<>>]
  /\ bbr = [o \in Onus |-> [id |-> o, state |-> "initialized", loop |-> FALSE, seq |-> 0]]
  /\ channel = [o \in Onus |-> <<>>]
  /\ done = [o \in Onus |-> 0]
  /\ waiter = [o \in Onus |-> [at |-> "none", read |-> 0]]
  /\ completed = 0
  /\ lastId = 0
  /\ retries = [o \in Onus |-> [number |-> 0, checked |-> FALSE]]
  /\ over = "no"
  /\ overtaken = {}

\* Mutant: the last ONU with the id.
GetLastOnuById(side, id) ==
  LET found == {o \in Onus : side[o].id = id} IN IF found = {} THEN 0 ELSE Max(found)

\* PonPort.GetOnuById: the first ONU of the list with the id, 0 for none.
GetOnuById(side, id) ==
  LET found == {o \in Onus : side[o].id = id} IN IF found = {} THEN 0 ELSE Min(found)

Ends(how) ==
  /\ over' = how
  /\ UNCHANGED <<simvars, stream, bbrvars, ends, retries>>
----------------------------------------------------------------------------
(* BBSim.                                                                    *)

\* The ONU is announced.
Discover(o) ==
  /\ over = "no"
  /\ sim[o].state = "initialized"
  /\ sim' = [sim EXCEPT ![o].state = "discovered"]
  /\ stream' = [stream EXCEPT ![o] = Append(@, [type |-> "disc", id |-> 0])]
  /\ UNCHANGED <<inbox, bbrvars, ends, history, over>>

\* sendOnuDiscIndication: an ONU that is still not activated is announced again.
RetryCheck(o) ==
  /\ over = "no"
  /\ sim[o].state = "discovered"
  /\ retries[o].number < MaxRetry
  /\ retries' = [retries EXCEPT ![o] = [number |-> @.number + 1, checked |-> TRUE]]
  /\ UNCHANGED <<simvars, stream, bbrvars, ends, overtaken, over>>

\* The check is not repeated after the sleep.
RetrySend(o) ==
  /\ over = "no"
  /\ retries[o].checked
  /\ Overtakes("late", sim[o].state # "discovered")
  /\ retries' = [retries EXCEPT ![o].checked = FALSE]
  /\ stream' = [stream EXCEPT ![o] = Append(@, [type |-> "disc", id |-> 0])]
  /\ UNCHANGED <<simvars, bbrvars, ends, over>>

\* What an ONU of BBSim sends for a message on its channel; "" for nothing.
ReplyTo == [activated |-> "onuInd", mibReset |-> "mibResetResponse", mibUpload |-> "mibUploadResponse",
            mibUploadNext |-> "mibUploadNextResponse", set |-> "setResponse", alarm |-> "alarm",
            eapolFlow |-> "eapolStart", identityRequest |-> "identityResponse",
            challenge |-> "challengeResponse", success |-> "", dhcpFlow |-> "discover",
            offerOut |-> "request", ackOut |-> ""]
Requests == DOMAIN ReplyTo

Flows == {"eapolFlow", "dhcpFlow"}
UniPackets == {"eapolStart", "identityResponse", "challengeResponse", "discover", "request"}
NniPackets == {"offer", "ack"}
Replies == ({ReplyTo[r] : r \in Requests} \cup NniPackets) \ {""}

\* The id in an indication: a packet of a UNI has the port number of its flow.
IdIn(o, msg) ==
  IF msg.type \in Flows THEN msg.id ELSE IF ReplyTo[msg.type] \in UniPackets THEN sim[o].port ELSE sim[o].id

\* CreateMibUploadNextResponse: a command beyond the last has no answer, the first
\* one beyond it is not told from the last and is read past the end of the MIB.
Beyond(msg) == msg.type = "mibUploadNext" /\ msg.seq >= Commands
ReadsPast(msg) == msg.type = "mibUploadNext" /\ msg.seq = Commands

\* The loop of an ONU: a set request takes the UNI up, which queues an alarm.
Answer(o) ==
  /\ over = "no"
  /\ inbox[o] # <<>>
  /\ LET msg == Head(inbox[o]) IN
     /\ sim' = [sim EXCEPT ![o].eapol = @ \/ msg.type = "success",
                           ![o].dhcp = @ \/ msg.type = "ackOut",
                           ![o].asked = IF msg.type = "mibUploadNext" THEN Append(@, msg.seq) ELSE @,
                           ![o].set = @ \/ msg.type = "set",
                           ![o].port = IF msg.type \in Flows THEN msg.id ELSE @]
     /\ inbox' = [inbox EXCEPT ![o] = IF msg.type = "set"
                                      THEN Append(Tail(@), [type |-> "alarm", from |-> o, id |-> 0, seq |-> 0])
                                      ELSE Tail(@)]
     /\ stream' = [stream EXCEPT ![o] =
          IF ReplyTo[msg.type] = "" \/ Beyond(msg) THEN @
          ELSE Append(@, [type |-> ReplyTo[msg.type], id |-> IdIn(o, msg)])]
     /\ over' = IF ReadsPast(msg) THEN "panic" ELSE over
  /\ UNCHANGED <<bbrvars, ends, history>>

Queue(t, o, type, seq) ==
  inbox' = [inbox EXCEPT ![t] = Append(@, [type |-> type, from |-> o, id |-> bbr[o].id, seq |-> seq])]

\* OmciMsgOut and FlowAdd: the call is for the ONU of BBSim that has the id of o
\* in BBR; BBR ends when there is none.
Call(o, type, seq) ==
  LET t == GetOnuById(sim, bbr[o].id) IN
  IF t = 0 THEN over' = "fatal" /\ UNCHANGED inbox
           ELSE Queue(t, o, type, seq) /\ UNCHANGED over

\* OnuPacketOut: the packet is lost when there is none, or it is not enabled.
PacketOut(o, id, type) ==
  LET t == GetOnuById(sim, id) IN
  /\ IF t # 0 /\ sim[t].state = "enabled" THEN Queue(t, o, type, 0) ELSE UNCHANGED inbox
  /\ UNCHANGED over

\* UplinkPacketOut: the DHCP server on the NNI answers within the call.
UplinkPacketOut(o, type) ==
  stream' = [stream EXCEPT ![o] = Append(@, [type |-> IF type = "discover" THEN "offer" ELSE "ack", id |-> 0])]
----------------------------------------------------------------------------
(* BBR: the goroutine that reads the indications.                            *)

Received(o) == stream' = [stream EXCEPT ![o] = Tail(@)]
Takes(o, types) ==
  /\ over = "no"
  /\ stream[o] # <<>>
  /\ Head(stream[o]).type \in types

\* handleOnuDiscIndication: a new id at every announcement, and ActivateOnu, in
\* which BBSim stores the id before it looks at the state of the ONU.
HandleOnuDiscIndication(o) ==
  /\ Takes(o, {"disc"})
  /\ Overtakes("order", \E p \in 1..(o - 1) : sim[p].state # "enabled")
  /\ lastId' = lastId + 1
  /\ bbr' = [bbr EXCEPT ![o].id = lastId + 1]
  /\ sim' = [sim EXCEPT ![o].id = lastId + 1, ![o].state = "enabled"]
  /\ IF sim[o].state = "discovered"
     THEN inbox' = [inbox EXCEPT ![o] = Append(@, [type |-> "activated", from |-> o, id |-> 0, seq |-> 0])]
     ELSE UNCHANGED inbox
  /\ Received(o)
  /\ UNCHANGED <<channel, done, ends, retries, over>>

\* handleOnuIndication: a loop for the ONU, a goroutine that waits until it is
\* done, and the first OMCI message.
HandleOnuIndication(o) ==
  /\ Takes(o, {"onuInd"})
  /\ bbr' = [bbr EXCEPT ![o].loop = TRUE]
  /\ waiter' = [waiter EXCEPT ![o].at = "waiting"]
  /\ Call(o, "mibReset", 0)
  /\ Received(o)
  /\ UNCHANGED <<sim, channel, done, lastId, completed, history>>

\* handleOmciIndication and handlePktIndication: the ONU is found by the id or
\* the port number; the first does not look whether it was found.
Dispatch(o) ==
  /\ Takes(o, Replies \ {"onuInd"})
  /\ LET ind == Head(stream[o])
         t == IF ind.type \in NniPackets THEN o ELSE GetOnuById(bbr, ind.id)
     IN IF t = 0
        THEN Ends(IF ind.type \in UniPackets THEN "fatal" ELSE "panic") /\ UNCHANGED overtaken
        ELSE /\ channel' = [channel EXCEPT ![t] = Append(@, [type |-> ind.type, from |-> o, id |-> ind.id])]
             /\ Received(o)
             /\ UNCHANGED <<simvars, bbr, done, lastId, ends, history, over>>
----------------------------------------------------------------------------
(* BBR: the loop of an ONU.                                                  *)

Handles(o, types) ==
  /\ over = "no"
  /\ bbr[o].loop
  /\ channel[o] # <<>>
  /\ Head(channel[o]).type \in types
Handled(o) == channel' = [channel EXCEPT ![o] = Tail(@)]

\* Mutant: the callback of the second event queues nothing.
EventWithoutDhcp(o, from, to, message) ==
  IF bbr[o].state = from
  THEN /\ bbr' = [bbr EXCEPT ![o].state = to]
       /\ channel' = [channel EXCEPT ![o] =
            IF message = "sendDhcpFlow" THEN Tail(@) ELSE Append(Tail(@), [type |-> message, from |-> o, id |-> 0])]
  ELSE UNCHANGED bbr /\ channel' = [channel EXCEPT ![o] = Tail(@)]

\* An event of the state machine; its callback queues a message for the loop.
Event(o, from, to, message) ==
  IF bbr[o].state = from
  THEN /\ bbr' = [bbr EXCEPT ![o].state = to]
       /\ channel' = [channel EXCEPT ![o] = Append(Tail(@), [type |-> message, from |-> o, id |-> 0])]
  ELSE UNCHANGED bbr /\ Handled(o)

HandleMibUploadNextResponse(o) ==
  LET seq == bbr[o].seq + 1 IN
  /\ bbr' = [bbr EXCEPT ![o].seq = seq]
  /\ IF seq = Commands THEN Call(o, "set", 0) ELSE Call(o, "mibUploadNext", seq)

HandleOmciResponse(o) ==
  /\ Handles(o, {"mibResetResponse", "mibUploadResponse", "mibUploadNextResponse", "setResponse", "alarm"})
  /\ LET type == Head(channel[o]).type IN
     \/ /\ type = "mibResetResponse"
        /\ Call(o, "mibUpload", 0)
        /\ Handled(o) /\ UNCHANGED bbr
     \/ /\ type = "mibUploadResponse"
        /\ Call(o, "mibUploadNext", bbr[o].seq)
        /\ Handled(o) /\ UNCHANGED bbr
     \/ /\ type = "mibUploadNextResponse"
        /\ HandleMibUploadNextResponse(o)
        /\ Handled(o)
     \/ /\ type = "setResponse"
        /\ Event(o, "initialized", "eapol_flow_sent", "sendEapolFlow")
        /\ UNCHANGED <<inbox, over>>
     \/ /\ type = "alarm"
        /\ Handled(o) /\ UNCHANGED <<bbr, inbox, over>>
  /\ UNCHANGED <<sim, stream, done, lastId, ends, history>>

SendFlow(o) ==
  /\ Handles(o, {"sendEapolFlow", "sendDhcpFlow"})
  /\ Call(o, IF Head(channel[o]).type = "sendEapolFlow" THEN "eapolFlow" ELSE "dhcpFlow", 0)
  /\ Handled(o)
  /\ UNCHANGED <<sim, stream, bbr, done, lastId, ends, history>>

\* eapol.HandleNextPacket: the answer goes to the port number of the packet; the
\* DHCP flow is sent when the success was.
HandleEapol(o) ==
  /\ Handles(o, {"eapolStart", "identityResponse", "challengeResponse"})
  /\ LET msg == Head(channel[o]) IN
     /\ PacketOut(o, msg.id, CASE msg.type = "eapolStart" -> "identityRequest"
                               [] msg.type = "identityResponse" -> "challenge"
                               [] msg.type = "challengeResponse" -> "success")
     /\ IF msg.type = "challengeResponse" /\ GetOnuById(sim, msg.id) # 0
        THEN Event(o, "eapol_flow_sent", "dhcp_flow_sent", "sendDhcpFlow")
        ELSE UNCHANGED bbr /\ Handled(o)
  /\ UNCHANGED <<sim, stream, done, lastId, ends, history>>

\* dhcp.HandleNextBbrPacket: packets of the ONU go to the NNI and packets of the
\* NNI to the ONU; the ack also tells the waiting goroutine.
HandleNextBbrPacket(o) ==
  /\ Handles(o, {"discover", "request", "offer", "ack"})
  /\ LET type == Head(channel[o]).type IN
     /\ \/ /\ type \in {"discover", "request"}
           /\ UplinkPacketOut(o, type)
           /\ UNCHANGED <<inbox, over>>
        \/ /\ type \in NniPackets
           /\ PacketOut(o, bbr[o].id, IF type = "offer" THEN "offerOut" ELSE "ackOut")
           /\ UNCHANGED stream
     /\ type = "ack" => done[o] = 0
     /\ done' = [done EXCEPT ![o] = IF type = "ack" THEN 1 ELSE @]
  /\ Handled(o)
  /\ UNCHANGED <<sim, bbr, lastId, ends, history>>
----------------------------------------------------------------------------
(* BBR: the goroutines that wait for the ONUs.                               *)

Counting == {p \in Onus : waiter[p].at \in {"read", "written"}}

\* CompletedOnus++, a read and a write, and the read of the comparison.
TakeDone(o) ==
  /\ over = "no"
  /\ waiter[o].at = "waiting"
  /\ done[o] = 1
  /\ Overtakes("count", Counting # {})
  /\ done' = [done EXCEPT ![o] = 0]
  /\ waiter' = [waiter EXCEPT ![o] = [at |-> "read", read |-> completed]]
  /\ UNCHANGED <<simvars, stream, bbr, channel, lastId, completed, retries, over>>

WriteCompleted(o) ==
  /\ over = "no"
  /\ waiter[o].at = "read"
  /\ completed' = waiter[o].read + 1
  /\ waiter' = [waiter EXCEPT ![o].at = "written"]
  /\ UNCHANGED <<simvars, stream, bbrvars, history, over>>

\* The goroutine that finds all the ONUs completed validates them; the others
\* end, and with them the loops of their ONUs.
CompareCompleted(o) ==
  /\ over = "no"
  /\ waiter[o].at = "written"
  /\ IF completed = N
     THEN waiter' = [waiter EXCEPT ![o].at = "validating"] /\ UNCHANGED bbr
     ELSE waiter' = [waiter EXCEPT ![o].at = "ended"] /\ bbr' = [bbr EXCEPT ![o].loop = FALSE]
  /\ UNCHANGED <<simvars, stream, channel, done, lastId, completed, history, over>>

\* The goroutine asks BBSim for its services, once, and closes the connection or
\* ends the program.
ValidateAndClose(o) ==
  /\ over = "no"
  /\ waiter[o].at = "validating"
  /\ Overtakes("slow", \E p \in Onus : inbox[p] # <<>>)
  /\ Ends(IF \A p \in Onus : sim[p].eapol /\ sim[p].dhcp THEN "done" ELSE "fatal")
----------------------------------------------------------------------------
ReadIndications(o) == HandleOnuDiscIndication(o) \/ HandleOnuIndication(o) \/ Dispatch(o)
ProcessOnuMessages(o) == HandleOmciResponse(o) \/ SendFlow(o) \/ HandleEapol(o) \/ HandleNextBbrPacket(o)
Waiter(o) == TakeDone(o) \/ WriteCompleted(o) \/ CompareCompleted(o) \/ ValidateAndClose(o)

Next == \E o \in Onus :
  \/ Discover(o) \/ RetryCheck(o) \/ RetrySend(o) \/ Answer(o)
  \/ ReadIndications(o) \/ ProcessOnuMessages(o) \/ Waiter(o)

Spec == Init /\ [][Next]_vars

\* Every ONU is announced, and no goroutine that can run is left behind; a retry
\* need not happen.
FairSpec ==
  /\ Spec
  /\ \A o \in Onus :
       /\ WF_vars(Discover(o))
       /\ WF_vars(Answer(o))
       /\ WF_vars(ReadIndications(o))
       /\ WF_vars(ProcessOnuMessages(o))
       /\ WF_vars(Waiter(o))
----------------------------------------------------------------------------
\* Two ONUs may have had the same id.
Mixed == overtaken \cap {"order", "late"} # {}

Queued == [type : Requests, from : Onus, id : 0..(N + N * MaxRetry),
           seq : 0..(IF Mixed THEN 65535 ELSE Commands)]
Indicated == [type : Replies \cup {"disc"}, id : 0..(N + N * MaxRetry)]

\* The state has its types: in particular no channel ever holds a message of a
\* kind its reader does not know, which in BBR is the end of the program.
TypeOK ==
  /\ \A o \in Onus :
       /\ sim[o].state \in {"initialized", "discovered", "enabled"}
       /\ \A i \in DOMAIN inbox[o] : inbox[o][i] \in Queued
       /\ \A i \in DOMAIN stream[o] : stream[o][i] \in Indicated
       /\ bbr[o].state \in {"initialized", "eapol_flow_sent", "dhcp_flow_sent"}
       /\ bbr[o].seq \in 0..(IF Mixed THEN 65535 ELSE Commands)
       /\ waiter[o].at \in {"none", "waiting", "read", "written", "validating", "ended"}
  /\ done \in [Onus -> 0..1]
  /\ completed \in 0..N
  /\ lastId \in 0..(N + N * MaxRetry)
  /\ over \in {"no", "done", "fatal", "panic"}
  /\ overtaken \subseteq {"order", "late", "count", "slow"}

\* While no id was given twice: what BBR sends for an ONU arrives at that ONU of
\* BBSim, and what an ONU of BBSim sends is handled by the loop of that ONU in BBR,
\* whichever ids the two programs have given it by then (GetOnuById of both); the MIB
\* of an ONU is uploaded whole, one command at a time and in order, before its UNI is
\* enabled (handleOmciResponse); and neither program panics, for want of an ONU
\* (handleOmciIndication tests the error of another call) or past the end of the MIB.
Routed ==
  /\ TypeOK
  /\ ~Mixed => \A o \in Onus :
       /\ \A i \in DOMAIN inbox[o] : inbox[o][i].from = o
       /\ \A i \in DOMAIN channel[o] : channel[o][i].from = o
       /\ sim[o].set => sim[o].asked = [k \in 1..Commands |-> k - 1]
  /\ over = "panic" => Mixed

\* BBR runs to completion (docs/source/bbr.rst), unless two ONUs have had the same
\* id, two goroutines have counted at the same time, or BBSim was asked too early.
Completes == <>(over = "done" \/ overtaken # {})
============================================================================
