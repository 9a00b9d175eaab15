----------------------------- MODULE OnuAlarms -----------------------------
(* The OMCI alarms of an ONU (src/internal/bbsim/devices/onu.go, uni_port.go,
   pots_port.go, src/internal/common/omci/alarms.go): a port that goes up or down,
   or a call of the API, queues an alarm on the channel of the ONU; the loop of
   the ONU numbers it, notifies the client and keeps it in onuAlarmsInfo, from
   which a client that audits the ONU reads it back.

   Ports are numbered from 0; port p is instance 257 + p.  The client follows the
   notifications and audits the ONU in the baseline or the extended format.      *)
EXTENDS Integers, Sequences, FiniteSets

CONSTANTS
  Ports,       \* the ports of the ONU, Ethernet ports before POTS ports
  Top,         \* the largest sequence number, 255 in the code (a uint8)
  MaxQueue,    \* bound on the queued alarms (the channel holds 2048)
  MaxDown      \* bound on the times the ONU, or its PON, is disabled

\* Instance 257, of the LOS alarm, is a port.
PortsAssumption ==
  Ports \subseteq Nat /\ 0 \in Ports /\ Top \in Nat \ {0} /\ MaxDown \in Nat

\* The instances an audit looks at: 257 to 260.
Audited == 0..3

VARIABLES
  onu,         \* the ONU: "enabled", "disabling", "disabled" or "pon_disabled"
  up,          \* the ports that are up
  queue,       \* the alarms on the channel
  handling,    \* the alarm that the loop has numbered and not yet sent
  info,        \* onuAlarmsInfo
  client,      \* what the client knows from the notifications
  audit,       \* the audit of the client that goes on
  downs,
  overtaken    \* what has happened, of "lost": an indication could not be sent,
               \* "down": the map was reset with alarms under way or about to come

kept == <<downs, overtaken>>
alarmVars == <<onu, up, queue, handling, info, client, audit, kept>>

Absent == [seq |-> 0, known |-> FALSE, raised |-> FALSE]
Infos == [seq : 0..Top, known : BOOLEAN, raised : BOOLEAN]
None == [port |-> 0, raise |-> FALSE, seq |-> 0]
Alarms == [port : Ports, raise : BOOLEAN]
NoAudit == [format |-> "none", number |-> 0, next |-> 0, found |-> {}, exact |-> TRUE]
Known == {p \in Ports : info[p].known}
Raised == {p \in Ports : info[p].raised}
Idle == handling = None
Fresh == [raised |-> {}, last |-> [p \in Ports |-> 0]]

AlarmInit ==
  /\ onu = "enabled"
  /\ up = {}
  /\ queue = <<>>
  /\ handling = None
  /\ info = [p \in Ports |-> Absent]
  /\ client = Fresh
  /\ audit = NoAudit
  /\ downs = 0
  /\ overtaken = {}

\* An audit that goes on while the alarms change may miss the change.
Changed == audit' = [audit EXCEPT !.exact = (info' = info) /\ @]
----------------------------------------------------------------------------
(* Where alarms come from.                                                   *)

\* UniPort.Enable, called by the loop for a message that unlocks the port: an
\* alarm is never raised by a port that goes up.
Enable(p) ==
  /\ onu = "enabled" /\ Idle
  /\ p \notin up
  /\ Len(queue) < MaxQueue
  /\ up' = up \cup {p}
  /\ queue' = Append(queue, [port |-> p, raise |-> FALSE])
  /\ UNCHANGED <<onu, handling, info, client, audit, kept>>

Disable(p) ==
  /\ onu = "enabled" /\ Idle
  /\ p \in up
  /\ Len(queue) < MaxQueue
  /\ up' = up \ {p}
  /\ queue' = Append(queue, [port |-> p, raise |-> TRUE])
  /\ UNCHANGED <<onu, handling, info, client, audit, kept>>

\* Onu.SendOMCIAlarmNotificationMsg: the LOS alarm of the API is one of port 0.
SetAlarm(raise) ==
  /\ onu = "enabled"
  /\ Len(queue) < MaxQueue
  /\ queue' = Append(queue, [port |-> 0, raise |-> raise])
  /\ UNCHANGED <<onu, up, handling, info, client, audit, kept>>
----------------------------------------------------------------------------
(* The loop of the ONU.                                                      *)

\* Onu.IncrementAlarmSequenceNumber.
NextNumber(seq) == IF seq = Top THEN 1 ELSE seq + 1

TakeAlarm ==
  /\ queue # <<>> /\ Idle
  /\ LET alarm == Head(queue)
         seq == IF info[alarm.port].known THEN NextNumber(info[alarm.port].seq) ELSE 1
     IN /\ handling' = [port |-> alarm.port, raise |-> alarm.raise, seq |-> seq]
        /\ info' = [info EXCEPT ![alarm.port] = [@ EXCEPT !.known = TRUE, !.seq = seq]]
  /\ queue' = Tail(queue)
  /\ Changed
  /\ UNCHANGED <<onu, up, client, kept>>

\* What the client makes of a notification, when it still has the ONU.
Notified(alarm) ==
  IF onu # "enabled" THEN client
  ELSE [raised |-> IF alarm.raise THEN client.raised \cup {alarm.port} ELSE client.raised \ {alarm.port},
        last |-> [client.last EXCEPT ![alarm.port] = alarm.seq]]

\* Mutant: a number that was not sent is used up.
KeptAnyway(entry, sent) == entry.seq
\* The number an entry keeps: the one of an alarm that was not sent is taken back.
Kept(entry, sent) == IF sent THEN entry.seq ELSE (entry.seq - 1) % (Top + 1)

\* Mutant: an alarm that is cleared stays in the map.
EntryStays(alarm, entry, sent) == [seq |-> Kept(entry, sent), known |-> TRUE, raised |-> TRUE]
\* An alarm that is cleared leaves the map, whether or not the client was told.
EntryOf(alarm, entry, sent) ==
  IF alarm.raise THEN [seq |-> Kept(entry, sent), known |-> TRUE, raised |-> TRUE] ELSE Absent

\* The rest of the UniStatusAlarm case of ProcessOnuMessages, under the lock that
\* IncrementAlarmSequenceNumber has released in between.
SendAlarm(sent) ==
  /\ ~Idle
  /\ overtaken' = IF sent THEN overtaken ELSE overtaken \cup {"lost"}
  /\ info' = [info EXCEPT ![handling.port] = EntryOf(handling, @, sent)]
  /\ client' = IF sent THEN Notified(handling) ELSE client
  /\ handling' = None
  /\ Changed
  /\ UNCHANGED <<onu, up, queue, downs>>
----------------------------------------------------------------------------
(* The audit: the cases GetAllAlarms and GetAllAlarmsNext of handleOmciRequest. *)

\* The numbers start again with an audit.
NumbersReset == [p \in Ports |-> [info[p] EXCEPT !.seq = 0]]

GetAllAlarms(format) ==
  /\ onu = "enabled" /\ Idle
  /\ info' = NumbersReset
  /\ audit' = [format |-> format, number |-> Cardinality(Known \cap Audited), next |-> 0,
               found |-> {}, exact |-> TRUE]
  /\ client' = [client EXCEPT !.last = [p \in Ports |-> 0]]
  /\ UNCHANGED <<onu, up, queue, handling, kept>>

\* Mutant: the commands count from 1.
ReportedBefore(command) == {command - 1}
\* CreateGetAllAlarmsNextResponse: a command asks for one instance; the first one
\* of an extended audit brings the others along.  There is no answer for an
\* instance that has no alarm, and the client gives the audit up.
Reported(command) ==
  IF audit.format = "extended" /\ command = 0 THEN Known \cap Audited ELSE {command}

GetAllAlarmsNext ==
  /\ onu = "enabled" /\ Idle
  /\ audit.next < audit.number
  /\ audit' = IF audit.next \in Known
              THEN [audit EXCEPT !.next = @ + 1,
                                 !.found = @ \cup (Reported(audit.next) \cap Raised)]
              ELSE [audit EXCEPT !.format = "failed", !.number = audit.next]
  /\ UNCHANGED <<onu, up, queue, handling, info, client, kept>>
----------------------------------------------------------------------------
(* The ONU, or its PON, is disabled and enabled again.                       *)

\* Onu.cleanupOnuState, as far as the alarms go; coming is the set of the ports
\* that are taken down next.
Cleanup(coming) ==
  /\ downs < MaxDown
  /\ downs' = downs + 1
  /\ info' = [p \in Ports |-> Absent]
  /\ client' = Fresh
  /\ audit' = NoAudit
  /\ overtaken' = IF queue = <<>> /\ Idle /\ coming = {} THEN overtaken ELSE overtaken \cup {"down"}
  /\ UNCHANGED <<up, queue, handling>>

\* enter_disabled: the clean-up, then every port goes down and queues its alarm,
\* then the channel is closed; the loop drains what is on it.
DisableOnu ==
  /\ onu = "enabled"
  /\ onu' = "disabling"
  /\ Cleanup(up)

DisableUni(p) ==
  /\ onu = "disabling"
  /\ p \in up /\ \A q \in up : p <= q
  /\ up' = up \ {p}
  /\ queue' = Append(queue, [port |-> p, raise |-> TRUE])
  /\ UNCHANGED <<onu, handling, info, client, audit, kept>>

CloseChannel ==
  /\ onu = "disabling"
  /\ up = {}
  /\ onu' = "disabled"
  /\ UNCHANGED <<up, queue, handling, info, client, audit, kept>>

\* enter_pon_disabled: the clean-up alone; the ports stay up.
DisablePon ==
  /\ onu = "enabled"
  /\ onu' = "pon_disabled"
  /\ Cleanup({})

\* The ONU is discovered and activated again, with a channel and a loop of its
\* own, after the old loop is done (see OnuChannel for when it is not).
EnableOnu ==
  /\ onu \in {"disabled", "pon_disabled"}
  /\ queue = <<>> /\ Idle
  /\ onu' = "enabled"
  /\ UNCHANGED <<up, queue, handling, info, client, audit, kept>>

AlarmNext ==
  \/ \E p \in Ports : Enable(p) \/ Disable(p) \/ DisableUni(p)
  \/ \E raise \in BOOLEAN : SetAlarm(raise)
  \/ TakeAlarm
  \/ \E sent \in BOOLEAN : SendAlarm(sent)
  \/ \E format \in {"baseline", "extended"} : GetAllAlarms(format)
  \/ GetAllAlarmsNext
  \/ DisableOnu \/ CloseChannel \/ DisablePon \/ EnableOnu

AlarmSpec == AlarmInit /\ [][AlarmNext]_alarmVars
----------------------------------------------------------------------------
\* The types: in particular a number that is sent is never 0, which the code
\* keeps for "no number yet" (IncrementAlarmSequenceNumber wraps to 1).
AlarmTypeOK ==
  /\ onu \in {"enabled", "disabling", "disabled", "pon_disabled"}
  /\ up \subseteq Ports
  /\ queue \in Seq(Alarms)
  /\ handling \in [port : Ports, raise : BOOLEAN, seq : 1..Top] \cup {None}
  /\ info \in [Ports -> Infos]
  /\ client \in [raised : SUBSET Ports, last : [Ports -> 0..Top]]
  /\ audit \in [format : {"none", "baseline", "extended", "failed"}, number : 0..4, next : 0..4,
                found : SUBSET Ports, exact : BOOLEAN]
  /\ downs \in 0..MaxDown
  /\ overtaken \subseteq {"lost", "down"}

\* A client that has heard every notification knows the alarms the ONU keeps,
\* between two messages of the loop (the UniStatusAlarm case keeps the map and the
\* notifications together), and so does a client that meets the ONU again after it
\* was disabled with no alarm under way.  A disabled ONU keeps no alarm ("reset
\* everything on onu disable" in cleanupOnuState), if none was under way, or queued
\* by its ports, at the reset.
Agreement ==
  /\ AlarmTypeOK
  /\ (onu = "enabled" /\ Idle /\ overtaken = {}) => client.raised = Raised
  /\ (onu \in {"disabled", "pon_disabled"} /\ "down" \notin overtaken) => Known = {}

\* The numbers that reach the client have no gap: a notification that was not
\* sent does not use a number up, so a client that counts them never believes
\* that one was lost between the ONU and the OLT (alarmInfo.SequenceNo--), unless
\* the ONU was disabled with alarms under way.
NoGap ==
  [][\A p \in Ports :
       "down" \in overtaken \/
       client'.last[p] \in {client.last[p], 0, 1, NextNumber(client.last[p])}]_alarmVars

\* An audit that was answered to its end, with no alarm in between, has found
\* every alarm of the four instances, whichever format it used
\* (CreateGetAllAlarmsNextResponse), whatever was lost or reset before.
AuditExact ==
  (audit.format \in {"baseline", "extended"} /\ audit.next = audit.number /\ audit.exact)
    => audit.found = Raised \cap Audited
=============================================================================
