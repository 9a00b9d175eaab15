------------------------------ MODULE Service ------------------------------
(***************************************************************************)
(* A subscriber service of a UNI port: its EAPOL and DHCP clients.         *)
(*                                                                         *)
(* Each client is a looplab/fsm machine.  The event that starts it sends a *)
(* message on the unbuffered service.Channel from its before_ callback,    *)
(* that is, while it holds the machine's eventMu and reads its stateMu;    *)
(* HandleChannel receives the message, sends the first packet and fires    *)
(* the event `sent'.  HandlePackets answers what VOLTHA sends.  Every      *)
(* attempt starts a goroutine that fails it after a while, and may start   *)
(* another.  Enabling the UNI makes the channels and the two goroutines;   *)
(* disabling it resets the machines and closes the channels.               *)
(***************************************************************************)
EXTENDS Naturals, FiniteSets, DeviceFsm

CONSTANTS
    Protocols,    \* the clients the service needs, among "eapol" and "dhcp"
    Retry,        \* common.Config.BBSim.AuthRetry and DhcpRetry
    MaxStart,     \* bound on the attempts
    MaxEpoch      \* bound on how often the UNI is enabled

ASSUME ServiceAssumption ==
    /\ Protocols \subseteq {"eapol", "dhcp"}
    /\ Retry \in BOOLEAN
    /\ {MaxStart, MaxEpoch} \subseteq Nat

VARIABLES
    uni,        \* UniPort.OperState
    control,    \* how far the enter_up or enter_down callback of the UNI is
    internal,   \* Service.InternalState
    state,      \* Service.EapolState and DHCPState
    channel,    \* Service.Channel and PacketCh: the epoch that made them, 0 = nil
    epoch,      \* how often the channels were made
    open,       \* the epochs whose channels are not closed
    onu, api,   \* the client that the ONU loop, and the API, is starting
    start,      \* per client, the start event that holds eventMu
    loop,       \* per epoch, what HandleChannel does
    packet,     \* per enabling of the UNI, what its HandlePackets forwards
    handler,    \* per epoch, what HandlePackets does
    timer,      \* per client and attempt, the goroutine of enter_started
    attempts,   \* attempts so far
    sent,       \* per client, what the present attempt has sent to VOLTHA
    panicked,   \* a goroutine sent on a closed channel
    overtaken   \* history: what did not wait for a handler to return

device == <<uni, control, internal, channel, epoch, open>>
clients == <<state, start, timer, attempts, sent>>
vars == <<device, clients, onu, api, loop, packet, handler, panicked, overtaken>>

Clients == {"eapol", "dhcp"}
Epochs == 1..MaxEpoch
Attempts == 1..MaxStart

---------------------------------------------------------------------------
(* The two machines.                                                       *)

\* Mutant: success is accepted before the challenge was answered.
EapolTxShort ==
    [start     |-> Tx({"created", "success_received", "auth_failed"}, "auth_started"),
     sent      |-> Tx({"auth_started"}, "start_sent"),
     identity  |-> Tx({"start_sent"}, "identity_sent"),
     challenge |-> Tx({"identity_sent"}, "challenge_sent"),
     success   |-> Tx({"identity_sent", "challenge_sent"}, "success_received"),
     fail      |-> Tx({"auth_started", "start_sent", "identity_sent",
                       "challenge_sent"}, "auth_failed")]

EapolTx ==
    [start     |-> Tx({"created", "success_received", "auth_failed"}, "auth_started"),
     sent      |-> Tx({"auth_started"}, "start_sent"),
     identity  |-> Tx({"start_sent"}, "identity_sent"),
     challenge |-> Tx({"identity_sent"}, "challenge_sent"),
     success   |-> Tx({"challenge_sent"}, "success_received"),
     fail      |-> Tx({"auth_started", "start_sent", "identity_sent",
                       "challenge_sent"}, "auth_failed")]

DhcpTx ==
    [start     |-> Tx({"created", "ack_received", "dhcp_failed"}, "dhcp_started"),
     sent      |-> Tx({"dhcp_started"}, "discovery_sent"),
     offer     |-> Tx({"discovery_sent"}, "request_sent"),
     ack       |-> Tx({"request_sent"}, "ack_received"),
     fail      |-> Tx({"dhcp_started", "discovery_sent", "request_sent"},
                      "dhcp_failed")]

Table(p) == IF p = "eapol" THEN EapolTx ELSE DhcpTx
Done(p) == IF p = "eapol" THEN "success_received" ELSE "ack_received"
Failed(p) == IF p = "eapol" THEN "auth_failed" ELSE "dhcp_failed"
States(p) == {"created"} \cup {Table(p)[e].dst : e \in DOMAIN Table(p)}

\* What VOLTHA sends to the client; all but the last are answered.
Messages == [p \in Clients |-> DOMAIN Table(p) \ {"start", "sent", "fail"}]
Requests(p) == Messages[p]
Answered(p) == Requests(p) \ {"success", "ack"}

\* What a goroutine does for client p, how far it is, and about which packet.
None == [client |-> "none", at |-> "idle", what |-> "none"]
Doing(p, at, what) == [client |-> p, at |-> at, what |-> what]
GoOn(job, at) == Doing(job.client, at, job.what)

NoPacket == [client |-> "none", what |-> "none", on |-> 0]
Stuck == [NoPacket EXCEPT !.what = "any"]

Free == [at |-> "free", by |-> "none", on |-> 0]

\* No timer is between its wait and the end of the events it fires.
TimersWait ==
    \A p \in Clients, k \in Attempts : timer[p][k] \notin {"expired", "retry"}

\* No goroutine of the service is in the middle of something (one that sends
\* on a nil channel never does anything again).
Quiet ==
    /\ onu = "idle" /\ api = "idle" /\ control = "idle"
    /\ \A f \in Epochs : packet[f].on = 0
    /\ \A p \in Clients : start[p] = Free \/ (start[p].at = "send" /\ start[p].on = 0)
    /\ \A e \in Epochs : loop[e] = None /\ handler[e] = None
    /\ TimersWait

Overtakers ==
    {"enable", "disable", "restart", "flow", "timer", "reconnection", "packet"}

\* Something happens while the service is in the middle of something else,
\* once in a behaviour: what follows is the end of what had been started.
Overtakes(who, orderly) ==
    /\ orderly \/ overtaken = "nothing"
    /\ overtaken' = IF orderly THEN overtaken ELSE who

Init ==
    /\ uni = "down" /\ control = "idle" /\ internal = "created"
    /\ state = [p \in Clients |-> "created"]
    /\ channel = 0 /\ epoch = 0 /\ open = {}
    /\ onu = "idle" /\ api = "idle"
    /\ start = [p \in Clients |-> Free]
    /\ loop = [e \in Epochs |-> None]
    /\ packet = [f \in Epochs |-> NoPacket]
    /\ handler = [e \in Epochs |-> None]
    /\ timer = [p \in Clients |-> [k \in Attempts |-> "none"]]
    /\ attempts = 0
    /\ sent = [p \in Clients |-> {}]
    /\ panicked = FALSE /\ overtaken = "nothing"

---------------------------------------------------------------------------
(* FSM.Event for the events without a blocking callback: it waits for      *)
(* eventMu, and an event that the table does not allow changes nothing.    *)

Event(p, event) ==
    /\ start[p] = Free
    /\ state' = [state EXCEPT ![p] = After(Table(p), event, @)]

Can(p, event) == Fires(Table(p), event, state[p])

\* What a failed attempt has sent counts for nothing.
Fail(p) ==
    /\ Event(p, "fail")
    /\ sent' = [sent EXCEPT ![p] = IF Can(p, "fail") THEN {} ELSE @]

---------------------------------------------------------------------------
(* The UNI goes up and down, under its eventMu.                            *)

UniEnable ==
    /\ uni = "down" /\ control = "idle" /\ onu = "idle"
    /\ epoch < MaxEpoch
    /\ Overtakes("enable", Quiet)
    /\ uni' = "up" /\ control' = "initialize"
    /\ UNCHANGED <<internal, channel, epoch, open, clients, onu, api, loop,
                   packet, handler, panicked>>

\* Mutant: the channels are not made again.
InitializeOnce ==
    /\ control = "initialize"
    /\ control' = "idle"
    /\ internal' = "initialized"
    /\ epoch' = epoch + 1
    /\ channel' = IF epoch = 0 THEN 1 ELSE channel
    /\ open' = open \cup {epoch + 1}
    /\ UNCHANGED <<uni, clients, onu, api, loop, packet, handler, panicked, overtaken>>

Initialize ==
    /\ control = "initialize"
    /\ control' = "idle"
    /\ internal' = "initialized"
    /\ epoch' = epoch + 1
    /\ channel' = epoch + 1
    /\ open' = open \cup {epoch + 1}
    /\ UNCHANGED <<uni, clients, onu, api, loop, packet, handler, panicked, overtaken>>

UniDisable ==
    /\ uni = "up" /\ control = "idle"
    /\ Overtakes("disable", Quiet)
    /\ uni' = "down" /\ control' = "eapol" /\ internal' = "disabled"
    /\ UNCHANGED <<channel, epoch, open, clients, onu, api, loop, packet,
                   handler, panicked>>

\* Mutant: the EAPOL machine keeps its state.
ResetDhcpOnly ==
    /\ control \in Clients
    /\ start[control].at # "send"
    /\ state' = [state EXCEPT !["dhcp"] = "created"]
    /\ sent' = [sent EXCEPT !["dhcp"] = {}]
    /\ control' = IF control = "eapol" THEN "dhcp" ELSE "close"
    /\ UNCHANGED <<uni, internal, channel, epoch, open, start, timer,
                   attempts, onu, api, loop, packet, handler,
                   panicked, overtaken>>

\* SetState takes stateMu, which a start event reads until it has sent its
\* message.
ResetStates ==
    /\ control \in Clients
    /\ start[control].at # "send"
    /\ state' = [state EXCEPT ![control] = "created"]
    /\ sent' = [sent EXCEPT ![control] = IF start[control] = Free THEN {} ELSE @]
    /\ control' = IF control = "eapol" THEN "dhcp" ELSE "close"
    /\ UNCHANGED <<uni, internal, channel, epoch, open, start, timer,
                   attempts, onu, api, loop, packet, handler,
                   panicked, overtaken>>

\* Whoever is blocked sending on a channel that is closed panics.
CloseChannels ==
    /\ control = "close"
    /\ open' = open \ {channel}
    /\ control' = "nil"
    /\ panicked' = \/ panicked
                   \/ \E p \in Clients : start[p].at = "send" /\ start[p].on = channel
                   \/ \E f \in Epochs : packet[f].on = channel
    /\ UNCHANGED <<uni, internal, channel, epoch, clients, onu, api, loop,
                   packet, handler, overtaken>>

NilChannels ==
    /\ control = "nil"
    /\ channel' = 0
    /\ control' = "idle"
    /\ UNCHANGED <<uni, internal, epoch, open, clients, onu, api, loop,
                   packet, handler, panicked, overtaken>>

---------------------------------------------------------------------------
(* Starting a client: HandleAuth and HandleDhcp in the loop of the ONU,    *)
(* RestartEapol and RestartDhcp of the API, and the retry of a timer.      *)

HandleFlow(p) ==
    /\ p \in Protocols
    /\ onu = "idle" /\ control # "initialize"
    /\ attempts < MaxStart
    /\ Overtakes("flow", internal = "initialized" /\ Quiet)
    /\ onu' = p
    /\ attempts' = attempts + 1
    /\ UNCHANGED <<device, state, start, timer, sent, api, loop,
                   packet, handler, panicked>>

HandleAuth == HandleFlow("eapol")
HandleDhcp == HandleFlow("dhcp")

ApiRestart(p) ==
    /\ p \in Protocols
    /\ api = "idle" /\ uni = "up"
    /\ attempts < MaxStart
    /\ Overtakes("restart", Quiet)
    /\ api' = p
    /\ attempts' = attempts + 1
    /\ UNCHANGED <<device, state, start, timer, sent, onu, loop,
                   packet, handler, panicked>>

\* Only one of the two looks whether the service is initialized.
RestartEapol == internal = "initialized" /\ ApiRestart("eapol")
RestartDhcp == ApiRestart("dhcp")

\* Current() of the machine is not the last state when time.After fires.
TimerExpires(p, k) ==
    /\ timer[p][k] = "armed"
    /\ state[p] # Done(p)
    /\ Overtakes("timer", Quiet)
    /\ timer' = [timer EXCEPT ![p][k] = "expired"]
    /\ UNCHANGED <<device, state, start, attempts, sent, onu, api,
                   loop, packet, handler, panicked>>

Current(p) == Cardinality({k \in Attempts : timer[p][k] # "none"})

TimerFails(p, k) ==
    /\ timer[p][k] = "expired"
    /\ Fail(p)
    /\ LET again == Retry /\ attempts < MaxStart IN
       /\ timer' = [timer EXCEPT ![p][k] = IF again THEN "retry" ELSE "done"]
       /\ attempts' = IF again THEN attempts + 1 ELSE attempts
    /\ UNCHANGED <<device, start, onu, api, loop, packet, handler,
                   panicked, overtaken>>

\* Enable cancels the enableContext that every waiting timer listens to.  In a
\* behaviour with a reconnection nothing else is out of order.
CancelTimers ==
    /\ Overtakes("reconnection", FALSE)
    /\ timer' = [p \in Clients |-> [k \in Attempts |->
                     IF timer[p][k] = "armed" THEN "cancelled" ELSE timer[p][k]]]
    /\ UNCHANGED <<device, state, start, attempts, sent, onu, api,
                   loop, packet, handler, panicked>>

Return(by) ==
    /\ onu' = IF by = "onu" THEN "idle" ELSE onu
    /\ api' = IF by = "api" THEN "idle" ELSE api

\* The start event takes eventMu.  If the machine may start, its before_
\* callback evaluates service.Channel and blocks on it, for good if it is nil.
Begin(by, p) ==
    /\ start[p] = Free
    /\ IF Can(p, "start")
       THEN /\ start' = [start EXCEPT ![p] = [at |-> "send", by |-> by, on |-> channel]]
            /\ panicked' = (panicked \/ (channel # 0 /\ channel \notin open))
            /\ UNCHANGED <<onu, api>>
       ELSE Return(by) /\ UNCHANGED <<start, panicked>>
    /\ UNCHANGED <<device, state, attempts, sent, loop, packet, handler, overtaken>>

StartByOnu(p) == onu = p /\ Begin("onu", p) /\ UNCHANGED timer
StartByApi(p) == api = p /\ Begin("api", p) /\ UNCHANGED timer

StartByTimer(p, k) ==
    /\ timer[p][k] = "retry"
    /\ Begin("timer", p)
    /\ timer' = [timer EXCEPT ![p][k] = "done"]

\* HandleChannel takes the message.
Receive(p, e) ==
    /\ start[p].at = "send" /\ start[p].on = e
    /\ e \in open /\ loop[e] = None
    /\ start' = [start EXCEPT ![p].at = "move"]
    /\ loop' = [loop EXCEPT ![e] = Doing(p, "send", "sent")]
    /\ sent' = [sent EXCEPT ![p] = {}]
    /\ UNCHANGED <<device, state, timer, attempts, onu, api, packet,
                   handler, panicked, overtaken>>

\* The machine moves, enter_started starts a timer, eventMu is released.
Move(p) ==
    /\ start[p].at = "move"
    /\ state' = [state EXCEPT ![p] = Table(p).start.dst]
    /\ timer' = [timer EXCEPT ![p][Current(p) + 1] = "armed"]
    /\ start' = [start EXCEPT ![p] = Free]
    /\ Return(start[p].by)
    /\ UNCHANGED <<device, attempts, sent, loop, packet, handler, panicked, overtaken>>

---------------------------------------------------------------------------
(* HandleChannel: SendEapStart and SendDHCPDiscovery.                      *)

Goto(e, at) == loop' = [loop EXCEPT ![e] = GoOn(@, at)]

SendFirst(e) ==
    LET p == loop[e].client IN
    /\ loop[e].at = "send"
    /\ \/ Goto(e, "event") /\ sent' = [sent EXCEPT ![p] = @ \cup {"sent"}]
       \/ Goto(e, "fail") /\ UNCHANGED sent
    /\ UNCHANGED <<device, state, start, timer, attempts, onu, api,
                   packet, handler, panicked, overtaken>>

FirstSent(e) ==
    LET p == loop[e].client IN
    /\ loop[e].at = "event"
    /\ Event(p, "sent")
    /\ IF Can(p, "sent") THEN loop' = [loop EXCEPT ![e] = None]
                         ELSE Goto(e, "refail")
    /\ UNCHANGED <<device, start, timer, attempts, sent, onu, api,
                   packet, handler, panicked, overtaken>>

SendEapStart(e) == loop[e].client = "eapol" /\ (SendFirst(e) \/ FirstSent(e))
SendDHCPDiscovery(e) == loop[e].client = "dhcp" /\ (SendFirst(e) \/ FirstSent(e))

\* The responder fails the machine, and HandleChannel fails it once more.
FirstFailed(e) ==
    /\ loop[e].at \in {"fail", "refail"}
    /\ Fail(loop[e].client)
    /\ IF loop[e].at = "fail" THEN Goto(e, "refail")
                              ELSE loop' = [loop EXCEPT ![e] = None]
    /\ UNCHANGED <<device, start, timer, attempts, onu, api,
                   packet, handler, panicked, overtaken>>

---------------------------------------------------------------------------
(* Packets from VOLTHA.  Every enabling of the UNI starts one more          *)
(* UniPort.HandlePackets, and all of them receive from the one channel of  *)
(* the UNI and forward to service.PacketCh, for good if it is nil;         *)
(* HandlePackets hands the packets to the responders.                      *)

\* VOLTHA answers: a client that was never started gets no packet.  The first
\* forwarder that is free stands for any, and the loop of the ONU, from which
\* the packet comes, is not enabling the UNI.
Forward(p, r) ==
    LET free == {f \in 1..epoch : packet[f] = NoPacket} IN
    /\ onu = "idle" /\ control # "initialize" /\ free # {}
    /\ "sent" \in sent[p] \/ Current(p) > 0
    /\ Overtakes("packet", /\ internal = "initialized" /\ control = "idle"
                           /\ \A f \in Epochs : packet[f].on = 0
                           /\ TimersWait)
    /\ LET first == CHOOSE f \in free : \A g \in free : f <= g
       IN  packet' = [packet EXCEPT ![first] = IF channel = 0 THEN Stuck
                                               ELSE [client |-> p, what |-> r, on |-> channel]]
    /\ panicked' = (panicked \/ (channel # 0 /\ channel \notin open))
    /\ UNCHANGED <<device, clients, onu, api, loop, handler>>

Take(f, e) ==
    /\ packet[f].on = e /\ e \in open /\ handler[e] = None
    /\ handler' = [handler EXCEPT ![e] = Doing(packet[f].client, "check", packet[f].what)]
    /\ packet' = [packet EXCEPT ![f] = NoPacket]
    /\ UNCHANGED <<device, clients, onu, api, loop, panicked, overtaken>>

\* EAPOL drops a packet its state does not expect and fails the machine,
\* unless it is done or failed already.
CheckEapol(e) ==
    LET r == handler[e].what IN
    /\ handler[e].client = "eapol" /\ handler[e].at = "check"
    /\ handler' = [handler EXCEPT ![e] =
           IF Can("eapol", r)
           THEN Doing("eapol", IF r = "success" THEN "event" ELSE "send", r)
           ELSE IF state["eapol"] \in {Done("eapol"), Failed("eapol")} THEN None
           ELSE Doing("eapol", "refail", r)]
    /\ UNCHANGED <<device, clients, onu, api, loop, packet, panicked, overtaken>>

\* DHCP answers an offer whatever its state is.
CheckDhcp(e) ==
    /\ handler[e].client = "dhcp" /\ handler[e].at = "check"
    /\ handler' = [handler EXCEPT ![e] = GoOn(@, IF @.what = "ack" THEN "event" ELSE "send")]
    /\ UNCHANGED <<device, clients, onu, api, loop, packet, panicked, overtaken>>

Answer(e, failing) ==
    LET p == handler[e].client
        r == handler[e].what IN
    /\ handler[e].at = "send"
    /\ \/ /\ handler' = [handler EXCEPT ![e] = GoOn(@, "event")]
          /\ sent' = [sent EXCEPT ![p] = @ \cup {r}]
       \/ handler' = [handler EXCEPT ![e] = GoOn(@, failing)] /\ UNCHANGED sent
    /\ UNCHANGED <<device, state, start, timer, attempts, onu, api,
                   loop, packet, panicked, overtaken>>

sendEapolPktIn(e) == handler[e].client = "eapol" /\ Answer(e, "refail")
sendDHCPRequest(e) == handler[e].client = "dhcp" /\ Answer(e, "fail")

Replied(e) ==
    /\ handler[e].at = "event"
    /\ Event(handler[e].client, handler[e].what)
    /\ handler' = [handler EXCEPT ![e] = None]
    /\ UNCHANGED <<device, start, timer, attempts, sent, onu, api,
                   loop, packet, panicked, overtaken>>

\* sendDHCPRequest fails the machine, and HandleNextPacket fails it again.
AnswerFailed(e) ==
    /\ handler[e].at \in {"fail", "refail"}
    /\ Fail(handler[e].client)
    /\ handler' = [handler EXCEPT ![e] =
           IF @.at = "fail" THEN GoOn(@, "refail") ELSE None]
    /\ UNCHANGED <<device, start, timer, attempts, onu, api,
                   loop, packet, panicked, overtaken>>

---------------------------------------------------------------------------

Starts(p) ==
    \/ StartByOnu(p) \/ StartByApi(p) \/ Move(p)
    \/ \E k \in Attempts : StartByTimer(p, k)
    \/ \E e \in Epochs : Receive(p, e)

Works(e) ==
    \/ SendEapStart(e) \/ SendDHCPDiscovery(e) \/ FirstFailed(e)
    \/ \E f \in Epochs : Take(f, e)
    \/ CheckEapol(e) \/ CheckDhcp(e)
    \/ sendEapolPktIn(e) \/ sendDHCPRequest(e) \/ Replied(e) \/ AnswerFailed(e)

\* A panic ends the process.
Next ==
    /\ ~panicked
    /\ \/ UniEnable \/ Initialize \/ UniDisable \/ ResetStates
       \/ CloseChannels \/ NilChannels \/ CancelTimers
       \/ HandleAuth \/ HandleDhcp \/ RestartEapol \/ RestartDhcp
       \/ \E p \in Protocols :
            \/ Starts(p)
            \/ \E r \in Requests(p) : Forward(p, r)
            \/ \E k \in Attempts : TimerExpires(p, k) \/ TimerFails(p, k)
       \/ \E e \in Epochs : Works(e)

Spec == Init /\ [][Next]_vars

---------------------------------------------------------------------------

AllStates == States("eapol") \cup States("dhcp")
AllMessages == {"sent"} \cup Requests("eapol") \cup Requests("dhcp")
Jobs == {None} \cup [client : Clients, what : AllMessages,
                    at : {"check", "send", "event", "fail", "refail"}]

\* Types of the service, its channels and its goroutines.
TypeOK ==
    /\ uni \in {"up", "down"}
    /\ control \in {"idle", "initialize", "close", "nil"} \cup Clients
    /\ internal \in {"created", "initialized", "disabled"}
    /\ state \in [Clients -> AllStates]
    /\ channel \in {0} \cup Epochs /\ epoch \in 0..MaxEpoch /\ open \subseteq 1..epoch
    /\ onu \in {"idle"} \cup Clients /\ api \in {"idle"} \cup Clients
    /\ start \in [Clients -> [at : {"free", "send", "move"}, on : 0..MaxEpoch,
                              by : {"none", "onu", "api", "timer"}]]
    /\ \A e \in Epochs : {loop[e], handler[e]} \subseteq Jobs
    /\ timer \in [Clients -> [Attempts -> {"none", "armed", "expired", "retry", "cancelled", "done"}]]
    /\ attempts \in 0..MaxStart
    /\ \A p \in Clients : sent[p] \subseteq AllMessages
    /\ panicked \in BOOLEAN /\ overtaken \in Overtakers \cup {"nothing"}

\* EAPOL that completed had, in that very attempt, sent its first packet and
\* answered every request of VOLTHA: no packet that is late, repeated or out
\* of order, and no attempt before it, makes up for one.  DHCP, which answers
\* an offer in any state, had at least sent the discovery of that attempt.
\* (A packet of an attempt that a timer or a disable ended while the packet
\* was being handled counts for the next one.)
ExchangeComplete ==
    /\ TypeOK
    /\ \A p \in Clients :
        (state[p] = Done(p) /\ start[p].at # "move"
         /\ overtaken \notin {"timer", "packet", "disable"}) =>
            /\ "sent" \in sent[p]
            /\ p = "eapol" => Answered(p) \subseteq sent[p]

\* After service.Disable both machines are in `created', and the timers of
\* earlier attempts that expire while the UNI is down leave them there, unless
\* a client was being started when the service was disabled.
DisabledForgets ==
    internal = "disabled" /\ control = "idle"
    /\ overtaken \notin {"disable", "flow", "timer"} =>
        \A p \in Clients : state[p] = "created"

\* Nobody waits for good.  A start event of the ONU or of the API is sent on a
\* channel that somebody receives from: on a nil channel it would hold its
\* machine, and the loop of the ONU, for ever.  (The retry of a timer that
\* expires after the service was disabled does.)  An exchange that is under
\* way has a timer that will fail it, unless a reconnection has cancelled it.
\* And no goroutine sends on a channel that service.Disable has closed, unless
\* the service is disabled in the middle of something, or something is started
\* or a packet arrives in the middle of disabling it.
StartsReceived ==
    /\ overtaken \notin {"disable", "flow", "timer", "packet"} => ~panicked
    /\ \A p \in Clients :
        start[p].at = "send" /\ start[p].by # "timer"
        /\ overtaken \notin {"disable", "flow", "restart"} =>
            start[p].on \in open
    /\ \A p \in Clients :
        state[p] \notin {"created", Done(p), Failed(p)} =>
            \E k \in Attempts : timer[p][k] \in {"armed", "expired", "cancelled"}
====
