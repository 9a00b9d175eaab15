--------------------------- MODULE ServiceProofs ---------------------------
(***************************************************************************)
(* Proofs about Service, for any number of attempts and of times that the  *)
(* UNI is enabled.                                                         *)
(***************************************************************************)
EXTENDS Service, FiniteSetTheorems, TLAPS

Started(p) == Table(p).start.dst

\* The states from which a client may be started, in none of which an exchange
\* is under way.
Resting(p) == {"created", Done(p), Failed(p)}

\* The client has sent its first packet and has not failed since.
Beyond(p) == States(p) \ {"created", Started(p), Failed(p)}

Packets ==
    {NoPacket, Stuck} \cup
    [client : Clients, what : AllMessages, on : Epochs]

\* The types, with those of the goroutines: a packet is one its client knows.
TypeInv ==
    /\ TypeOK
    /\ \A p \in Clients : state[p] \in States(p)
    /\ loop \in [Epochs -> Jobs] /\ handler \in [Epochs -> Jobs]
    /\ packet \in [Epochs -> Packets]
    /\ sent \in [Clients -> SUBSET AllMessages]
    /\ \A e \in Epochs : handler[e] # None => handler[e].what \in Requests(handler[e].client)
    /\ \A f \in Epochs : packet[f].on # 0 => packet[f].what \in Requests(packet[f].client)

\* The UNI, the callback that is under way and the channels agree: the channels
\* of the last epoch are open from the end of enter_up to the close in
\* enter_down, and Service.Channel is nil otherwise.
DeviceInv ==
    /\ control = "initialize" => uni = "up" /\ epoch < MaxEpoch
    /\ uni = "up" => control \in {"idle", "initialize"}
    /\ internal = "initialized" <=> uni = "up" /\ control = "idle"
    /\ control \in Clients \cup {"close", "nil"} => internal = "disabled"
    /\ internal = "initialized" \/ control \in Clients \cup {"close"} =>
        epoch # 0 /\ channel = epoch /\ open = {epoch}
    /\ control = "nil" => epoch # 0 /\ channel = epoch /\ open = {}
    /\ control = "initialize" \/ (control = "idle" /\ uni = "down") =>
        channel = 0 /\ open = {}

\* A machine rests while its start event holds eventMu, and whoever fired that
\* event has not returned.
StartInv ==
    \A p \in Clients : start[p] # Free =>
        /\ start[p].at \in {"send", "move"}
        /\ state[p] \in Resting(p)
        /\ start[p].by = "onu" => onu = p
        /\ start[p].by = "api" => api = p
        /\ start[p].by # "none"

One(happens) == IF happens THEN 1 ELSE 0
Again(p) == Cardinality({k \in Attempts : timer[p][k] = "retry"})
ByTimer(p) == One(start[p] # Free /\ start[p].by = "timer")

\* Every attempt that was counted has at most one goroutine that is about to
\* start a client, or one timer.
CountInv ==
    Current("eapol") + Current("dhcp") + Again("eapol") + Again("dhcp")
    + ByTimer("eapol") + ByTimer("dhcp") + One(onu # "idle") + One(api # "idle")
        <= attempts

\* An exchange that is under way has a timer.
TimerInv ==
    \A p \in Clients : state[p] \notin Resting(p) =>
        \E k \in Attempts : timer[p][k] \in {"armed", "expired", "cancelled"}

\* The clients that service.Disable has reset, or that were never started.
Reset ==
    CASE internal = "created" -> Clients
      [] internal = "disabled" /\ control = "dhcp" -> {"eapol"}
      [] internal = "disabled" /\ control \in {"close", "nil", "idle"} -> Clients
      [] OTHER -> {}

\* While the UNI is down nothing is being started but by timers that expire
\* when it has been taken down, and these wait for a nil channel.
DownInv ==
    overtaken \notin {"disable", "flow", "timer"} /\ uni = "down" =>
        /\ onu = "idle" /\ api = "idle"
        /\ \A p \in Clients : start[p] = Free \/ (start[p].at = "send" /\ start[p].on = 0)
        /\ control # "idle" => TimersWait
        /\ \A e \in Epochs : loop[e] = None
        /\ overtaken # "packet" =>
            /\ \A e \in Epochs : handler[e] = None
            /\ \A f \in Epochs : packet[f].on = 0
        /\ \A p \in Reset : state[p] = "created"

\* What the ONU or the API starts is sent on the channel of this epoch.
UpInv ==
    overtaken \notin {"disable", "flow", "restart"} =>
        /\ onu # "idle" \/ api # "idle" => internal = "initialized"
        /\ \A p \in Clients : start[p].at = "send" /\ start[p].by # "timer" =>
            internal = "initialized" /\ start[p].on = channel

InOrder == overtaken \notin {"timer", "packet", "disable"}

\* Goroutines of this epoch are the only ones that do something, and packets are
\* handled only while the service is initialized and no timer acts.
EpochInv ==
    InOrder =>
        /\ \A e \in Epochs : loop[e] # None \/ handler[e] # None => e = epoch
        /\ \A f \in Epochs : packet[f].on \in {0, epoch}
        /\ \A e \in Epochs : handler[e] # None => TimersWait /\ internal = "initialized"
        /\ \A f \in Epochs : packet[f].on # 0 => TimersWait /\ internal = "initialized"
        /\ control = "initialize" => \A e \in Epochs : loop[e] = None

\* While HandleChannel works for a client, the client has not gone on from the
\* state it starts in, and what was sent belongs to the attempt that goes on.
LoopInv ==
    InOrder => \A e \in Epochs : loop[e] # None =>
        LET p == loop[e].client IN
        /\ start[p].at = "move" \/ state[p] \notin Beyond(p)
        /\ loop[e].at = "event" /\ (start[p].at = "move" \/ state[p] = Started(p)) =>
            "sent" \in sent[p]

\* Nothing moves the machine while a packet that it expects is answered.
HandlerInv ==
    InOrder => \A e \in Epochs :
        handler[e].client = "eapol" /\ handler[e].at \in {"send", "event"} =>
            /\ Can("eapol", handler[e].what)
            /\ handler[e].at = "event" /\ handler[e].what # "success" =>
                handler[e].what \in sent["eapol"]

\* What has been sent by the time the machine is in each of its states.
SentInv ==
    InOrder => \A p \in Clients : start[p].at # "move" =>
        /\ state[p] \in Beyond(p) => "sent" \in sent[p]
        /\ p = "eapol" /\ state[p] \in {"identity_sent", "challenge_sent", "success_received"} =>
            "identity" \in sent[p]
        /\ p = "eapol" /\ state[p] \in {"challenge_sent", "success_received"} =>
            "challenge" \in sent[p]

PanicInv == overtaken \notin {"disable", "flow", "timer", "packet"} => ~panicked
----------------------------------------------------------------------------
(* The tables of the two machines.                                           *)

LEMMA EapolFires ==
    ASSUME NEW s
    PROVE  /\ Fires(EapolTx, "start", s) <=> s \in {"created", "success_received", "auth_failed"}
           /\ Fires(EapolTx, "fail", s) <=>
                s \in {"auth_started", "start_sent", "identity_sent", "challenge_sent"}
           /\ Fires(EapolTx, "sent", s) <=> s = "auth_started"
           /\ Fires(EapolTx, "identity", s) <=> s = "start_sent"
           /\ Fires(EapolTx, "challenge", s) <=> s = "identity_sent"
           /\ Fires(EapolTx, "success", s) <=> s = "challenge_sent"
           /\ EapolTx.start.dst = "auth_started"
           /\ EapolTx.fail.dst = "auth_failed" /\ EapolTx.sent.dst = "start_sent"
           /\ EapolTx.identity.dst = "identity_sent"
           /\ EapolTx.challenge.dst = "challenge_sent"
           /\ EapolTx.success.dst = "success_received"
BY Zenon DEF Fires, EapolTx, Tx

LEMMA DhcpFires ==
    ASSUME NEW s
    PROVE  /\ Fires(DhcpTx, "start", s) <=> s \in {"created", "ack_received", "dhcp_failed"}
           /\ Fires(DhcpTx, "fail", s) <=> s \in {"dhcp_started", "discovery_sent", "request_sent"}
           /\ Fires(DhcpTx, "sent", s) <=> s = "dhcp_started"
           /\ Fires(DhcpTx, "offer", s) <=> s = "discovery_sent"
           /\ Fires(DhcpTx, "ack", s) <=> s = "request_sent"
           /\ DhcpTx.start.dst = "dhcp_started"
           /\ DhcpTx.fail.dst = "dhcp_failed" /\ DhcpTx.sent.dst = "discovery_sent"
           /\ DhcpTx.offer.dst = "request_sent" /\ DhcpTx.ack.dst = "ack_received"
BY Zenon DEF Fires, DhcpTx, Tx

LEMMA EapolSets ==
    /\ States("eapol") = {"created", "auth_started", "start_sent", "identity_sent",
                          "challenge_sent", "success_received", "auth_failed"}
    /\ Requests("eapol") = {"identity", "challenge", "success"}
<1>1. DOMAIN EapolTx = {"start", "sent", "identity", "challenge", "success", "fail"}
  BY Zenon DEF EapolTx
<1>2. {EapolTx[e].dst : e \in DOMAIN EapolTx} =
        {"auth_started", "start_sent", "identity_sent", "challenge_sent", "success_received",
         "auth_failed"}
  <2>1. \A e \in DOMAIN EapolTx : EapolTx[e].dst \in
        {"auth_started", "start_sent", "identity_sent", "challenge_sent", "success_received",
         "auth_failed"}
    BY <1>1, EapolFires, Zenon
  <2>2. \A d \in {"auth_started", "start_sent", "identity_sent", "challenge_sent",
                  "success_received", "auth_failed"} : \E e \in DOMAIN EapolTx : EapolTx[e].dst = d
    BY <1>1, EapolFires, Zenon
  <2> QED
    BY <2>1, <2>2
<1>3. Table("eapol") = EapolTx
  BY Zenon DEF Table
<1> QED
  BY <1>1, <1>2, <1>3 DEF States, Requests, Messages, Clients

LEMMA DhcpSets ==
    /\ States("dhcp") = {"created", "dhcp_started", "discovery_sent", "request_sent",
                         "ack_received", "dhcp_failed"}
    /\ Requests("dhcp") = {"offer", "ack"}
<1>1. DOMAIN DhcpTx = {"start", "sent", "offer", "ack", "fail"}
  BY Zenon DEF DhcpTx
<1>2. {DhcpTx[e].dst : e \in DOMAIN DhcpTx} =
        {"dhcp_started", "discovery_sent", "request_sent", "ack_received", "dhcp_failed"}
  <2>1. \A e \in DOMAIN DhcpTx : DhcpTx[e].dst \in
          {"dhcp_started", "discovery_sent", "request_sent", "ack_received", "dhcp_failed"}
    BY <1>1, DhcpFires, Zenon
  <2>2. \A d \in {"dhcp_started", "discovery_sent", "request_sent", "ack_received",
                  "dhcp_failed"} : \E e \in DOMAIN DhcpTx : DhcpTx[e].dst = d
    BY <1>1, DhcpFires, Zenon
  <2> QED
    BY <2>1, <2>2
<1>3. Table("dhcp") = DhcpTx
  BY Zenon DEF Table
<1> QED
  BY <1>1, <1>2, <1>3 DEF States, Requests, Messages, Clients

\* What the events of a client do, whichever it is.
LEMMA Machines ==
    ASSUME NEW p \in Clients, NEW s \in States(p)
    PROVE  /\ Resting(p) \subseteq States(p) /\ Started(p) \in States(p) \ Resting(p)
           /\ Done(p) \in Beyond(p) /\ Beyond(p) \subseteq States(p)
           /\ Failed(p) # "created" /\ Failed(p) # Started(p) /\ Started(p) # "created"
           /\ Done(p) # "created" /\ Done(p) # Failed(p) /\ Done(p) # Started(p)
           /\ Fires(Table(p), "start", s) <=> s \in Resting(p)
           /\ Fires(Table(p), "fail", s) <=> s \notin Resting(p)
           /\ After(Table(p), "fail", s) = IF s \in Resting(p) THEN s ELSE Failed(p)
           /\ Fires(Table(p), "sent", s) <=> s = Started(p)
           /\ After(Table(p), "sent", s) \in States(p)
           /\ s = Started(p) => After(Table(p), "sent", s) \in Beyond(p) \ {Done(p)}
           /\ s # Started(p) => After(Table(p), "sent", s) = s
           /\ \A r \in Requests(p) :
                /\ r # "sent"
                /\ After(Table(p), r, s) \in States(p)
                /\ ~Fires(Table(p), r, s) => After(Table(p), r, s) = s
                /\ Fires(Table(p), r, s) =>
                    s \in Beyond(p) \ Resting(p) /\ After(Table(p), r, s) \in Beyond(p)
<1>1. CASE p = "eapol"
  <2>1. Table(p) = EapolTx /\ Done(p) = "success_received" /\ Failed(p) = "auth_failed"
    BY <1>1, Zenon DEF Table, Done, Failed
  <2>2. Started(p) = "auth_started"
    BY <2>1, EapolFires, Zenon DEF Started
  <2> QED
    BY <1>1, <2>1, <2>2, EapolFires, EapolSets DEF After, Resting, Beyond
<1>2. CASE p = "dhcp"
  <2>1. Table(p) = DhcpTx /\ Done(p) = "ack_received" /\ Failed(p) = "dhcp_failed"
    BY <1>2, Zenon DEF Table, Done, Failed
  <2>2. Started(p) = "dhcp_started"
    BY <2>1, DhcpFires, Zenon DEF Started
  <2> QED
    BY <1>2, <2>1, <2>2, DhcpFires, DhcpSets DEF After, Resting, Beyond
<1> QED
  BY <1>1, <1>2, Zenon DEF Clients

\* A packet that a machine expects finds it in the middle of an exchange.
LEMMA RequestFires ==
    ASSUME NEW p \in Clients, NEW s \in States(p), NEW r \in Requests(p), Fires(Table(p), r, s)
    PROVE  s \in Beyond(p) \ Resting(p) /\ After(Table(p), r, s) \in Beyond(p)
BY Machines, Zenon

LEMMA TypeInit == Init => TypeInv
<1>1. \A p \in Clients : "created" \in States(p)
  BY Zenon DEF States
<1>2. MaxStart \in Nat /\ MaxEpoch \in Nat
  BY ServiceAssumption, Zenon
<1>3. None \in Jobs /\ NoPacket \in Packets /\ NoPacket.on = 0
  BY Zenon DEF Jobs, Packets, NoPacket
<1>4. "created" \in AllStates
  BY <1>1, Zenon DEF AllStates, Clients
<1>5. Free \in [at : {"free", "send", "move"}, on : 0..MaxEpoch,
               by : {"none", "onu", "api", "timer"}]
  BY <1>2 DEF Free
<1> SUFFICES ASSUME Init PROVE TypeInv
  BY Zenon
<1>6. /\ state \in [Clients -> AllStates]
      /\ start \in [Clients -> [at : {"free", "send", "move"}, on : 0..MaxEpoch,
                                by : {"none", "onu", "api", "timer"}]]
      /\ \A e \in Epochs : {loop[e], handler[e]} \subseteq Jobs
      /\ timer \in [Clients -> [Attempts -> {"none", "armed", "expired", "retry", "cancelled", "done"}]]
      /\ \A p \in Clients : sent[p] \subseteq AllMessages
  BY <1>3, <1>4, <1>5, Zenon DEF Init
<1>7. /\ channel = 0 /\ epoch \in 0..MaxEpoch /\ open \subseteq 1..epoch
      /\ attempts \in 0..MaxStart
  BY <1>2 DEF Init
<1>8. TypeOK
  BY <1>6, <1>7, Zenon DEF Init, TypeOK
<1> QED
  BY <1>1, <1>3, <1>8, Zenon DEF Init, TypeInv

JobAts == {"check", "send", "event", "fail", "refail"}

\* What is known of a goroutine that has a job.
LEMMA JobType ==
    ASSUME NEW job \in Jobs
    PROVE  /\ job # None => /\ job.client \in Clients /\ job.what \in AllMessages
                           /\ job.at \in JobAts
           /\ job.client # "none" \/ job.at # "idle" => job # None
           /\ None.client = "none" /\ None.at = "idle" /\ "none" \notin Clients
BY DEF Jobs, None, JobAts, Clients

\* A goroutine goes on with its job.
LEMMA JobMoves ==
    ASSUME NEW job \in Jobs, job # None, NEW at \in JobAts
    PROVE  /\ GoOn(job, at) \in Jobs /\ GoOn(job, at) # None
           /\ GoOn(job, at).at = at
           /\ GoOn(job, at).client = job.client /\ GoOn(job, at).what = job.what
BY JobType, Zenon DEF GoOn, Doing, Jobs, JobAts

LEMMA JobGoesOn ==
    ASSUME NEW f \in [Epochs -> Jobs], NEW e \in Epochs, f[e] # None, NEW at \in JobAts
    PROVE  /\ [f EXCEPT ![e] = GoOn(f[e], at)] \in [Epochs -> Jobs]
           /\ [f EXCEPT ![e] = GoOn(f[e], at)][e].client = f[e].client
           /\ [f EXCEPT ![e] = GoOn(f[e], at)][e].what = f[e].what
           /\ \A x \in Epochs : x # e => [f EXCEPT ![e] = GoOn(f[e], at)][x] = f[x]
<1>1. /\ GoOn(f[e], at) \in Jobs
      /\ GoOn(f[e], at).client = f[e].client /\ GoOn(f[e], at).what = f[e].what
  BY JobMoves, Zenon
<1> QED
  BY <1>1, Zenon

LEMMA JobEnds ==
    ASSUME NEW f \in [Epochs -> Jobs], NEW e \in Epochs
    PROVE  /\ [f EXCEPT ![e] = None] \in [Epochs -> Jobs]
           /\ [f EXCEPT ![e] = None][e] = None
           /\ \A x \in Epochs : x # e => [f EXCEPT ![e] = None][x] = f[x]
BY Zenon DEF Jobs

\* An event leaves a machine in one of its states.
LEMMA EventType ==
    ASSUME TypeInv, NEW p \in Clients, NEW event \in {"fail", "sent"} \cup Requests(p),
           Event(p, event)
    PROVE  /\ state' \in [Clients -> AllStates] /\ \A q \in Clients : state'[q] \in States(q)
           /\ start[p] = Free /\ \A q \in Clients : q # p => state'[q] = state[q]
           /\ state'[p] = After(Table(p), event, state[p])
<1>1. state \in [Clients -> AllStates] /\ state[p] \in States(p)
  BY Zenon DEF TypeInv, TypeOK
<1>2. After(Table(p), event, state[p]) \in States(p)
  BY <1>1, Machines DEF Resting
<1>3. States(p) \subseteq AllStates
  BY Zenon DEF AllStates, Clients
<1> QED
  BY <1>1, <1>2, <1>3, Zenon DEF Event, TypeInv

\* The steps of a service, without the quantifiers over what it needs.
LEMMA Steps ==
    ASSUME [Next]_vars
    PROVE  \/ UNCHANGED vars
           \/ UniEnable \/ Initialize \/ UniDisable \/ ResetStates
           \/ CloseChannels \/ NilChannels \/ CancelTimers
           \/ \E p \in Clients :
                \/ HandleFlow(p) \/ ApiRestart(p)
                \/ StartByOnu(p) \/ StartByApi(p) \/ Move(p)
                \/ \E r \in Requests(p) : Forward(p, r)
                \/ \E e \in Epochs : Receive(p, e)
                \/ \E k \in Attempts : StartByTimer(p, k) \/ TimerExpires(p, k) \/ TimerFails(p, k)
           \/ \E e \in Epochs :
                \/ SendEapStart(e) \/ SendDHCPDiscovery(e) \/ FirstFailed(e)
                \/ \E f \in Epochs : Take(f, e)
                \/ CheckEapol(e) \/ CheckDhcp(e)
                \/ sendEapolPktIn(e) \/ sendDHCPRequest(e) \/ Replied(e) \/ AnswerFailed(e)
<1>1. Protocols \subseteq Clients
  BY ServiceAssumption, Zenon DEF Clients
<1>2. ASSUME NEW p \in Protocols, Starts(p)
      PROVE  \E q \in Clients :
               \/ StartByOnu(q) \/ StartByApi(q) \/ Move(q)
               \/ \E e \in Epochs : Receive(q, e)
               \/ \E k \in Attempts : StartByTimer(q, k)
  BY <1>1, <1>2, Zenon DEF Starts
<1> QED
  BY <1>1, <1>2, Zenon DEF Next, Works, HandleAuth, HandleDhcp, RestartEapol, RestartDhcp, Clients

LEMMA TypeStep ==
    ASSUME TypeInv, DeviceInv, [Next]_vars
    PROVE  TypeInv'
<1> USE DEF TypeInv, TypeOK
<1>1. CASE UniEnable
  BY <1>1, Zenon DEF UniEnable, Overtakes, Overtakers, clients
<1>2. CASE Initialize
  <2>1. epoch + 1 \in 0..MaxEpoch /\ epoch + 1 \in Epochs /\ open \cup {epoch + 1} \subseteq 1..(epoch + 1)
    BY <1>2, ServiceAssumption DEF Initialize, DeviceInv, Epochs
  <2> QED
    BY <1>2, <2>1, Zenon DEF Initialize, clients
<1>3. CASE UniDisable
  BY <1>3, Zenon DEF UniDisable, Overtakes, Overtakers, clients, Clients
<1>4. CASE ResetStates
  <2>1. \A p \in Clients : "created" \in States(p) /\ States(p) \subseteq AllStates
    BY Zenon DEF States, AllStates, Clients
  <2> QED
    BY <1>4, <2>1 DEF ResetStates, Clients
<1>5. CASE CloseChannels
  BY <1>5, Zenon DEF CloseChannels, clients
<1>6. CASE NilChannels
  BY <1>6, Zenon DEF NilChannels, clients
<1>7. CASE CancelTimers
  BY <1>7 DEF CancelTimers, Overtakes, Overtakers, device
<1>8. ASSUME NEW p \in Clients, HandleFlow(p) PROVE TypeInv'
  BY <1>8, ServiceAssumption DEF HandleFlow, Overtakes, Overtakers, device
<1>9. ASSUME NEW p \in Clients, ApiRestart(p) PROVE TypeInv'
  BY <1>9, ServiceAssumption DEF ApiRestart, Overtakes, Overtakers, device
<1>10. ASSUME NEW p \in Clients, NEW k \in Attempts, TimerExpires(p, k) PROVE TypeInv'
  BY <1>10 DEF TimerExpires, Overtakes, Overtakers, device
<1>11. ASSUME NEW p \in Clients, NEW k \in Attempts, TimerFails(p, k) PROVE TypeInv'
  <2>1. Event(p, "fail")
    BY <1>11, Zenon DEF TimerFails, Fail
  <2>2. state' \in [Clients -> AllStates] /\ \A q \in Clients : state'[q] \in States(q)
    BY <2>1, EventType, Zenon
  <2>3. attempts' \in 0..MaxStart
    BY <1>11, ServiceAssumption DEF TimerFails
  <2>4. timer' \in [Clients -> [Attempts -> {"none", "armed", "expired", "retry", "cancelled", "done"}]]
    BY <1>11, Zenon DEF TimerFails
  <2>5. sent' \in [Clients -> SUBSET AllMessages]
    BY <1>11, Zenon DEF TimerFails, Fail
  <2> QED
    BY <1>11, <2>2, <2>3, <2>4, <2>5 DEF TimerFails, device
<1>12. ASSUME NEW p \in Clients, NEW by \in {"onu", "api", "timer"}, Begin(by, p),
              timer' \in [Clients -> [Attempts -> {"none", "armed", "expired", "retry", "cancelled", "done"}]]
       PROVE TypeInv'
  <2>1. start' \in [Clients -> [at : {"free", "send", "move"}, on : 0..MaxEpoch,
                              by : {"none", "onu", "api", "timer"}]]
    <3>1. [at |-> "send", by |-> by, on |-> channel] \in
            [at : {"free", "send", "move"}, on : 0..MaxEpoch, by : {"none", "onu", "api", "timer"}]
      BY ServiceAssumption DEF Epochs
    <3> QED
      BY <1>12, <3>1, Zenon DEF Begin
  <2> QED
    BY <1>12, <2>1, ZenonT(30) DEF Begin, Return, device
<1>13. ASSUME NEW p \in Clients, NEW e \in Epochs, Receive(p, e) PROVE TypeInv'
  <2>1. Doing(p, "send", "sent") \in Jobs
    BY Zenon DEF Doing, Jobs, AllMessages
  <2> QED
    BY <1>13, <2>1, SMTT(30) DEF Receive, device
<1>14. ASSUME NEW p \in Clients, Move(p) PROVE TypeInv'
  <2>1. Started(p) \in States(p) /\ States(p) \subseteq AllStates
    BY Machines, Zenon DEF AllStates, Clients
  <2>2. state' \in [Clients -> AllStates] /\ \A q \in Clients : state'[q] \in States(q)
    BY <1>14, <2>1, Zenon DEF Move, Started
  <2>3. timer' \in [Clients -> [Attempts -> {"none", "armed", "expired", "retry", "cancelled", "done"}]]
    BY <1>14, Zenon DEF Move
  <2> QED
    BY <1>14, <2>2, <2>3, ServiceAssumption DEF Move, device, Return, Free
<1>15. ASSUME NEW e \in Epochs, loop[e].client \in Clients, SendFirst(e) PROVE TypeInv'
  <2>1. loop[e] # None
    BY <1>15, JobType, Zenon
  <2>2. loop' \in [Epochs -> Jobs]
    BY <1>15, <2>1, JobMoves DEF SendFirst, Goto, JobAts
  <2>3. sent' \in [Clients -> SUBSET AllMessages]
    BY <1>15 DEF SendFirst, AllMessages
  <2> QED
    BY <1>15, <2>2, <2>3 DEF SendFirst, device
<1>16. ASSUME NEW e \in Epochs, loop[e].client \in Clients, FirstSent(e) PROVE TypeInv'
  <2>1. Event(loop[e].client, "sent")
    BY <1>16, Zenon DEF FirstSent
  <2>2. state' \in [Clients -> AllStates] /\ \A q \in Clients : state'[q] \in States(q)
    BY <1>16, <2>1, EventType, Zenon
  <2>3. loop[e] # None
    BY <1>16, JobType, Zenon
  <2>4. GoOn(loop[e], "refail") \in Jobs /\ None \in Jobs
    BY <2>3, JobMoves, Zenon DEF JobAts, Jobs
  <2>5. loop' = [loop EXCEPT ![e] = None] \/ loop' = [loop EXCEPT ![e] = GoOn(loop[e], "refail")]
    BY <1>16, Zenon DEF FirstSent, Goto
  <2>6. loop' \in [Epochs -> Jobs]
    BY <2>4, <2>5, SMTT(60)
  <2> QED
    BY <1>16, <2>2, <2>6 DEF FirstSent, device
<1>17. ASSUME NEW e \in Epochs, FirstFailed(e) PROVE TypeInv'
  <2>1. Event(loop[e].client, "fail") /\ loop[e].client \in Clients
    BY <1>17, JobType, Zenon DEF FirstFailed, Fail
  <2>2. state' \in [Clients -> AllStates] /\ \A q \in Clients : state'[q] \in States(q)
    BY <2>1, EventType, Zenon
  <2>3. loop[e] # None
    BY <2>1, JobType, Zenon
  <2>4. loop' \in [Epochs -> Jobs]
    BY <1>17, <2>3, JobMoves, JobEnds DEF FirstFailed, Goto, JobAts
  <2>5. sent' \in [Clients -> SUBSET AllMessages]
    BY <1>17, Zenon DEF FirstFailed, Fail
  <2> QED
    BY <1>17, <2>2, <2>4, <2>5 DEF FirstFailed, device
<1>18. ASSUME NEW p \in Clients, NEW r \in Requests(p), Forward(p, r) PROVE TypeInv'
  <2> DEFINE free == {f \in 1..epoch : packet[f] = NoPacket}
             first == CHOOSE f \in free : \A g \in free : f <= g
  <2>1. r \in AllMessages
    BY Zenon DEF AllMessages, Clients
  <2>2. [client |-> p, what |-> r, on |-> channel].on = channel /\ Stuck.on = 0 /\ Stuck \in Packets
    BY Zenon DEF Stuck, NoPacket, Packets
  <2>3. channel # 0 => [client |-> p, what |-> r, on |-> channel] \in Packets
    BY <2>1, Zenon DEF Packets
  <2>4. packet' = [packet EXCEPT ![first] = IF channel = 0 THEN Stuck
                                            ELSE [client |-> p, what |-> r, on |-> channel]]
    BY <1>18, Zenon DEF Forward
  <2> HIDE DEF first
  <2>5. /\ packet' \in [Epochs -> Packets]
        /\ \A f \in Epochs : packet'[f].on # 0 => packet'[f].what \in Requests(packet'[f].client)
    BY <2>2, <2>3, <2>4, Zenon
  <2> QED
    BY <1>18, <2>5, Zenon DEF Forward, Overtakes, Overtakers, device, clients
<1>19. ASSUME NEW e \in Epochs, NEW f \in Epochs, Take(f, e) PROVE TypeInv'
  <2>1. packet[f].on = e /\ e # 0 /\ packet[f] \in Packets
    BY <1>19 DEF Take, Epochs
  <2>2. packet[f].client \in Clients /\ packet[f].what \in AllMessages /\ packet[f].what \in Requests(packet[f].client)
    BY <2>1 DEF Packets, NoPacket, Stuck
  <2>3. Doing(packet[f].client, "check", packet[f].what) \in Jobs
    BY <2>2, Zenon DEF Doing, Jobs
  <2> QED
    BY <1>19, <2>2, <2>3, SMTT(60) DEF Take, device, clients, NoPacket, Packets, Doing
<1>20. ASSUME NEW e \in Epochs, CheckEapol(e) PROVE TypeInv'
  BY <1>20, SMTT(30) DEF CheckEapol, device, clients, Doing, Jobs, None
<1>21. ASSUME NEW e \in Epochs, CheckDhcp(e) PROVE TypeInv'
  <2> DEFINE at == IF handler[e].what = "ack" THEN "event" ELSE "send"
  <2>1. handler[e] # None /\ at \in JobAts /\ handler' = [handler EXCEPT ![e] = GoOn(handler[e], at)]
    BY <1>21, JobType, Zenon DEF CheckDhcp, JobAts
  <2> HIDE DEF at
  <2>2. /\ handler' \in [Epochs -> Jobs]
        /\ handler'[e].client = handler[e].client /\ handler'[e].what = handler[e].what
        /\ \A x \in Epochs : x # e => handler'[x] = handler[x]
    <3>1. handler \in [Epochs -> Jobs]
      BY Zenon
    <3> HIDE DEF TypeInv, TypeOK
    <3> QED
      BY <2>1, <3>1, JobGoesOn
  <2> QED
    BY <1>21, <2>1, <2>2 DEF CheckDhcp, device, clients
<1>22. ASSUME NEW e \in Epochs, NEW failing \in {"fail", "refail"}, Answer(e, failing) PROVE TypeInv'
  <2>1. handler[e] # None /\ failing \in JobAts /\ "event" \in JobAts
    BY <1>22, JobType, Zenon DEF Answer, JobAts
  <2>2. PICK at \in JobAts : handler' = [handler EXCEPT ![e] = GoOn(handler[e], at)]
    BY <1>22, <2>1, Zenon DEF Answer
  <2>3. /\ handler' \in [Epochs -> Jobs]
        /\ handler'[e].client = handler[e].client /\ handler'[e].what = handler[e].what
        /\ \A x \in Epochs : x # e => handler'[x] = handler[x]
    <3>1. handler \in [Epochs -> Jobs]
      BY Zenon
    <3> HIDE DEF TypeInv, TypeOK
    <3> QED
      BY <2>1, <2>2, <3>1, JobGoesOn
  <2>4. handler[e].what \in AllMessages
    BY <2>1, JobType, Zenon
  <2>5. UNCHANGED sent \/ \E q \in Clients : sent' = [sent EXCEPT ![q] = sent[q] \cup {handler[e].what}]
    BY <1>22, <2>1, JobType, Zenon DEF Answer
  <2>6. sent' \in [Clients -> SUBSET AllMessages]
    BY <2>4, <2>5, SMTT(60)
  <2> QED
    BY <1>22, <2>1, <2>3, <2>6 DEF Answer, device
<1>23. ASSUME NEW e \in Epochs, Replied(e) PROVE TypeInv'
  <2>1. handler[e] # None /\ handler[e].client \in Clients
    BY <1>23, JobType, Zenon DEF Replied
  <2>2. Event(handler[e].client, handler[e].what) /\ handler[e].what \in Requests(handler[e].client)
    BY <1>23, <2>1, Zenon DEF Replied
  <2>3. state' \in [Clients -> AllStates] /\ \A q \in Clients : state'[q] \in States(q)
    BY <2>1, <2>2, EventType, Zenon
  <2> QED
    BY <1>23, <2>3, JobEnds DEF Replied, device
<1>24. ASSUME NEW e \in Epochs, AnswerFailed(e) PROVE TypeInv'
  <2>1. Event(handler[e].client, "fail") /\ handler[e].client \in Clients /\ handler[e] # None
    BY <1>24, JobType, Zenon DEF AnswerFailed, Fail
  <2>2. state' \in [Clients -> AllStates] /\ \A q \in Clients : state'[q] \in States(q)
    BY <2>1, EventType, Zenon
  <2>3. handler' = IF handler[e].at = "fail" THEN [handler EXCEPT ![e] = GoOn(handler[e], "refail")]
                   ELSE [handler EXCEPT ![e] = None]
    BY <1>24, Zenon DEF AnswerFailed
  <2>4. /\ handler' \in [Epochs -> Jobs]
        /\ handler'[e] # None =>
             handler'[e].client = handler[e].client /\ handler'[e].what = handler[e].what
        /\ \A x \in Epochs : x # e => handler'[x] = handler[x]
    BY <2>1, <2>3, JobMoves, JobEnds DEF JobAts
  <2>5. sent' \in [Clients -> SUBSET AllMessages]
    BY <1>24, Zenon DEF AnswerFailed, Fail
  <2> QED
    BY <1>24, <2>1, <2>2, <2>4, <2>5 DEF AnswerFailed, device
<1>25. CASE UNCHANGED vars
  BY <1>25 DEF vars, device, clients
<1>26. ASSUME NEW p \in Clients, NEW k \in Attempts, StartByTimer(p, k) PROVE TypeInv'
  BY <1>12, <1>26, Zenon DEF StartByTimer
<1>27. ASSUME NEW p \in Clients, StartByOnu(p) PROVE TypeInv'
  BY <1>12, <1>27, Zenon DEF StartByOnu
<1>28. ASSUME NEW p \in Clients, StartByApi(p) PROVE TypeInv'
  BY <1>12, <1>28, Zenon DEF StartByApi
<1>29. ASSUME NEW e \in Epochs, SendEapStart(e) \/ SendDHCPDiscovery(e) PROVE TypeInv'
  BY <1>15, <1>16, <1>29, Zenon DEF SendEapStart, SendDHCPDiscovery, Clients
<1>30. ASSUME NEW e \in Epochs, sendEapolPktIn(e) \/ sendDHCPRequest(e) PROVE TypeInv'
  BY <1>22, <1>30, Zenon DEF sendEapolPktIn, sendDHCPRequest
<1> QED
  BY <1>1, <1>2, <1>3, <1>4, <1>5, <1>6, <1>7, <1>8, <1>9, <1>10, <1>11, <1>13, <1>14, <1>17,
     <1>18, <1>19, <1>20, <1>21, <1>23, <1>24, <1>25, <1>26, <1>27, <1>28, <1>29, <1>30, Steps, ZenonT(60)

LEMMA DeviceInit == Init => DeviceInv
BY Zenon DEF Init, DeviceInv, Clients

LEMMA DeviceStep ==
    ASSUME TypeInv, DeviceInv, [Next]_vars
    PROVE  DeviceInv'
<1> USE DEF DeviceInv
<1>1. CASE UniEnable
  BY <1>1, ServiceAssumption, Zenon DEF UniEnable, TypeInv, TypeOK, Clients
<1>2. CASE Initialize
  <2>1. open = {} /\ uni = "up" /\ epoch \in Nat
    BY <1>2, ServiceAssumption DEF Initialize, TypeInv, TypeOK
  <2>2. open' = {epoch'} /\ channel' = epoch' /\ epoch' # 0
    BY <1>2, <2>1 DEF Initialize
  <2> QED
    BY <1>2, <2>1, <2>2, Zenon DEF Initialize, Clients
<1>3. CASE UniDisable
  BY <1>3, Zenon DEF UniDisable, Clients
<1>4. CASE ResetStates
  BY <1>4, Zenon DEF ResetStates, Clients
<1>5. CASE CloseChannels
  BY <1>5, Zenon DEF CloseChannels, Clients
<1>6. CASE NilChannels
  BY <1>6, Zenon DEF NilChannels, Clients, TypeInv, TypeOK
<1>7. CASE UNCHANGED device
  BY <1>7, Zenon DEF device
<1>8. ASSUME NEW p \in Clients,
             \/ HandleFlow(p) \/ ApiRestart(p)
             \/ StartByOnu(p) \/ StartByApi(p) \/ Move(p)
             \/ \E r \in Requests(p) : Forward(p, r)
             \/ \E e \in Epochs : Receive(p, e)
             \/ \E k \in Attempts : StartByTimer(p, k) \/ TimerExpires(p, k) \/ TimerFails(p, k)
      PROVE  UNCHANGED device
  BY <1>8, Zenon DEF HandleFlow, ApiRestart, StartByOnu, StartByApi, Begin, Move, Forward, Receive,
     StartByTimer, TimerExpires, TimerFails
<1>9. ASSUME NEW e \in Epochs,
             \/ SendEapStart(e) \/ SendDHCPDiscovery(e) \/ FirstFailed(e)
             \/ \E f \in Epochs : Take(f, e)
             \/ CheckEapol(e) \/ CheckDhcp(e)
             \/ sendEapolPktIn(e) \/ sendDHCPRequest(e) \/ Replied(e) \/ AnswerFailed(e)
      PROVE  UNCHANGED device
  BY <1>9, Zenon DEF SendEapStart, SendDHCPDiscovery, SendFirst, FirstSent, FirstFailed, Take, CheckEapol,
     CheckDhcp, sendEapolPktIn, sendDHCPRequest, Answer, Replied, AnswerFailed
<1> QED
  BY <1>1, <1>2, <1>3, <1>4, <1>5, <1>6, <1>7, <1>8, <1>9, Steps, Zenon DEF CancelTimers, vars
----------------------------------------------------------------------------
(* Starting a client, and its timers.                                        *)

\* HandleChannel and HandlePackets only fire events of the machines.
LEMMA WorkerEvents ==
    ASSUME TypeInv, NEW e \in Epochs,
           \/ SendEapStart(e) \/ SendDHCPDiscovery(e) \/ FirstFailed(e)
           \/ \E f \in Epochs : Take(f, e)
           \/ CheckEapol(e) \/ CheckDhcp(e)
           \/ sendEapolPktIn(e) \/ sendDHCPRequest(e) \/ Replied(e) \/ AnswerFailed(e)
    PROVE  /\ UNCHANGED <<start, onu, api>>
           /\ \/ UNCHANGED state
              \/ \E p \in Clients : \E event \in {"fail", "sent"} \cup Requests(p) : Event(p, event)
<1>1. loop[e] \in Jobs /\ handler[e] \in Jobs
  BY Zenon DEF TypeInv
<1>2. CASE SendEapStart(e) \/ SendDHCPDiscovery(e)
  BY <1>2, Zenon DEF SendEapStart, SendDHCPDiscovery, SendFirst, FirstSent, Clients
<1>3. CASE FirstFailed(e) \/ AnswerFailed(e)
  BY <1>1, <1>3, JobType, Zenon DEF FirstFailed, AnswerFailed, Fail
<1>4. CASE \/ \E f \in Epochs : Take(f, e)
           \/ CheckEapol(e) \/ CheckDhcp(e) \/ sendEapolPktIn(e) \/ sendDHCPRequest(e)
  BY <1>4, Zenon DEF Take, CheckEapol, CheckDhcp, sendEapolPktIn, sendDHCPRequest, Answer, clients
<1>5. CASE Replied(e)
  <2>1. handler[e] # None /\ handler[e].client \in Clients
    BY <1>1, <1>5, JobType, Zenon DEF Replied
  <2> QED
    BY <1>5, <2>1, Zenon DEF TypeInv, Replied
<1> QED
  BY <1>2, <1>3, <1>4, <1>5, Zenon

\* What the steps do to the machines and to those who start them.
LEMMA ClientSteps ==
    ASSUME TypeInv, [Next]_vars
    PROVE  \/ UNCHANGED <<state, start, onu, api>>
           \/ /\ \E p \in Clients : \E event \in {"fail", "sent"} \cup Requests(p) : Event(p, event)
              /\ UNCHANGED <<start, onu, api>>
           \/ ResetStates
           \/ \E p \in Clients :
                \/ HandleFlow(p) \/ ApiRestart(p)
                \/ StartByOnu(p) \/ StartByApi(p) \/ Move(p)
                \/ \E e \in Epochs : Receive(p, e)
                \/ \E k \in Attempts : StartByTimer(p, k)
<1>1. CASE \/ UNCHANGED vars
           \/ UniEnable \/ Initialize \/ UniDisable \/ CloseChannels \/ NilChannels \/ CancelTimers
  BY <1>1, Zenon DEF vars, UniEnable, Initialize, UniDisable, CloseChannels, NilChannels, CancelTimers,
     clients
<1>2. ASSUME NEW p \in Clients, NEW r \in Requests(p), Forward(p, r)
      PROVE  UNCHANGED <<state, start, onu, api>>
  BY <1>2, Zenon DEF Forward, clients
<1>3. ASSUME NEW p \in Clients, NEW k \in Attempts, TimerExpires(p, k)
      PROVE  UNCHANGED <<state, start, onu, api>>
  BY <1>3, Zenon DEF TimerExpires
<1>4. ASSUME NEW p \in Clients, NEW k \in Attempts, TimerFails(p, k)
      PROVE  Event(p, "fail") /\ UNCHANGED <<start, onu, api>>
  BY <1>4, Zenon DEF TimerFails, Fail
<1> QED
  BY <1>1, <1>2, <1>3, <1>4, WorkerEvents, Steps, Zenon

LEMMA StartInit == Init => StartInv
BY Zenon DEF Init, StartInv

LEMMA StartStep ==
    ASSUME TypeInv, StartInv, [Next]_vars
    PROVE  StartInv'
<1> USE DEF StartInv
<1>1. CASE UNCHANGED <<state, start, onu, api>>
  BY <1>1, Zenon
<1>2. ASSUME NEW p \in Clients, NEW event \in {"fail", "sent"} \cup Requests(p), Event(p, event),
             UNCHANGED <<start, onu, api>>
      PROVE  StartInv'
  BY <1>2, EventType, Zenon
<1>3. CASE ResetStates
  BY <1>3, Zenon DEF ResetStates, Resting, TypeInv, TypeOK
<1>4. ASSUME NEW p \in Clients, HandleFlow(p) \/ ApiRestart(p) PROVE StartInv'
  BY <1>4, Zenon DEF HandleFlow, ApiRestart, Clients
<1>5. ASSUME NEW p \in Clients, NEW by \in {"onu", "api", "timer"}, Begin(by, p),
             by = "onu" => onu = p, by = "api" => api = p
      PROVE  StartInv'
  <2>1. state[p] \in States(p) /\ start \in [Clients -> [at : {"free", "send", "move"},
                              on : 0..MaxEpoch, by : {"none", "onu", "api", "timer"}]]
    BY Zenon DEF TypeInv, TypeOK
  <2>2. CASE Can(p, "start")
    <3>1. state[p] \in Resting(p)
      BY <2>1, <2>2, Machines, Zenon DEF Can
    <3>2. start' = [start EXCEPT ![p] = [at |-> "send", by |-> by, on |-> channel]]
      BY <1>5, <2>2, Zenon DEF Begin
    <3> QED
      BY <1>5, <2>1, <2>2, <3>1, <3>2 DEF Begin
  <2>3. CASE ~Can(p, "start")
    BY <1>5, <2>3, Zenon DEF Begin, Return
  <2> QED
    BY <2>2, <2>3, Zenon
<1>6. ASSUME NEW p \in Clients, NEW e \in Epochs, Receive(p, e) PROVE StartInv'
  <2>1. /\ start[p] \in [at : {"free", "send", "move"}, on : 0..MaxEpoch,
                         by : {"none", "onu", "api", "timer"}]
        /\ start \in [Clients -> [at : {"free", "send", "move"}, on : 0..MaxEpoch,
                                  by : {"none", "onu", "api", "timer"}]]
    BY Zenon DEF TypeInv, TypeOK
  <2>2. start'[p].at = "move" /\ start'[p].by = start[p].by /\ start[p] # Free
    BY <1>6, <2>1 DEF Receive, Free
  <2>3. \A q \in Clients : q # p => start'[q] = start[q]
    BY <1>6, <2>1, Zenon DEF Receive
  <2> QED
    BY <1>6, <2>2, <2>3, Zenon DEF Receive
<1>7. ASSUME NEW p \in Clients, Move(p) PROVE StartInv'
  <2>1. start[p] # Free
    BY <1>7 DEF Move, Free
  <2>2. \A q \in Clients : q # p => start'[q] = start[q] /\ state'[q] = state[q]
    BY <1>7 DEF Move
  <2>3. start'[p] = Free
    BY <1>7, Zenon DEF Move, TypeInv, TypeOK
  <2> QED
    BY <1>7, <2>1, <2>2, <2>3, Zenon DEF Move, Return
<1> QED
  BY <1>1, <1>2, <1>3, <1>4, <1>5, <1>6, <1>7, ClientSteps, Zenon DEF StartByOnu, StartByApi, StartByTimer

\* Sets of attempts can be counted.
LEMMA AttemptSets ==
    ASSUME NEW S \in SUBSET Attempts
    PROVE  /\ IsFiniteSet(S) /\ Cardinality(S) \in Nat
           /\ \A T \in SUBSET S : Cardinality(T) <= Cardinality(S)
           /\ \A k \in Attempts \ S : Cardinality(S \cup {k}) = Cardinality(S) + 1
           /\ \A k \in S : Cardinality(S \ {k}) = Cardinality(S) - 1
<1>1. MaxStart \in Nat
  BY ServiceAssumption, Zenon
<1>2. IsFiniteSet(Attempts)
  BY <1>1, FS_Interval DEF Attempts
<1>3. IsFiniteSet(S)
  BY <1>2, FS_Subset, Zenon
<1> QED
  BY <1>3, FS_CardinalityType, FS_Subset, FS_AddElement, FS_RemoveElement, Zenon

TimerStates == {"none", "armed", "expired", "retry", "cancelled", "done"}

LEMMA CountTypes ==
    ASSUME TypeInv
    PROVE  /\ \A p \in Clients : Current(p) \in Nat /\ Again(p) \in Nat /\ ByTimer(p) \in 0..1
           /\ One(onu # "idle") \in 0..1 /\ One(api # "idle") \in 0..1
           /\ attempts \in 0..MaxStart /\ MaxStart \in Nat
<1>1. \A p \in Clients : Current(p) \in Nat /\ Again(p) \in Nat
  BY AttemptSets, Zenon DEF Current, Again
<1> QED
  BY <1>1, ServiceAssumption DEF TypeInv, TypeOK, ByTimer, One

\* How the numbers of timers change with one of them.
LEMMA TimerChange ==
    ASSUME TypeInv, NEW p \in Clients, NEW k \in Attempts, NEW v \in TimerStates,
           timer' = [timer EXCEPT ![p][k] = v]
    PROVE  /\ \A q \in Clients : q # p => Current(q)' = Current(q) /\ Again(q)' = Again(q)
           /\ Current(p)' <= Current(p) + 1
           /\ timer[p][k] # "none" /\ v # "none" => Current(p)' = Current(p)
           /\ v = "retry" /\ timer[p][k] # "retry" => Again(p)' = Again(p) + 1
           /\ v # "retry" /\ timer[p][k] = "retry" => Again(p)' = Again(p) - 1
           /\ (v = "retry" <=> timer[p][k] = "retry") => Again(p)' = Again(p)
           /\ Current(p)' \in Nat /\ Again(p)' \in Nat
<1> DEFINE U == {x \in Attempts : timer[p][x] # "none"}
           UU == {x \in Attempts : timer'[p][x] # "none"}
           R == {x \in Attempts : timer[p][x] = "retry"}
           RR == {x \in Attempts : timer'[p][x] = "retry"}
<1>1. /\ \A x \in Attempts : timer'[p][x] = IF x = k THEN v ELSE timer[p][x]
      /\ \A q \in Clients : q # p => timer'[q] = timer[q]
  BY Zenon DEF TypeInv, TypeOK
<1>2. /\ Current(p) = Cardinality(U) /\ Current(p)' = Cardinality(UU)
      /\ Again(p) = Cardinality(R) /\ Again(p)' = Cardinality(RR)
  BY Zenon DEF Current, Again
<1>3. \A q \in Clients : q # p => Current(q)' = Current(q) /\ Again(q)' = Again(q)
  BY <1>1, Zenon DEF Current, Again
<1>4. /\ Cardinality(U) \in Nat /\ Cardinality(UU) \in Nat
      /\ Cardinality(R) \in Nat /\ Cardinality(RR) \in Nat
  BY AttemptSets, Zenon
<1>5. Cardinality(UU) <= Cardinality(U) + 1
  <2>1. CASE k \in U
    <3>1. UU \subseteq U
      BY <1>1, <2>1, Zenon
    <3> QED
      BY <1>4, <3>1, AttemptSets
  <2>2. CASE k \notin U
    <3>1. UU \subseteq U \cup {k} /\ U \cup {k} \in SUBSET Attempts
      BY <1>1, Zenon
    <3>2. Cardinality(U \cup {k}) = Cardinality(U) + 1
      BY <2>2, AttemptSets, Zenon
    <3> QED
      BY <3>1, <3>2, AttemptSets, Zenon
  <2> QED
    BY <2>1, <2>2, Zenon
<1>6. timer[p][k] # "none" /\ v # "none" => UU = U
  BY <1>1
<1>7. /\ v = "retry" /\ timer[p][k] # "retry" => RR = R \cup {k} /\ k \notin R
      /\ v # "retry" /\ timer[p][k] = "retry" => RR = R \ {k} /\ k \in R
      /\ (v = "retry" <=> timer[p][k] = "retry") => RR = R
  BY <1>1
<1>8. /\ k \notin R => Cardinality(R \cup {k}) = Cardinality(R) + 1
      /\ k \in R => Cardinality(R \ {k}) = Cardinality(R) - 1
  BY AttemptSets, Zenon
<1> HIDE DEF U, UU, R, RR
<1> QED
  BY <1>2, <1>3, <1>4, <1>5, <1>6, <1>7, <1>8, Zenon

\* A client that moves has an attempt left for its timer.
LEMMA RoomForTimer ==
    ASSUME TypeInv, StartInv, CountInv, NEW p \in Clients, start[p].at = "move"
    PROVE  Current(p) + 1 \in Attempts
<1>1. start[p] # Free
  BY DEF Free
<1>2. start[p].by \in {"onu", "api", "timer"}
  BY <1>1, Zenon DEF StartInv, TypeInv, TypeOK
<1>3. ByTimer(p) = 1 \/ One(onu # "idle") = 1 \/ One(api # "idle") = 1
  BY <1>1, <1>2, Zenon DEF StartInv, ByTimer, One, Clients
<1> QED
  BY <1>3, CountTypes DEF CountInv, Clients, Attempts

LEMMA CountInit == Init => CountInv
<1> SUFFICES ASSUME Init PROVE CountInv
  BY Zenon
<1>1. \A p \in Clients : Current(p) = 0 /\ Again(p) = 0
  <2>1. \A p \in Clients : {k \in Attempts : timer[p][k] # "none"} = {}
    BY Zenon DEF Init
  <2>2. \A p \in Clients : {k \in Attempts : timer[p][k] = "retry"} = {}
    BY DEF Init
  <2> QED
    BY <2>1, <2>2, FS_EmptySet, Zenon DEF Current, Again
<1> QED
  BY <1>1 DEF Init, CountInv, ByTimer, One, Clients

LEMMA CountStep ==
    ASSUME TypeInv, StartInv, CountInv, [Next]_vars
    PROVE  CountInv'
<1> DEFINE numbers == <<timer, start, onu, api, attempts>>
<1>1. CASE UNCHANGED numbers
  BY <1>1, Zenon DEF CountInv, Current, Again, ByTimer, One
<1>2. CASE CancelTimers
  <2>1. \A p \in Clients : Current(p)' = Current(p) /\ Again(p)' = Again(p)
    <3>1. \A p \in Clients : {k \in Attempts : timer'[p][k] # "none"} = {k \in Attempts : timer[p][k] # "none"}
      BY <1>2, Zenon DEF CancelTimers
    <3>2. \A p \in Clients : {k \in Attempts : timer'[p][k] = "retry"} = {k \in Attempts : timer[p][k] = "retry"}
      BY <1>2, Zenon DEF CancelTimers
    <3> QED
      BY <3>1, <3>2, Zenon DEF Current, Again
  <2> QED
    BY <1>2, <2>1, Zenon DEF CancelTimers, CountInv, ByTimer, One, Clients
<1>3. ASSUME NEW p \in Clients, HandleFlow(p) \/ ApiRestart(p) PROVE CountInv'
  <2>1. \A q \in Clients : Current(q)' = Current(q) /\ Again(q)' = Again(q) /\ ByTimer(q)' = ByTimer(q)
    BY <1>3, Zenon DEF HandleFlow, ApiRestart, Current, Again, ByTimer
  <2>2. One(onu # "idle")' + One(api # "idle")' <= One(onu # "idle") + One(api # "idle") + 1
    BY <1>3 DEF HandleFlow, ApiRestart, One
  <2>3. attempts' = attempts + 1
    BY <1>3, Zenon DEF HandleFlow, ApiRestart
  <2>4. One(onu # "idle")' \in 0..1 /\ One(api # "idle")' \in 0..1
    BY DEF One
  <2> QED
    BY <2>1, <2>2, <2>3, <2>4, CountTypes DEF CountInv, Clients
<1>4. ASSUME NEW p \in Clients, NEW k \in Attempts, TimerExpires(p, k) PROVE CountInv'
  <2>1. timer[p][k] = "armed" /\ timer' = [timer EXCEPT ![p][k] = "expired"]
    BY <1>4, Zenon DEF TimerExpires
  <2>2. \A q \in Clients : Current(q)' = Current(q) /\ Again(q)' = Again(q)
    BY <2>1, TimerChange, Zenon DEF TimerStates
  <2> QED
    BY <1>4, <2>2, Zenon DEF TimerExpires, CountInv, ByTimer, One, Clients
<1>5. ASSUME NEW p \in Clients, NEW k \in Attempts, TimerFails(p, k) PROVE CountInv'
  <2> DEFINE again == Retry /\ attempts < MaxStart
  <2>1. timer[p][k] = "expired" /\ timer' = [timer EXCEPT ![p][k] = IF again THEN "retry" ELSE "done"]
    BY <1>5, Zenon DEF TimerFails
  <2>2. /\ attempts' = IF again THEN attempts + 1 ELSE attempts
        /\ UNCHANGED <<start, onu, api>>
    BY <1>5, Zenon DEF TimerFails
  <2> HIDE DEF again
  <2>3. \A q \in Clients : Current(q)' = Current(q) /\ ByTimer(q)' = ByTimer(q)
    BY <2>1, <2>2, TimerChange, Zenon DEF TimerStates, ByTimer
  <2>4. \A q \in Clients : Again(q)' = IF q = p /\ again THEN Again(q) + 1 ELSE Again(q)
    BY <2>1, TimerChange, Zenon DEF TimerStates
  <2> QED
    BY <2>2, <2>3, <2>4, CountTypes DEF CountInv, One, Clients
<1>6. ASSUME NEW p \in Clients, NEW by \in {"onu", "api", "timer"}, Begin(by, p),
             by = "onu" => onu = p, by = "api" => api = p
      PROVE  /\ attempts' = attempts
             /\ \A q \in Clients : q # p => ByTimer(q)' = ByTimer(q)
             /\ ByTimer(p)' <= IF by = "timer" THEN 1 ELSE 0
             /\ ByTimer(p) = 0 /\ ByTimer(p)' \in 0..1
             /\ One(onu # "idle")' <= One(onu # "idle") /\ One(onu # "idle")' \in 0..1
             /\ One(api # "idle")' <= One(api # "idle") /\ One(api # "idle")' \in 0..1
  <2>1. start \in [Clients -> [at : {"free", "send", "move"}, on : 0..MaxEpoch,
                               by : {"none", "onu", "api", "timer"}]]
    BY Zenon DEF TypeInv, TypeOK
  <2> QED
    BY <1>6, <2>1 DEF Begin, Return, ByTimer, One
<1>7. ASSUME NEW p \in Clients, StartByOnu(p) \/ StartByApi(p) PROVE CountInv'
  <2>1. UNCHANGED timer
    BY <1>7, Zenon DEF StartByOnu, StartByApi
  <2>2. \A q \in Clients : Current(q)' = Current(q) /\ Again(q)' = Again(q)
    BY <2>1, Zenon DEF Current, Again
  <2> QED
    BY <1>6, <1>7, <2>2, CountTypes DEF StartByOnu, StartByApi, CountInv, Clients
<1>8. ASSUME NEW p \in Clients, NEW k \in Attempts, StartByTimer(p, k) PROVE CountInv'
  <2>1. timer[p][k] = "retry" /\ timer' = [timer EXCEPT ![p][k] = "done"] /\ Begin("timer", p)
    BY <1>8, Zenon DEF StartByTimer
  <2>2. \A q \in Clients : Current(q)' = Current(q)
    BY <2>1, TimerChange, ZenonT(30) DEF TimerStates
  <2>3. \A q \in Clients : Again(q)' = IF q = p THEN Again(q) - 1 ELSE Again(q)
    BY <2>1, TimerChange, Zenon DEF TimerStates
  <2> QED
    BY <1>6, <2>1, <2>2, <2>3, CountTypes DEF CountInv, Clients
<1>9. ASSUME NEW p \in Clients, NEW e \in Epochs, Receive(p, e) PROVE CountInv'
  <2>1. \A q \in Clients : Current(q)' = Current(q) /\ Again(q)' = Again(q)
    BY <1>9, Zenon DEF Receive, Current, Again
  <2>2. start \in [Clients -> [at : {"free", "send", "move"}, on : 0..MaxEpoch,
                               by : {"none", "onu", "api", "timer"}]]
    BY Zenon DEF TypeInv, TypeOK
  <2>3. /\ start[p] # Free /\ start'[p] # Free /\ start'[p].by = start[p].by
        /\ \A q \in Clients : q # p => start'[q] = start[q]
    BY <1>9, <2>2 DEF Receive, Free
  <2>4. \A q \in Clients : ByTimer(q)' = ByTimer(q)
    BY <2>3, Zenon DEF ByTimer
  <2> QED
    BY <1>9, <2>1, <2>4, Zenon DEF Receive, CountInv, One, Clients
<1>10. ASSUME NEW p \in Clients, Move(p) PROVE CountInv'
  <2> DEFINE k == Current(p) + 1
  <2>1. start[p].at = "move" /\ start[p] # Free /\ timer' = [timer EXCEPT ![p][k] = "armed"]
    BY <1>10 DEF Move, Free
  <2>2. k \in Attempts
    BY <2>1, RoomForTimer, Zenon
  <2> HIDE DEF k
  <2>3. /\ \A q \in Clients : q # p => Current(q)' = Current(q) /\ Again(q)' = Again(q)
        /\ Current(p)' <= Current(p) + 1 /\ Current(p)' \in Nat
        /\ Again(p)' \in {Again(p), Again(p) - 1} /\ Again(p)' \in Nat
    BY <2>1, <2>2, TimerChange, Zenon DEF TimerStates
  <2>4. start[p].by \in {"onu", "api", "timer"}
    BY <2>1, Zenon DEF StartInv, TypeInv, TypeOK
  <2>5. /\ ByTimer(p)' = 0 /\ \A q \in Clients : q # p => ByTimer(q)' = ByTimer(q)
        /\ start[p].by = "timer" => ByTimer(p) = 1
    BY <1>10, <2>1, Zenon DEF Move, ByTimer, One, TypeInv, TypeOK
  <2>6. /\ One(onu # "idle")' = IF start[p].by = "onu" THEN 0 ELSE One(onu # "idle")
        /\ start[p].by = "onu" => One(onu # "idle") = 1
        /\ One(api # "idle")' = IF start[p].by = "api" THEN 0 ELSE One(api # "idle")
        /\ start[p].by = "api" => One(api # "idle") = 1
    BY <1>10, <2>1, Zenon DEF Move, Return, One, StartInv, Clients
  <2>7. attempts' = attempts
    BY <1>10, Zenon DEF Move
  <2> QED
    BY <2>3, <2>4, <2>5, <2>6, <2>7, CountTypes, SMTT(60) DEF CountInv, Clients
<1>11. CASE \/ UNCHANGED vars
            \/ UniEnable \/ Initialize \/ UniDisable \/ ResetStates \/ CloseChannels \/ NilChannels
  BY <1>11, <1>1, Zenon DEF vars, UniEnable, Initialize, UniDisable, ResetStates, CloseChannels,
     NilChannels, clients
<1>12. ASSUME NEW p \in Clients, NEW r \in Requests(p), Forward(p, r) PROVE CountInv'
  BY <1>1, <1>12, Zenon DEF Forward, clients
<1>13. ASSUME NEW e \in Epochs,
              \/ SendEapStart(e) \/ SendDHCPDiscovery(e) \/ FirstFailed(e)
              \/ \E f \in Epochs : Take(f, e)
              \/ CheckEapol(e) \/ CheckDhcp(e)
              \/ sendEapolPktIn(e) \/ sendDHCPRequest(e) \/ Replied(e) \/ AnswerFailed(e)
       PROVE  UNCHANGED numbers
  BY <1>13, Zenon DEF SendEapStart, SendDHCPDiscovery, SendFirst, FirstSent, FirstFailed, Take, CheckEapol,
     CheckDhcp, sendEapolPktIn, sendDHCPRequest, Answer, Replied, AnswerFailed, clients
<1> QED
  BY <1>1, <1>2, <1>3, <1>4, <1>5, <1>7, <1>8, <1>9, <1>10, <1>11, <1>12, <1>13, Steps, ZenonT(30)

LEMMA TimerInit == Init => TimerInv
BY Zenon DEF Init, TimerInv, Resting

LEMMA TimerStep ==
    ASSUME TypeInv, StartInv, CountInv, TimerInv, [Next]_vars
    PROVE  TimerInv'
<1> USE DEF TimerInv
<1>1. CASE UNCHANGED <<state, timer>>
  BY <1>1, Zenon
<1>2. ASSUME NEW p \in Clients, NEW event \in {"fail", "sent"} \cup Requests(p), Event(p, event)
      PROVE  \A q \in Clients : state'[q] \notin Resting(q) => state[q] \notin Resting(q)
  <2>1. state[p] \in States(p)
    BY Zenon DEF TypeInv
  <2>2. state'[p] = After(Table(p), event, state[p])
    BY <1>2, EventType, Zenon
  <2>3. state'[p] \notin Resting(p) => state[p] \notin Resting(p)
    BY <2>1, <2>2, Machines
  <2> QED
    BY <1>2, <2>3, EventType, Zenon
<1>3. CASE ResetStates
  BY <1>3, Zenon DEF ResetStates, Resting, TypeInv, TypeOK
<1>4. CASE CancelTimers
  BY <1>4, ZenonT(30) DEF CancelTimers
<1>5. ASSUME NEW p \in Clients, NEW k \in Attempts, TimerExpires(p, k) PROVE TimerInv'
  BY <1>5, ZenonT(30) DEF TimerExpires, TypeInv, TypeOK
<1>6. ASSUME NEW p \in Clients, NEW k \in Attempts, TimerFails(p, k) PROVE TimerInv'
  <2>1. Event(p, "fail")
    BY <1>6, Zenon DEF TimerFails, Fail
  <2>2. state'[p] = After(Table(p), "fail", state[p]) /\ state[p] \in States(p)
    BY <2>1, EventType, Zenon DEF TypeInv
  <2>3. state'[p] \in Resting(p)
    BY <2>2, Machines, SMTT(60) DEF Resting
  <2>4. \A q \in Clients : q # p => state'[q] = state[q] /\ timer'[q] = timer[q]
    BY <1>6, <2>1, EventType DEF TimerFails, TypeInv, TypeOK
  <2> QED
    BY <2>3, <2>4, Zenon
<1>7. ASSUME NEW p \in Clients, NEW k \in Attempts, StartByTimer(p, k) PROVE TimerInv'
  BY <1>7, ZenonT(30) DEF StartByTimer, Begin, TypeInv, TypeOK
<1>8. ASSUME NEW p \in Clients, Move(p) PROVE TimerInv'
  <2> DEFINE k == Current(p) + 1
  <2>1. start[p].at = "move" /\ timer' = [timer EXCEPT ![p][k] = "armed"]
    BY <1>8, Zenon DEF Move
  <2>2. k \in Attempts
    BY <2>1, RoomForTimer, Zenon
  <2> HIDE DEF k
  <2>3. timer'[p][k] = "armed" /\ \A q \in Clients : q # p => timer'[q] = timer[q]
    BY <2>1, <2>2, Zenon DEF TypeInv, TypeOK
  <2>4. \A q \in Clients : q # p => state'[q] = state[q]
    BY <1>8 DEF Move
  <2> QED
    BY <2>2, <2>3, <2>4, Zenon
<1>9. CASE \/ UNCHANGED vars
           \/ UniEnable \/ Initialize \/ UniDisable \/ CloseChannels \/ NilChannels
  BY <1>9, Zenon DEF vars, UniEnable, Initialize, UniDisable, CloseChannels, NilChannels, clients
<1>10. ASSUME NEW p \in Clients,
              \/ HandleFlow(p) \/ ApiRestart(p) \/ StartByOnu(p) \/ StartByApi(p)
              \/ \E r \in Requests(p) : Forward(p, r)
              \/ \E e \in Epochs : Receive(p, e)
       PROVE  UNCHANGED <<state, timer>>
  BY <1>10, Zenon DEF HandleFlow, ApiRestart, StartByOnu, StartByApi, Begin, Forward, Receive, clients
<1>11. ASSUME NEW e \in Epochs,
              \/ SendEapStart(e) \/ SendDHCPDiscovery(e) \/ FirstFailed(e)
              \/ \E f \in Epochs : Take(f, e)
              \/ CheckEapol(e) \/ CheckDhcp(e)
              \/ sendEapolPktIn(e) \/ sendDHCPRequest(e) \/ Replied(e) \/ AnswerFailed(e)
       PROVE  UNCHANGED timer
  BY <1>11, Zenon DEF SendEapStart, SendDHCPDiscovery, SendFirst, FirstSent, FirstFailed, Take, CheckEapol,
     CheckDhcp, sendEapolPktIn, sendDHCPRequest, Answer, Replied, AnswerFailed, clients
<1>12. ASSUME NEW e \in Epochs,
              \/ SendEapStart(e) \/ SendDHCPDiscovery(e) \/ FirstFailed(e)
              \/ \E f \in Epochs : Take(f, e)
              \/ CheckEapol(e) \/ CheckDhcp(e)
              \/ sendEapolPktIn(e) \/ sendDHCPRequest(e) \/ Replied(e) \/ AnswerFailed(e)
       PROVE  TimerInv'
  <2>1. \/ UNCHANGED state
        \/ \E p \in Clients : \E event \in {"fail", "sent"} \cup Requests(p) : Event(p, event)
    BY <1>12, WorkerEvents, Zenon
  <2> QED
    BY <1>2, <1>11, <1>12, <2>1, Zenon
<1> QED
  BY <1>1, <1>3, <1>4, <1>5, <1>6, <1>7, <1>8, <1>9, <1>10, <1>12, Steps, Zenon
----------------------------------------------------------------------------
(* A service that is disabled, and the channels of one that is not.          *)

\* Once something has overtaken something else, nothing else does.
LEMMA OvertakenOnce ==
    ASSUME [Next]_vars
    PROVE  overtaken' = overtaken \/ overtaken = "nothing"
<1>1. CASE \/ UNCHANGED vars
           \/ UniEnable \/ Initialize \/ UniDisable \/ ResetStates
           \/ CloseChannels \/ NilChannels \/ CancelTimers
  BY <1>1, Zenon DEF vars, UniEnable, Initialize, UniDisable, ResetStates, CloseChannels, NilChannels,
     CancelTimers, Overtakes
<1>2. ASSUME NEW p \in Clients,
             \/ HandleFlow(p) \/ ApiRestart(p)
             \/ StartByOnu(p) \/ StartByApi(p) \/ Move(p)
             \/ \E r \in Requests(p) : Forward(p, r)
             \/ \E e \in Epochs : Receive(p, e)
             \/ \E k \in Attempts : StartByTimer(p, k) \/ TimerExpires(p, k) \/ TimerFails(p, k)
      PROVE  overtaken' = overtaken \/ overtaken = "nothing"
  BY <1>2, Zenon DEF HandleFlow, ApiRestart, StartByOnu, StartByApi, Begin, Move, Forward, Receive,
     StartByTimer, TimerExpires, TimerFails, Overtakes
<1>3. ASSUME NEW e \in Epochs,
             \/ SendEapStart(e) \/ SendDHCPDiscovery(e) \/ FirstFailed(e)
             \/ \E f \in Epochs : Take(f, e)
             \/ CheckEapol(e) \/ CheckDhcp(e)
             \/ sendEapolPktIn(e) \/ sendDHCPRequest(e) \/ Replied(e) \/ AnswerFailed(e)
      PROVE  overtaken' = overtaken
  BY <1>3, Zenon DEF SendEapStart, SendDHCPDiscovery, SendFirst, FirstSent, FirstFailed, Take, CheckEapol,
     CheckDhcp, sendEapolPktIn, sendDHCPRequest, Answer, Replied, AnswerFailed
<1> QED
  BY <1>1, <1>2, <1>3, Steps, Zenon

LEMMA ResetCreated == Reset \subseteq Clients
BY Zenon DEF Reset, Clients

LEMMA DownInit == Init => DownInv
BY DEF Init, DownInv, Reset, NoPacket

\* No event but the start moves a machine out of its initial state.
LEMMA CreatedStays ==
    ASSUME TypeInv, NEW p \in Clients, NEW event \in {"fail", "sent"} \cup Requests(p),
           Event(p, event), NEW q \in Clients, state[q] = "created"
    PROVE  state'[q] = "created"
<1>1. "created" \in States(p) /\ "created" \in Resting(p)
  BY Zenon DEF States, Resting
<1>2. Started(p) # "created" /\ "created" \notin Beyond(p)
  BY <1>1, Machines, Zenon DEF Beyond
<1>3. ~Fires(Table(p), event, "created")
  <2>1. ~Fires(Table(p), "fail", "created") /\ ~Fires(Table(p), "sent", "created")
    BY <1>1, <1>2, Machines, Zenon
  <2>2. \A r \in Requests(p) : ~Fires(Table(p), r, "created")
    BY <1>1, <1>2, RequestFires, Zenon
  <2> QED
    BY <2>1, <2>2, Zenon
<1>4. After(Table(p), event, "created") = "created"
  BY <1>3, Zenon DEF After
<1> QED
  BY <1>4, EventType, Zenon

\* What the start event changes when it takes eventMu.
LEMMA BeginStep ==
    ASSUME TypeInv, NEW p \in Clients, NEW by, Begin(by, p)
    PROVE  /\ \A q \in Clients : q # p => start'[q] = start[q]
           /\ \/ start'[p] = start[p]
              \/ start'[p].at = "send" /\ start'[p].by = by /\ start'[p].on = channel
           /\ onu' \in {onu, "idle"} /\ api' \in {api, "idle"}
           /\ internal' = internal /\ channel' = channel /\ overtaken' = overtaken
<1>1. \/ start' = start
      \/ start' = [start EXCEPT ![p] = [at |-> "send", by |-> by, on |-> channel]]
  BY Zenon DEF Begin
<1>2. p \in DOMAIN start
  BY DEF TypeInv, TypeOK
<1>3. /\ \A q \in Clients : q # p => start'[q] = start[q]
      /\ start'[p] = start[p] \/ start'[p] = [at |-> "send", by |-> by, on |-> channel]
  BY <1>1, <1>2, Zenon DEF TypeInv, TypeOK
<1>4. onu' \in {onu, "idle"} /\ api' \in {api, "idle"}
  BY Zenon DEF Begin, Return
<1> QED
  BY <1>3, <1>4 DEF Begin, device

LEMMA DownStep ==
    ASSUME TypeInv, DeviceInv, DownInv, [Next]_vars
    PROVE  DownInv'
<1> DEFINE bad == {"disable", "flow", "timer"}
<1> DEFINE Goal == /\ onu' = "idle" /\ api' = "idle"
                   /\ \A p \in Clients : start'[p] = Free \/ (start'[p].at = "send" /\ start'[p].on = 0)
                   /\ control' # "idle" => TimersWait'
                   /\ \A e \in Epochs : loop'[e] = None
                   /\ overtaken' # "packet" =>
                        /\ \A e \in Epochs : handler'[e] = None
                        /\ \A f \in Epochs : packet'[f].on = 0
                   /\ \A p \in Reset' : state'[p] = "created"
           Before == /\ onu = "idle" /\ api = "idle"
                     /\ \A p \in Clients : start[p] = Free \/ (start[p].at = "send" /\ start[p].on = 0)
                     /\ control # "idle" => TimersWait
                     /\ \A e \in Epochs : loop[e] = None
                     /\ overtaken # "packet" =>
                        /\ \A e \in Epochs : handler[e] = None
                        /\ \A f \in Epochs : packet[f].on = 0
                     /\ \A p \in Reset : state[p] = "created"
<1> SUFFICES ASSUME overtaken' \notin bad, uni' = "down" PROVE Goal
  BY Zenon DEF DownInv
<1>0. overtaken \notin bad /\ uni = "down" => Before
  BY Zenon DEF DownInv
<1>1. CASE UniEnable \/ Initialize
  BY <1>1, Zenon DEF UniEnable, Initialize, DeviceInv
<1>2. CASE UniDisable
  <2>1. Quiet
    BY <1>2, Zenon DEF UniDisable, Overtakes
  <2>2. Reset' = {}
    BY <1>2, Zenon DEF UniDisable, Reset
  <2>3. TimersWait'
    BY <1>2, <2>1, Zenon DEF UniDisable, clients, Quiet, TimersWait
  <2> QED
    BY <1>2, <2>1, <2>2, <2>3, Zenon DEF UniDisable, clients, Quiet
<1>3. CASE ResetStates
  <2>1. Before
    BY <1>0, <1>3, Zenon DEF ResetStates
  <2>2. internal = "disabled" /\ internal' = "disabled"
    BY <1>3, Zenon DEF ResetStates, DeviceInv
  <2>3. Reset' \subseteq Reset \cup {control}
    BY <1>3, <2>2, ZenonT(30) DEF ResetStates, Reset, Clients
  <2>4. \A p \in Reset' : state'[p] = "created"
    BY <1>3, <2>1, <2>3, ResetCreated DEF ResetStates, TypeInv, TypeOK
  <2>5. TimersWait'
    BY <1>3, <2>1, Zenon DEF ResetStates, TimersWait, Clients
  <2> QED
    BY <1>3, <2>1, <2>4, <2>5, Zenon DEF ResetStates
<1>4. CASE CloseChannels \/ NilChannels
  <2>1. Before
    BY <1>0, <1>4, Zenon DEF CloseChannels, NilChannels
  <2>2. internal = "disabled" /\ internal' = "disabled"
    BY <1>4, Zenon DEF CloseChannels, NilChannels, DeviceInv
  <2>3. Reset' = Reset
    BY <1>4, <2>2, Zenon DEF CloseChannels, NilChannels, Reset
  <2>4. TimersWait'
    BY <1>4, <2>1, Zenon DEF CloseChannels, NilChannels, TimersWait, clients
  <2> QED
    BY <1>4, <2>1, <2>3, <2>4, Zenon DEF CloseChannels, NilChannels, clients
<1>5. CASE CancelTimers
  <2>1. Before
    BY <1>0, <1>5, Zenon DEF CancelTimers, Overtakes, device
  <2>2. control # "idle" => TimersWait'
    BY <1>5, <2>1, Zenon DEF CancelTimers, TimersWait
  <2>3. Reset' = Reset
    BY <1>5, Zenon DEF CancelTimers, Reset, device
  <2> QED
    BY <1>5, <2>1, <2>2, <2>3, Zenon DEF CancelTimers, Overtakes, device
<1>6. ASSUME NEW p \in Clients, HandleFlow(p) \/ ApiRestart(p) PROVE FALSE
  BY <1>6, Zenon DEF HandleFlow, ApiRestart, Overtakes, device, DeviceInv
<1>7. ASSUME NEW p \in Clients, NEW k \in Attempts, TimerExpires(p, k) PROVE Goal
  <2>1. Quiet /\ overtaken' = overtaken
    BY <1>7, Zenon DEF TimerExpires, Overtakes
  <2>2. Before /\ control' = "idle"
    BY <1>0, <1>7, <2>1, Zenon DEF TimerExpires, device, Quiet
  <2>3. Reset' = Reset
    BY <1>7, Zenon DEF TimerExpires, Reset, device
  <2> QED
    BY <1>7, <2>1, <2>2, <2>3, Zenon DEF TimerExpires
<1>8. ASSUME NEW p \in Clients, NEW k \in Attempts, TimerFails(p, k) PROVE Goal
  <2>1. Before
    BY <1>0, <1>8, Zenon DEF TimerFails, device
  <2>2. control = "idle" /\ control' = "idle"
    BY <1>8, <2>1, Zenon DEF TimerFails, TimersWait, device
  <2>3. Reset' = Reset
    BY <1>8, Zenon DEF TimerFails, Reset, device
  <2>4. Event(p, "fail")
    BY <1>8, Zenon DEF TimerFails, Fail
  <2>5. \A q \in Reset' : state'[q] = "created"
    BY <2>1, <2>3, <2>4, CreatedStays, ResetCreated
  <2> QED
    BY <1>8, <2>1, <2>2, <2>5, Zenon DEF TimerFails
<1>9. ASSUME NEW p \in Clients, StartByOnu(p) \/ StartByApi(p) PROVE FALSE
  BY <1>0, <1>9, Zenon DEF StartByOnu, StartByApi, Begin, device, Clients
<1>10. ASSUME NEW p \in Clients, NEW k \in Attempts, StartByTimer(p, k) PROVE Goal
  <2>1. Before
    BY <1>0, <1>10, Zenon DEF StartByTimer, Begin, device
  <2>2. control = "idle" /\ control' = "idle" /\ uni = "down"
    BY <1>10, <2>1, Zenon DEF StartByTimer, Begin, TimersWait, device
  <2>3. channel = 0
    BY <2>2, Zenon DEF DeviceInv
  <2>4. Reset' = Reset
    BY <1>10, ZenonT(30) DEF StartByTimer, Begin, Reset, device
  <2>5. \A q \in Clients : start'[q] = Free \/ (start'[q].at = "send" /\ start'[q].on = 0)
    <3>1. /\ \A q \in Clients : q # p => start'[q] = start[q]
          /\ start'[p] = start[p] \/ (start'[p].at = "send" /\ start'[p].on = 0)
      BY <1>10, <2>3, BeginStep, Zenon DEF StartByTimer
    <3> QED
      BY <2>1, <3>1, ZenonT(60)
  <2> QED
    BY <1>10, <2>1, <2>2, <2>4, <2>5, Zenon DEF StartByTimer, Begin, Return
<1>11. ASSUME NEW p \in Clients, Move(p) \/ \E e \in Epochs : Receive(p, e) PROVE FALSE
  BY <1>0, <1>11, ServiceAssumption DEF Move, Receive, device, Free, Epochs
<1>12. ASSUME NEW p \in Clients, NEW r \in Requests(p), Forward(p, r) PROVE Goal
  <2>1. internal # "initialized"
    BY <1>12, Zenon DEF Forward, DeviceInv, device
  <2>2. overtaken' = "packet" /\ overtaken = "nothing"
    BY <1>12, <2>1, Zenon DEF Forward, Overtakes
  <2>3. Before
    BY <1>0, <1>12, <2>2, Zenon DEF Forward, device
  <2>4. Reset' = Reset
    BY <1>12, Zenon DEF Forward, Reset, device
  <2>5. TimersWait' <=> TimersWait
    BY <1>12, ZenonT(30) DEF Forward, clients, TimersWait
  <2> QED
    BY <1>12, <2>2, <2>3, <2>4, <2>5, Zenon DEF Forward, clients, device
<1>13. ASSUME NEW e \in Epochs,
              SendEapStart(e) \/ SendDHCPDiscovery(e) \/ FirstFailed(e)
       PROVE  FALSE
  BY <1>0, <1>13, JobType, ZenonT(30)
     DEF SendEapStart, SendDHCPDiscovery, SendFirst, FirstSent, FirstFailed, device, Clients, TypeInv, None
<1>14. ASSUME NEW e \in Epochs,
              \/ \E f \in Epochs : Take(f, e)
              \/ CheckEapol(e) \/ CheckDhcp(e)
              \/ sendEapolPktIn(e) \/ sendDHCPRequest(e) \/ Replied(e) \/ AnswerFailed(e)
       PROVE  Goal
  <2>1. UNCHANGED <<device, onu, api, start, timer, loop, overtaken>>
    BY <1>14, Zenon DEF Take, CheckEapol, CheckDhcp, sendEapolPktIn, sendDHCPRequest, Answer, Replied,
       AnswerFailed, clients
  <2>2. Before
    BY <1>0, <2>1, ZenonT(30) DEF device
  <2>3. overtaken = "packet"
    <3>1. 0 \notin Epochs
      BY ServiceAssumption DEF Epochs
    <3>2. None.client = "none" /\ None.at = "idle"
      BY Zenon DEF None
    <3> QED
      BY <1>14, <2>2, <3>1, <3>2, Zenon
         DEF Take, CheckEapol, CheckDhcp, sendEapolPktIn, sendDHCPRequest, Answer, Replied, AnswerFailed
  <2>4. Reset' = Reset /\ (TimersWait' <=> TimersWait)
    BY <2>1, Zenon DEF Reset, device, TimersWait
  <2>5. \A q \in Reset : state'[q] = "created"
    BY <1>14, <2>2, WorkerEvents, CreatedStays, ResetCreated, Zenon
  <2> QED
    BY <2>1, <2>2, <2>3, <2>4, <2>5, Zenon DEF device
<1>15. CASE UNCHANGED vars
  <2>1. Before
    BY <1>0, <1>15, Zenon DEF vars, device
  <2>2. Reset' = Reset /\ (TimersWait' <=> TimersWait)
    BY <1>15 DEF vars, Reset, device, clients, TimersWait
  <2> QED
    BY <1>15, <2>1, <2>2, Zenon DEF vars, device, clients
<1> HIDE DEF Goal, Before
<1> QED
  BY <1>1, <1>2, <1>3, <1>4, <1>5, <1>6, <1>7, <1>8, <1>9, <1>10, <1>11, <1>12, <1>13, <1>14, <1>15, Steps,
     ZenonT(30)

LEMMA UpInit == Init => UpInv
BY DEF Init, UpInv, Free

LEMMA UpStep ==
    ASSUME TypeInv, DeviceInv, StartInv, UpInv, [Next]_vars
    PROVE  UpInv'
<1> DEFINE bad == {"disable", "flow", "restart"}
<1> DEFINE Goal == /\ onu' # "idle" \/ api' # "idle" => internal' = "initialized"
                   /\ \A p \in Clients : start'[p].at = "send" /\ start'[p].by # "timer" =>
                         internal' = "initialized" /\ start'[p].on = channel'
           Before == /\ onu # "idle" \/ api # "idle" => internal = "initialized"
                     /\ \A p \in Clients : start[p].at = "send" /\ start[p].by # "timer" =>
                         internal = "initialized" /\ start[p].on = channel
<1> SUFFICES ASSUME overtaken' \notin bad PROVE Goal
  BY Zenon DEF UpInv
<1>0. overtaken \notin bad => Before
  BY Zenon DEF UpInv
<1>1. CASE UniEnable
  BY <1>0, <1>1, Zenon DEF UniEnable, Overtakes, clients
<1>2. CASE Initialize
  BY <1>0, <1>2, ZenonT(30) DEF Initialize, clients, DeviceInv
<1>3. CASE UniDisable
  <2>1. Quiet /\ overtaken' = overtaken
    BY <1>3, Zenon DEF UniDisable, Overtakes
  <2>2. channel # 0
    BY <1>3, Zenon DEF UniDisable, DeviceInv
  <2> QED
    BY <1>0, <1>3, <2>1, <2>2 DEF UniDisable, Quiet, clients, Free
<1>4. CASE ResetStates \/ CloseChannels
  BY <1>0, <1>4, Zenon DEF ResetStates, CloseChannels, clients
<1>5. CASE NilChannels
  BY <1>0, <1>5, Zenon DEF NilChannels, DeviceInv, clients
<1>6. CASE CancelTimers
  BY <1>0, <1>6, Zenon DEF CancelTimers, Overtakes, device
<1>7. ASSUME NEW p \in Clients, HandleFlow(p) \/ ApiRestart(p) PROVE Goal
  <2>1. Quiet /\ overtaken' = overtaken /\ (internal = "initialized" \/ uni = "up")
    BY <1>7, Zenon DEF HandleFlow, ApiRestart, Overtakes
  <2>2. internal = "initialized"
    BY <2>1, Zenon DEF Quiet, DeviceInv
  <2> QED
    BY <1>0, <1>7, <2>1, <2>2, Zenon DEF HandleFlow, ApiRestart, device
<1>8. ASSUME NEW p \in Clients, StartByOnu(p) \/ StartByApi(p) PROVE Goal
  <2>1. Before /\ (onu = p \/ api = p)
    BY <1>0, <1>8, Zenon DEF StartByOnu, StartByApi, Begin
  <2>2. internal = "initialized"
    BY <2>1, Zenon DEF Clients
  <2>3. PICK by : Begin(by, p)
    BY <1>8, Zenon DEF StartByOnu, StartByApi
  <2> QED
    BY <2>1, <2>2, <2>3, BeginStep, ZenonT(30)
<1>9. ASSUME NEW p \in Clients, NEW k \in Attempts, StartByTimer(p, k) PROVE Goal
  <2>1. Begin("timer", p)
    BY <1>9, Zenon DEF StartByTimer
  <2> QED
    BY <1>0, <2>1, BeginStep, ZenonT(30)
<1>10. ASSUME NEW p \in Clients, NEW e \in Epochs, Receive(p, e) PROVE Goal
  <2>1. start'[p].at = "move" /\ \A q \in Clients : q # p => start'[q] = start[q]
    BY <1>10, Zenon DEF Receive, TypeInv, TypeOK
  <2> QED
    BY <1>0, <1>10, <2>1, Zenon DEF Receive, device
<1>11. ASSUME NEW p \in Clients, Move(p) PROVE Goal
  BY <1>0, <1>11, Zenon DEF Move, Return, device, Free, TypeInv, TypeOK
<1>12. ASSUME NEW p \in Clients,
              \/ \E r \in Requests(p) : Forward(p, r)
              \/ \E k \in Attempts : TimerExpires(p, k) \/ TimerFails(p, k)
       PROVE  Goal
  <2>1. UNCHANGED <<device, start, onu, api>>
    BY <1>12, Zenon DEF Forward, TimerExpires, TimerFails, clients
  <2>2. overtaken \notin bad
    BY <1>12, Zenon DEF Forward, TimerExpires, TimerFails, Overtakes
  <2> QED
    BY <1>0, <2>1, <2>2, Zenon DEF device
<1>13. ASSUME NEW e \in Epochs,
              \/ SendEapStart(e) \/ SendDHCPDiscovery(e) \/ FirstFailed(e)
              \/ \E f \in Epochs : Take(f, e)
              \/ CheckEapol(e) \/ CheckDhcp(e)
              \/ sendEapolPktIn(e) \/ sendDHCPRequest(e) \/ Replied(e) \/ AnswerFailed(e)
       PROVE  Goal
  <2>1. UNCHANGED <<device, start, onu, api, overtaken>>
    BY <1>13, Zenon DEF SendEapStart, SendDHCPDiscovery, SendFirst, FirstSent, FirstFailed, Take, CheckEapol,
       CheckDhcp, sendEapolPktIn, sendDHCPRequest, Answer, Replied, AnswerFailed, clients
  <2> QED
    BY <1>0, <2>1, Zenon DEF device
<1>14. CASE UNCHANGED vars
  BY <1>0, <1>14, Zenon DEF vars, device, clients
<1> HIDE DEF Goal, Before
<1> QED
  BY <1>1, <1>2, <1>3, <1>4, <1>5, <1>6, <1>7, <1>8, <1>9, <1>10, <1>11, <1>12, <1>13, <1>14, Steps,
     ZenonT(30)

LEMMA PanicInit == Init => PanicInv
BY Zenon DEF Init, PanicInv

LEMMA PanicStep ==
    ASSUME TypeInv, DeviceInv, DownInv, PanicInv, [Next]_vars
    PROVE  PanicInv'
<1> DEFINE bad == {"disable", "flow", "timer", "packet"}
<1> SUFFICES ASSUME overtaken' \notin bad PROVE ~panicked'
  BY Zenon DEF PanicInv
<1>1. overtaken \notin bad /\ ~panicked
  BY OvertakenOnce, Zenon DEF PanicInv
<1>2. channel # 0 /\ channel \notin open => control = "nil" /\ uni = "down"
  BY ZenonT(30) DEF DeviceInv, TypeInv, TypeOK
<1>3. CASE CloseChannels
  <2>1. uni = "down" /\ channel # 0
    BY <1>3, Zenon DEF CloseChannels, DeviceInv, TypeInv, TypeOK
  <2>2. /\ \A p \in Clients : start[p] = Free \/ start[p].on = 0
        /\ \A f \in Epochs : packet[f].on = 0
    BY <1>1, <2>1, Zenon DEF DownInv
  <2>3. Free.at # "send"
    BY Zenon DEF Free
  <2> QED
    BY <1>1, <1>3, <2>1, <2>2, <2>3, Zenon DEF CloseChannels
<1>4. ASSUME NEW p \in Clients, StartByOnu(p) \/ StartByApi(p) PROVE ~panicked'
  <2>1. onu # "idle" \/ api # "idle"
    BY <1>4, Zenon DEF StartByOnu, StartByApi, Clients
  <2> QED
    BY <1>1, <1>2, <1>4, <2>1, Zenon DEF StartByOnu, StartByApi, Begin, DownInv
<1>5. ASSUME NEW p \in Clients, NEW k \in Attempts, StartByTimer(p, k) PROVE ~panicked'
  <2>1. ~TimersWait
    BY <1>5, Zenon DEF StartByTimer, TimersWait
  <2> QED
    BY <1>1, <1>2, <1>5, <2>1, Zenon DEF StartByTimer, Begin, DownInv
<1>6. ASSUME NEW p \in Clients, NEW r \in Requests(p), Forward(p, r) PROVE ~panicked'
  <2>1. internal = "initialized"
    BY <1>6, Zenon DEF Forward, Overtakes
  <2> QED
    BY <1>1, <1>2, <1>6, <2>1, Zenon DEF Forward, DeviceInv
<1>7. CASE \/ UNCHANGED vars
           \/ UniEnable \/ Initialize \/ UniDisable \/ ResetStates \/ NilChannels \/ CancelTimers
  BY <1>1, <1>7, Zenon DEF vars, UniEnable, Initialize, UniDisable, ResetStates, NilChannels, CancelTimers
<1>8. ASSUME NEW p \in Clients,
             \/ HandleFlow(p) \/ ApiRestart(p) \/ Move(p)
             \/ \E e \in Epochs : Receive(p, e)
             \/ \E k \in Attempts : TimerExpires(p, k) \/ TimerFails(p, k)
      PROVE  ~panicked'
  BY <1>1, <1>8, Zenon DEF HandleFlow, ApiRestart, Move, Receive, TimerExpires, TimerFails
<1>9. ASSUME NEW e \in Epochs,
             \/ SendEapStart(e) \/ SendDHCPDiscovery(e) \/ FirstFailed(e)
             \/ \E f \in Epochs : Take(f, e)
             \/ CheckEapol(e) \/ CheckDhcp(e)
             \/ sendEapolPktIn(e) \/ sendDHCPRequest(e) \/ Replied(e) \/ AnswerFailed(e)
      PROVE  ~panicked'
  BY <1>1, <1>9, Zenon DEF SendEapStart, SendDHCPDiscovery, SendFirst, FirstSent, FirstFailed, Take,
     CheckEapol, CheckDhcp, sendEapolPktIn, sendDHCPRequest, Answer, Replied, AnswerFailed
<1> QED
  BY <1>3, <1>4, <1>5, <1>6, <1>7, <1>8, <1>9, Steps, Zenon

----------------------------------------------------------------------------
(* The exchange.                                                             *)

LEMMA InOrderStays ==
    ASSUME [Next]_vars, InOrder'
    PROVE  InOrder
BY OvertakenOnce, Zenon DEF InOrder

\* What HandleChannel does is at a job, and leaves the rest of its loops alone.
LEMMA LoopSteps ==
    ASSUME TypeInv, NEW e \in Epochs, SendEapStart(e) \/ SendDHCPDiscovery(e) \/ FirstFailed(e)
    PROVE  /\ loop[e] # None /\ loop[e].client \in Clients
           /\ \A x \in Epochs : x # e => loop'[x] = loop[x]
           /\ loop'[e] # None => loop'[e].client = loop[e].client
           /\ \/ SendFirst(e) /\ UNCHANGED <<state, start>> /\ loop'[e].at \in {"event", "fail"}
              \/ /\ FirstSent(e) /\ UNCHANGED <<start, sent>>
                 /\ loop'[e] = None \/ (loop'[e].at = "refail" /\ ~Can(loop[e].client, "sent"))
              \/ /\ Fail(loop[e].client) /\ UNCHANGED start
                 /\ loop'[e] = None \/ loop'[e].at = "refail"
           /\ UNCHANGED <<device, timer, onu, api, packet, handler, overtaken>>
<1>1. loop \in [Epochs -> Jobs]
  BY Zenon DEF TypeInv
<1>2. loop[e] # None /\ loop[e].client \in Clients
  BY <1>1, JobType, Zenon DEF SendEapStart, SendDHCPDiscovery, FirstFailed, Clients
<1>3. \A at \in JobAts : /\ [loop EXCEPT ![e] = GoOn(loop[e], at)][e].at = at
                         /\ [loop EXCEPT ![e] = GoOn(loop[e], at)][e].client = loop[e].client
  BY <1>1, <1>2, JobMoves, Zenon
<1>4. CASE SendFirst(e)
  BY <1>1, <1>2, <1>3, <1>4, Zenon DEF SendFirst, Goto, JobAts
<1>5. CASE FirstSent(e)
  <2>1. CASE Can(loop[e].client, "sent")
    BY <1>1, <1>2, <1>5, <2>1, JobEnds, SMTT(30) DEF FirstSent
  <2>2. CASE ~Can(loop[e].client, "sent")
    BY <1>1, <1>2, <1>3, <1>5, <2>2, ZenonT(30) DEF FirstSent, Goto, JobAts
  <2> QED
    BY <2>1, <2>2, Zenon
<1>6. CASE FirstFailed(e)
  <2>1. CASE loop[e].at = "fail"
    BY <1>1, <1>2, <1>3, <1>6, <2>1, ZenonT(60) DEF FirstFailed, Goto, JobAts
  <2>2. CASE loop[e].at # "fail"
    BY <1>1, <1>2, <1>6, <2>2, JobEnds, SMTT(60) DEF FirstFailed
  <2> QED
    BY <2>1, <2>2, Zenon
<1> QED
  BY <1>4, <1>5, <1>6, Zenon DEF SendEapStart, SendDHCPDiscovery

\* The same for HandlePackets.
LEMMA HandlerSteps ==
    ASSUME TypeInv, NEW e \in Epochs,
           \/ CheckEapol(e) \/ CheckDhcp(e)
           \/ sendEapolPktIn(e) \/ sendDHCPRequest(e) \/ Replied(e) \/ AnswerFailed(e)
    PROVE  /\ handler[e] # None /\ handler[e].client \in Clients
           /\ \A x \in Epochs : x # e => handler'[x] = handler[x]
           /\ handler'[e] # None => /\ handler'[e].client = handler[e].client
                                    /\ handler'[e].what = handler[e].what
           /\ \/ /\ CheckEapol(e) /\ UNCHANGED <<state, sent>> /\ handler[e].client = "eapol"
                 /\ handler'[e].at \in {"send", "event"} => Can("eapol", handler[e].what)
                 /\ handler'[e].at = "event" => handler[e].what = "success"
              \/ CheckDhcp(e) /\ UNCHANGED <<state, sent>> /\ handler[e].client = "dhcp"
              \/ /\ handler[e].at = "send" /\ UNCHANGED state
                 /\ \A p \in Clients : sent[p] \subseteq sent'[p]
                 /\ handler'[e].at = "event" => handler[e].what \in sent'[handler[e].client]
                 /\ handler'[e].at # "send"
              \/ Replied(e) /\ UNCHANGED sent /\ handler'[e] = None
              \/ Fail(handler[e].client) /\ (handler'[e] = None \/ handler'[e].at = "refail")
           /\ UNCHANGED <<device, start, timer, onu, api, packet, loop, overtaken>>
<1>1. handler \in [Epochs -> Jobs] /\ sent \in [Clients -> SUBSET AllMessages]
  BY Zenon DEF TypeInv
<1>2. handler[e] # None /\ handler[e].client \in Clients
  BY <1>1, JobType, Zenon DEF CheckEapol, CheckDhcp, sendEapolPktIn, sendDHCPRequest, Replied, AnswerFailed,
     Clients
<1>3. \A at \in JobAts : /\ [handler EXCEPT ![e] = GoOn(handler[e], at)][e].at = at
                         /\ [handler EXCEPT ![e] = GoOn(handler[e], at)][e].client = handler[e].client
                         /\ [handler EXCEPT ![e] = GoOn(handler[e], at)][e].what = handler[e].what
  BY <1>1, <1>2, JobMoves
<1>4. CASE CheckEapol(e)
  <2> DEFINE r == handler[e].what
             new == IF Can("eapol", r)
                    THEN Doing("eapol", IF r = "success" THEN "event" ELSE "send", r)
                    ELSE IF state["eapol"] \in {Done("eapol"), Failed("eapol")} THEN None
                    ELSE Doing("eapol", "refail", r)
  <2>1. handler' = [handler EXCEPT ![e] = new] /\ handler[e].client = "eapol"
    BY <1>4, Zenon DEF CheckEapol
  <2>2. handler'[e] = new /\ \A x \in Epochs : x # e => handler'[x] = handler[x]
    BY <1>1, <2>1, Zenon
  <2>3. /\ new # None => new.client = "eapol" /\ new.what = r
        /\ new.at \in {"send", "event"} => Can("eapol", r)
        /\ new.at = "event" => r = "success"
    BY Zenon DEF Doing, None
  <2> HIDE DEF new
  <2> QED
    BY <1>2, <1>4, <2>1, <2>2, <2>3, Zenon DEF CheckEapol, clients
<1>5. CASE CheckDhcp(e)
  <2> DEFINE at == IF handler[e].what = "ack" THEN "event" ELSE "send"
  <2>1. handler' = [handler EXCEPT ![e] = GoOn(handler[e], at)] /\ at \in JobAts
    BY <1>5, Zenon DEF CheckDhcp, JobAts
  <2> HIDE DEF at
  <2> QED
    BY <1>1, <1>2, <1>3, <1>5, <2>1, SMTT(60) DEF CheckDhcp, clients
<1>6. ASSUME NEW failing \in {"fail", "refail"}, Answer(e, failing)
      PROVE  /\ \A x \in Epochs : x # e => handler'[x] = handler[x]
             /\ handler'[e].client = handler[e].client /\ handler'[e].what = handler[e].what
             /\ handler[e].at = "send" /\ UNCHANGED state
             /\ \A p \in Clients : sent[p] \subseteq sent'[p]
             /\ handler'[e].at = "event" => handler[e].what \in sent'[handler[e].client]
             /\ handler'[e].at # "send"
             /\ UNCHANGED <<device, start, timer, onu, api, packet, loop, overtaken>>
  <2>1. failing \in JobAts /\ "event" \in JobAts
    BY DEF JobAts
  <2>2. CASE handler' = [handler EXCEPT ![e] = GoOn(handler[e], "event")] /\
             sent' = [sent EXCEPT ![handler[e].client] = @ \cup {handler[e].what}]
    BY <1>1, <1>2, <1>3, <1>6, <2>1, <2>2, ZenonT(60) DEF Answer
  <2>3. CASE handler' = [handler EXCEPT ![e] = GoOn(handler[e], failing)] /\ UNCHANGED sent
    BY <1>1, <1>2, <1>3, <1>6, <2>1, <2>3, SMTT(60) DEF Answer
  <2> QED
    BY <1>6, <2>2, <2>3, Zenon DEF Answer
<1>7. CASE Replied(e)
  BY <1>1, <1>2, <1>7, JobEnds, Zenon DEF Replied
<1>8. CASE AnswerFailed(e)
  <2>1. handler' = IF handler[e].at = "fail" THEN [handler EXCEPT ![e] = GoOn(handler[e], "refail")]
                   ELSE [handler EXCEPT ![e] = None]
    BY <1>8, Zenon DEF AnswerFailed
  <2>2. "refail" \in JobAts
    BY SMTT(30) DEF JobAts
  <2>3. CASE handler[e].at = "fail"
    BY <1>1, <1>2, <1>3, <1>8, <2>1, <2>2, <2>3, SMTT(60) DEF AnswerFailed
  <2>4. CASE handler[e].at # "fail"
    BY <1>1, <1>2, <1>8, <2>1, <2>4, JobEnds, SMTT(60) DEF AnswerFailed
  <2> QED
    BY <2>3, <2>4, Zenon
<1> QED
  BY <1>2, <1>4, <1>5, <1>6, <1>7, <1>8, Zenon DEF sendEapolPktIn, sendDHCPRequest

\* A machine that is failed rests, and what it had sent is kept only if it did.
LEMMA FailStep ==
    ASSUME TypeInv, NEW p \in Clients, Fail(p)
    PROVE  /\ start[p] = Free
           /\ \A q \in Clients : q # p => state'[q] = state[q] /\ sent'[q] = sent[q]
           /\ \/ state[p] \in Resting(p) /\ state'[p] = state[p] /\ sent'[p] = sent[p]
              \/ state[p] \notin Resting(p) /\ state'[p] = Failed(p)
<1>1. state[p] \in States(p) /\ sent \in [Clients -> SUBSET AllMessages]
  BY Zenon DEF TypeInv
<1>2. Event(p, "fail")
  BY Zenon DEF Fail
<1>3. state'[p] = After(Table(p), "fail", state[p]) /\ start[p] = Free
      /\ \A q \in Clients : q # p => state'[q] = state[q]
  BY <1>2, EventType, Zenon
<1>4. Can(p, "fail") <=> state[p] \notin Resting(p)
  BY <1>1, Machines, Zenon DEF Can
<1>5. state'[p] = IF state[p] \in Resting(p) THEN state[p] ELSE Failed(p)
  BY <1>1, <1>3, Machines, Zenon
<1> QED
  BY <1>1, <1>3, <1>4, <1>5, Zenon DEF Fail

LEMMA EpochInit == Init => EpochInv
BY DEF Init, EpochInv, NoPacket

LEMMA EpochStep ==
    ASSUME TypeInv, DeviceInv, DownInv, EpochInv, [Next]_vars
    PROVE  EpochInv'
<1> SUFFICES ASSUME InOrder' PROVE EpochInv'
  BY Zenon DEF EpochInv
<1>0. /\ \A e \in Epochs : loop[e] # None \/ handler[e] # None => e = epoch
      /\ \A f \in Epochs : packet[f].on \in {0, epoch}
      /\ \A e \in Epochs : handler[e] # None => TimersWait /\ internal = "initialized"
      /\ \A f \in Epochs : packet[f].on # 0 => TimersWait /\ internal = "initialized"
      /\ control = "initialize" => \A e \in Epochs : loop[e] = None
  BY InOrderStays, Zenon DEF EpochInv
<1>1. CASE UniEnable
  <2>1. internal # "initialized" /\ UNCHANGED <<packet, handler, loop, epoch, internal>>
    BY <1>1, Zenon DEF UniEnable, DeviceInv
  <2>2. Quiet \/ overtaken = "nothing"
    BY <1>1, Zenon DEF UniEnable, Overtakes
  <2>3. \A e \in Epochs : loop[e] = None
    BY <1>1, <2>2, Zenon DEF UniEnable, Quiet, DownInv
  <2> QED
    BY <1>0, <2>1, <2>3, Zenon DEF EpochInv
<1>2. CASE Initialize
  <2>1. internal # "initialized" /\ UNCHANGED <<packet, handler, loop>> /\ control = "initialize"
    BY <1>2, Zenon DEF Initialize, DeviceInv
  <2> QED
    BY <1>0, <2>1, Zenon DEF EpochInv
<1>3. CASE UniDisable
  <2>1. Quiet
    BY <1>3, Zenon DEF UniDisable, Overtakes, InOrder
  <2> QED
    BY <1>3, <2>1, Zenon DEF UniDisable, Quiet, EpochInv
<1>4. CASE ResetStates \/ CloseChannels \/ NilChannels
  <2>1. UNCHANGED <<packet, handler, loop, epoch, internal, timer>> /\ control' # "initialize"
    BY <1>4, Zenon DEF ResetStates, CloseChannels, NilChannels, clients
  <2> QED
    BY <1>0, <2>1, Zenon DEF EpochInv, TimersWait
<1>5. CASE CancelTimers
  <2>1. TimersWait => TimersWait'
    BY <1>5, Zenon DEF CancelTimers, TimersWait
  <2> QED
    BY <1>0, <1>5, <2>1, Zenon DEF CancelTimers, EpochInv, device
<1>6. ASSUME NEW p \in Clients,
             HandleFlow(p) \/ ApiRestart(p) \/ StartByOnu(p) \/ StartByApi(p)
      PROVE  EpochInv'
  <2>1. UNCHANGED <<packet, handler, loop, epoch, internal, timer, control>>
    BY <1>6, Zenon DEF HandleFlow, ApiRestart, StartByOnu, StartByApi, Begin, device
  <2> QED
    BY <1>0, <2>1, Zenon DEF EpochInv, TimersWait
<1>7. ASSUME NEW p \in Clients, NEW k \in Attempts,
             TimerExpires(p, k) \/ TimerFails(p, k) \/ StartByTimer(p, k)
      PROVE  EpochInv'
  <2>1. Quiet \/ ~TimersWait
    BY <1>7, Zenon DEF TimerExpires, TimerFails, StartByTimer, Overtakes, InOrder, TimersWait
  <2>2. \A e \in Epochs : handler[e] = None /\ packet[e].on = 0
    BY <1>0, <2>1, Zenon DEF Quiet
  <2>3. UNCHANGED <<packet, handler, loop, epoch, control>>
    BY <1>7, Zenon DEF TimerExpires, TimerFails, StartByTimer, Begin, device
  <2> QED
    BY <1>0, <2>2, <2>3, Zenon DEF EpochInv
<1>8. ASSUME NEW p \in Clients, NEW e \in Epochs, Receive(p, e) PROVE EpochInv'
  <2>1. e = epoch /\ control # "initialize"
    BY <1>8, Zenon DEF Receive, DeviceInv, TypeInv, TypeOK
  <2>2. /\ UNCHANGED <<packet, handler, epoch, internal, timer, control>>
        /\ \A x \in Epochs : x # e => loop'[x] = loop[x]
    BY <1>8, Zenon DEF Receive, device, TypeInv
  <2> QED
    BY <1>0, <2>1, <2>2, Zenon DEF EpochInv, TimersWait
<1>9. ASSUME NEW p \in Clients, Move(p) PROVE EpochInv'
  <2>1. TimersWait => TimersWait'
    BY <1>9, Zenon DEF Move, TimersWait, TypeInv, TypeOK
  <2>2. UNCHANGED <<packet, handler, loop, epoch, internal, control>>
    BY <1>9, Zenon DEF Move, device
  <2> QED
    BY <1>0, <2>1, <2>2, Zenon DEF EpochInv
<1>10. ASSUME NEW p \in Clients, NEW r \in Requests(p), Forward(p, r) PROVE EpochInv'
  <2>1. TimersWait /\ internal = "initialized" /\ channel = epoch
    BY <1>10, Zenon DEF Forward, Overtakes, InOrder, DeviceInv
  <2>2. UNCHANGED <<handler, loop, epoch, internal, timer, control>>
    BY <1>10, Zenon DEF Forward, device, clients
  <2> DEFINE new == IF channel = 0 THEN Stuck ELSE [client |-> p, what |-> r, on |-> channel]
  <2>3. \E f : packet' = [packet EXCEPT ![f] = new]
    BY <1>10, Zenon DEF Forward
  <2>4. new.on \in {0, channel}
    BY Zenon DEF Stuck, NoPacket
  <2> HIDE DEF new
  <2>5. \A f \in Epochs : packet'[f].on \in {0, epoch}
    BY <1>0, <2>1, <2>3, <2>4, Zenon DEF TypeInv
  <2> QED
    BY <1>0, <2>1, <2>2, <2>5, Zenon DEF EpochInv, TimersWait
<1>11. ASSUME NEW e \in Epochs, NEW f \in Epochs, Take(f, e) PROVE EpochInv'
  <2>1. packet[f].on = e /\ e # 0
    BY <1>11 DEF Take, Epochs
  <2>2. e = epoch /\ TimersWait /\ internal = "initialized"
    BY <1>0, <2>1, Zenon
  <2>3. /\ \A x \in Epochs : x # e => handler'[x] = handler[x]
        /\ \A g \in Epochs : packet'[g] = packet[g] \/ packet'[g] = NoPacket
        /\ UNCHANGED <<loop, epoch, internal, timer, control>>
    BY <1>11, Zenon DEF Take, device, clients, TypeInv
  <2>4. NoPacket.on = 0
    BY Zenon DEF NoPacket
  <2> QED
    BY <1>0, <2>2, <2>3, <2>4, Zenon DEF EpochInv, TimersWait
<1>12. ASSUME NEW e \in Epochs, SendEapStart(e) \/ SendDHCPDiscovery(e) \/ FirstFailed(e)
       PROVE  EpochInv'
  <2>1. /\ loop[e] # None /\ \A x \in Epochs : x # e => loop'[x] = loop[x]
        /\ UNCHANGED <<device, timer, packet, handler>>
    BY <1>12, LoopSteps, Zenon
  <2> QED
    BY <1>0, <2>1, Zenon DEF EpochInv, TimersWait, device
<1>13. ASSUME NEW e \in Epochs,
              \/ CheckEapol(e) \/ CheckDhcp(e)
              \/ sendEapolPktIn(e) \/ sendDHCPRequest(e) \/ Replied(e) \/ AnswerFailed(e)
       PROVE  EpochInv'
  <2>1. /\ handler[e] # None /\ \A x \in Epochs : x # e => handler'[x] = handler[x]
        /\ UNCHANGED <<device, timer, packet, loop>>
    BY <1>13, HandlerSteps, Zenon
  <2> QED
    BY <1>0, <2>1, Zenon DEF EpochInv, TimersWait, device
<1>14. CASE UNCHANGED vars
  BY <1>0, <1>14, ZenonT(30) DEF vars, device, clients, EpochInv, TimersWait
<1> QED
  BY <1>1, <1>2, <1>3, <1>4, <1>5, <1>6, <1>7, <1>8, <1>9, <1>10, <1>11, <1>12, <1>13, <1>14, Steps, ZenonT(30)

\* What the steps do to the machines and to what was sent, by who takes them.
LEMMA ExchangeSteps ==
    ASSUME TypeInv, [Next]_vars
    PROVE  \/ UNCHANGED <<state, start, sent, loop, handler>>
           \/ ResetStates
           \/ \E p \in Clients :
                \/ \E by \in {"onu", "api", "timer"} : Begin(by, p)
                \/ Move(p)
                \/ \E e \in Epochs : Receive(p, e)
                \/ /\ \E k \in Attempts : timer[p][k] = "expired"
                   /\ Fail(p) /\ UNCHANGED <<start, loop, handler>>
           \/ \E e \in Epochs :
                \/ \E f \in Epochs : Take(f, e)
                \/ SendEapStart(e) \/ SendDHCPDiscovery(e) \/ FirstFailed(e)
                \/ CheckEapol(e) \/ CheckDhcp(e)
                \/ sendEapolPktIn(e) \/ sendDHCPRequest(e) \/ Replied(e) \/ AnswerFailed(e)
<1>1. CASE \/ UNCHANGED vars
           \/ UniEnable \/ Initialize \/ UniDisable \/ CloseChannels \/ NilChannels \/ CancelTimers
  BY <1>1, Zenon DEF vars, UniEnable, Initialize, UniDisable, CloseChannels, NilChannels, CancelTimers,
     clients
<1>2. ASSUME NEW p \in Clients,
             \/ HandleFlow(p) \/ ApiRestart(p)
             \/ \E r \in Requests(p) : Forward(p, r)
             \/ \E k \in Attempts : TimerExpires(p, k)
      PROVE  UNCHANGED <<state, start, sent, loop, handler>>
  BY <1>2, Zenon DEF HandleFlow, ApiRestart, Forward, TimerExpires, clients
<1>3. ASSUME NEW p \in Clients, NEW k \in Attempts, TimerFails(p, k)
      PROVE  timer[p][k] = "expired" /\ Fail(p) /\ UNCHANGED <<start, loop, handler>>
  BY <1>3, Zenon DEF TimerFails
<1>4. ASSUME NEW p \in Clients,
             \/ StartByOnu(p) \/ StartByApi(p)
             \/ \E k \in Attempts : StartByTimer(p, k)
      PROVE  \E by \in {"onu", "api", "timer"} : Begin(by, p)
  BY <1>4, Zenon DEF StartByOnu, StartByApi, StartByTimer
<1> QED
  BY <1>1, <1>2, <1>3, <1>4, Steps, Zenon

LEMMA LoopInit == Init => LoopInv
BY Zenon DEF Init, LoopInv

LEMMA LoopStep ==
    ASSUME TypeInv, DeviceInv, StartInv, EpochInv, LoopInv, [Next]_vars
    PROVE  LoopInv'
<1> SUFFICES ASSUME InOrder', NEW x \in Epochs, loop'[x] # None
             PROVE  LET p == loop'[x].client IN
                    /\ start'[p].at = "move" \/ state'[p] \notin Beyond(p)
                    /\ loop'[x].at = "event" /\ (start'[p].at = "move" \/ state'[p] = Started(p)) =>
                         "sent" \in sent'[p]
  BY Zenon DEF LoopInv
<1> DEFINE Good(p, at, begin, s, out) ==
             /\ begin = "move" \/ s \notin Beyond(p)
             /\ at = "event" /\ (begin = "move" \/ s = Started(p)) => "sent" \in out
           c == loop'[x].client
           Goal == Good(c, loop'[x].at, start'[c].at, state'[c], sent'[c])
<1>0. InOrder /\ \A e \in Epochs : loop[e] # None => e = epoch
  BY InOrderStays, Zenon DEF EpochInv
<1>1. /\ loop \in [Epochs -> Jobs] /\ state \in [Clients -> AllStates]
      /\ sent \in [Clients -> SUBSET AllMessages]
      /\ start \in [Clients -> [at : {"free", "send", "move"}, on : 0..MaxEpoch,
                                by : {"none", "onu", "api", "timer"}]]
      /\ \A p \in Clients : state[p] \in States(p)
      /\ Free.at # "move"
  BY Zenon DEF TypeInv, TypeOK, Free
<1>2. ASSUME loop[x] # None
      PROVE  LET p == loop[x].client IN
             p \in Clients /\ Good(p, loop[x].at, start[p].at, state[p], sent[p])
  BY <1>0, <1>1, <1>2, JobType DEF LoopInv
<1>4. CASE UNCHANGED <<state, start, sent, loop, handler>>
  BY <1>2, <1>4, Zenon
<1>5. CASE ResetStates
  <2>1. control \in Clients /\ UNCHANGED <<loop, start>>
    BY <1>5, Zenon DEF ResetStates
  <2>2. /\ state'[control] = "created"
        /\ start[control] # Free => sent'[control] = sent[control]
        /\ \A q \in Clients : q # control => state'[q] = state[q] /\ sent'[q] = sent[q]
    BY <1>1, <1>5, <2>1, Zenon DEF ResetStates
  <2>3. "created" \notin Beyond(control) /\ "created" # Started(control)
    BY <1>1, <2>1, Machines, Zenon DEF Beyond
  <2>4. CASE c = control
    BY <1>1, <1>2, <2>1, <2>2, <2>3, <2>4, Zenon
  <2>5. CASE c # control
    BY <1>2, <2>1, <2>2, <2>5, Zenon
  <2> QED
    BY <2>4, <2>5, Zenon
<1>6. ASSUME NEW p \in Clients, NEW by \in {"onu", "api", "timer"}, Begin(by, p) PROVE Goal
  <2>1. UNCHANGED <<loop, state, sent>> /\ start[p] = Free
    BY <1>6, Zenon DEF Begin
  <2>2. start'[p].at # "move" /\ \A q \in Clients : q # p => start'[q] = start[q]
    BY <1>1, <1>6 DEF Begin
  <2> QED
    BY <1>1, <1>2, <2>1, <2>2, Zenon
<1>7. ASSUME NEW p \in Clients, Move(p) PROVE Goal
  <2>1. UNCHANGED <<loop, sent>> /\ start[p].at = "move"
    BY <1>7, Zenon DEF Move
  <2>2. /\ state'[p] = Started(p) /\ start'[p] = Free
        /\ \A q \in Clients : q # p => state'[q] = state[q] /\ start'[q] = start[q]
    BY <1>1, <1>7, Zenon DEF Move, Started
  <2>3. Started(p) \notin Beyond(p)
    BY Zenon DEF Beyond
  <2> QED
    BY <1>1, <1>2, <2>1, <2>2, <2>3, Zenon
<1>8. ASSUME NEW p \in Clients, NEW e \in Epochs, Receive(p, e) PROVE Goal
  <2>1. e = epoch /\ loop[e] = None
    BY <1>8, Zenon DEF Receive, DeviceInv, TypeInv, TypeOK
  <2>2. \A y \in Epochs : loop[y] = None
    BY <1>0, <2>1, Zenon
  <2>3. loop' = [loop EXCEPT ![e] = Doing(p, "send", "sent")] /\ start'[p].at = "move"
    BY <1>1, <1>8, Zenon DEF Receive
  <2>4. x = e /\ loop'[x] = Doing(p, "send", "sent")
    BY <1>1, <2>2, <2>3, ZenonT(30)
  <2> QED
    BY <2>3, <2>4 DEF Doing
<1>9. ASSUME NEW p \in Clients, Fail(p), UNCHANGED start, loop[x] # None, c = loop[x].client,
             loop'[x].at = loop[x].at \/ loop'[x].at = "refail"
      PROVE  Goal
  <2>1. /\ start[p] = Free
        /\ \A q \in Clients : q # p => state'[q] = state[q] /\ sent'[q] = sent[q]
        /\ \/ state[p] \in Resting(p) /\ state'[p] = state[p] /\ sent'[p] = sent[p]
           \/ state[p] \notin Resting(p) /\ state'[p] = Failed(p)
    BY <1>9, FailStep, Zenon
  <2>2. Failed(p) \notin Beyond(p) /\ Failed(p) # Started(p)
    BY <1>1, Machines, ZenonT(30) DEF Beyond
  <2> QED
    BY <1>1, <1>2, <1>9, <2>1, <2>2, SMTT(60)
<1>10. ASSUME NEW e \in Epochs, SendEapStart(e) \/ SendDHCPDiscovery(e) \/ FirstFailed(e) PROVE Goal
  <2>1. /\ loop[e] # None /\ loop[e].client \in Clients
        /\ \A y \in Epochs : y # e => loop'[y] = loop[y]
        /\ loop'[e] # None => loop'[e].client = loop[e].client
    BY <1>10, LoopSteps, Zenon
  <2>2. x = e /\ loop[x] # None /\ c = loop[x].client
    BY <1>0, <2>1, Zenon
  <2>3. CASE SendFirst(e) /\ UNCHANGED <<state, start>> /\ loop'[e].at \in {"event", "fail"}
    <3>1. loop'[e].at = "event" => "sent" \in sent'[c]
      <4>1. Goto(e, "fail") => loop'[e].at = "fail"
        BY <1>1, <2>1, JobMoves DEF Goto, JobAts
      <4> QED
        BY <1>1, <2>1, <2>2, <2>3, <4>1, Zenon DEF SendFirst
    <3> QED
      BY <1>2, <2>2, <2>3, <3>1, Zenon
  <2>4. CASE FirstSent(e) /\ UNCHANGED <<start, sent>> /\ loop'[e].at = "refail"
             /\ ~Can(loop[e].client, "sent")
    <3>1. Event(c, "sent") /\ start[c] = Free
      BY <2>2, <2>4, ZenonT(30) DEF FirstSent, Event
    <3>2. state'[c] = After(Table(c), "sent", state[c])
      BY <2>1, <2>2, <3>1, EventType, SMTT(30)
    <3>3. state'[c] = state[c]
      BY <2>2, <2>4, <3>2, Zenon DEF Can, After
    <3> QED
      BY <1>2, <2>2, <2>4, <3>3, Zenon
  <2>5. CASE Fail(loop[e].client) /\ UNCHANGED start /\ loop'[e].at = "refail"
    BY <1>9, <2>1, <2>2, <2>5, Zenon
  <2> QED
    BY <1>10, <2>2, <2>3, <2>4, <2>5, LoopSteps, Zenon
<1>11. ASSUME NEW e \in Epochs, NEW f \in Epochs, Take(f, e) PROVE Goal
  BY <1>2, <1>11, Zenon DEF Take, clients
<1>12. ASSUME NEW e \in Epochs,
              \/ CheckEapol(e) \/ CheckDhcp(e)
              \/ sendEapolPktIn(e) \/ sendDHCPRequest(e) \/ Replied(e) \/ AnswerFailed(e)
       PROVE  Goal
  <2>1. UNCHANGED <<start, loop>> /\ loop[x] # None /\ c = loop[x].client /\ c \in Clients
    BY <1>2, <1>12, HandlerSteps, Zenon
  <2>2. handler[e].client \in Clients /\ handler[e] # None
    BY <1>12, HandlerSteps, Zenon
  <2>3. CASE UNCHANGED state /\ \A p \in Clients : sent[p] \subseteq sent'[p]
    BY <1>2, <2>1, <2>3, Zenon
  <2>4. CASE Replied(e) /\ UNCHANGED sent
    <3> DEFINE p == handler[e].client
               r == handler[e].what
    <3>1. Event(p, r) /\ r \in Requests(p) /\ start[p] = Free
      BY <2>2, <2>4, ZenonT(30) DEF Replied, Event, TypeInv
    <3>2. /\ state'[p] = After(Table(p), r, state[p])
          /\ \A q \in Clients : q # p => state'[q] = state[q]
      BY <2>2, <3>1, EventType, ZenonT(30)
    <3>3. p = c => state'[p] = state[p]
      <4> SUFFICES ASSUME p = c PROVE state'[p] = state[p]
        BY Zenon
      <4>1. state[p] \notin Beyond(p)
        BY <1>1, <1>2, <2>1, <3>1, Zenon
      <4>2. ~Fires(Table(p), r, state[p])
        BY <1>1, <2>2, <3>1, <4>1, RequestFires, Zenon
      <4> QED
        BY <3>2, <4>2, Zenon DEF After
    <3>4. state'[c] = state[c]
      BY <2>1, <3>2, <3>3, Zenon
    <3> QED
      BY <1>2, <2>1, <2>4, <3>4, Zenon
  <2>5. CASE Fail(handler[e].client)
    BY <1>9, <2>1, <2>2, <2>5, Zenon
  <2> QED
    BY <1>12, <2>3, <2>4, <2>5, HandlerSteps, Zenon
<1>13. ASSUME NEW p \in Clients, Fail(p), UNCHANGED <<start, loop, handler>> PROVE Goal
  BY <1>9, <1>13, Zenon
<1>14. Goal
  BY <1>4, <1>5, <1>6, <1>7, <1>8, <1>10, <1>11, <1>12, <1>13, ExchangeSteps, ZenonT(60)
<1> QED
  BY <1>14, Zenon

LEMMA HandlerInit == Init => HandlerInv
BY DEF Init, HandlerInv, None

\* While an expected packet of EAPOL is answered, the machine is in the middle of
\* the exchange, nobody starts it and HandleChannel does not work for it.
LEMMA Answering ==
    ASSUME TypeInv, StartInv, EpochInv, LoopInv, HandlerInv, InOrder,
           NEW x \in Epochs, handler[x].client = "eapol", handler[x].at \in {"send", "event"}
    PROVE  /\ handler[x] # None /\ x = epoch /\ TimersWait /\ internal = "initialized"
           /\ Can("eapol", handler[x].what)
           /\ handler[x].at = "event" /\ handler[x].what # "success" =>
                handler[x].what \in sent["eapol"]
           /\ state["eapol"] \in Beyond("eapol") \ Resting("eapol")
           /\ start["eapol"] = Free
           /\ \A e \in Epochs : loop[e].client # "eapol"
<1>1. "eapol" \in Clients /\ state["eapol"] \in States("eapol")
  BY Zenon DEF Clients, TypeInv
<1>2. handler[x] \in Jobs /\ handler[x] # None
  BY JobType, Zenon DEF TypeInv
<1>3. handler[x].what \in Requests("eapol")
  BY <1>2, Zenon DEF TypeInv
<1>4. /\ Can("eapol", handler[x].what)
      /\ handler[x].at = "event" /\ handler[x].what # "success" => handler[x].what \in sent["eapol"]
  BY Zenon DEF HandlerInv
<1>5. state["eapol"] \in Beyond("eapol") \ Resting("eapol")
  BY <1>1, <1>3, <1>4, Machines, Zenon DEF Can
<1>6. start["eapol"] = Free
  BY <1>1, <1>5, ZenonT(30) DEF StartInv
<1>7. ASSUME NEW e \in Epochs, loop[e].client = "eapol" PROVE FALSE
  <2>1. loop[e] # None
    BY <1>7 DEF None
  <2>2. start["eapol"].at # "move"
    BY <1>6 DEF Free
  <2> QED
    BY <1>5, <1>7, <2>1, <2>2, ZenonT(60) DEF LoopInv
<1> QED
  BY <1>2, <1>4, <1>5, <1>6, <1>7, Zenon DEF EpochInv

LEMMA HandlerStep ==
    ASSUME TypeInv, DeviceInv, StartInv, EpochInv, LoopInv, HandlerInv, [Next]_vars
    PROVE  HandlerInv'
<1> SUFFICES ASSUME InOrder', NEW x \in Epochs,
                    handler'[x].client = "eapol", handler'[x].at \in {"send", "event"}
             PROVE  /\ Fires(Table("eapol"), handler'[x].what, state'["eapol"])
                    /\ handler'[x].at = "event" /\ handler'[x].what # "success" =>
                        handler'[x].what \in sent'["eapol"]
  BY Zenon DEF HandlerInv, Can
<1> DEFINE Goal == /\ Fires(Table("eapol"), handler'[x].what, state'["eapol"])
                   /\ handler'[x].at = "event" /\ handler'[x].what # "success" =>
                        handler'[x].what \in sent'["eapol"]
<1>0. InOrder /\ "eapol" \in Clients
  BY InOrderStays, Zenon DEF Clients
<1>1. /\ handler \in [Epochs -> Jobs] /\ state \in [Clients -> AllStates]
      /\ sent \in [Clients -> SUBSET AllMessages]
      /\ start \in [Clients -> [at : {"free", "send", "move"}, on : 0..MaxEpoch,
                                by : {"none", "onu", "api", "timer"}]]
      /\ handler'[x] # None
  BY DEF TypeInv, TypeOK, None
<1>2. ASSUME handler'[x] = handler[x], state'["eapol"] = state["eapol"],
             sent["eapol"] \subseteq sent'["eapol"]
      PROVE  Goal
  BY <1>0, <1>2, Answering, Zenon DEF Can
<1>3. CASE UNCHANGED <<state, start, sent, loop, handler>>
  BY <1>2, <1>3, Zenon
<1>4. CASE ResetStates
  <2>1. internal # "initialized" /\ handler' = handler
    BY <1>4, Zenon DEF ResetStates, DeviceInv, Clients
  <2> QED
    BY <1>0, <2>1, Answering, Zenon
<1>5. ASSUME NEW p \in Clients, NEW by \in {"onu", "api", "timer"}, Begin(by, p) PROVE Goal
  BY <1>2, <1>5, Zenon DEF Begin
<1>6. ASSUME NEW p \in Clients, Move(p) PROVE Goal
  <2>1. handler' = handler /\ sent' = sent /\ start[p] # Free
    BY <1>6 DEF Move, Free
  <2>2. p # "eapol"
    BY <1>0, <2>1, Answering, Zenon
  <2>3. state'["eapol"] = state["eapol"]
    BY <1>0, <1>1, <1>6, <2>2, Zenon DEF Move
  <2> QED
    BY <1>2, <2>1, <2>3, Zenon
<1>7. ASSUME NEW p \in Clients, NEW e \in Epochs, Receive(p, e) PROVE Goal
  <2>1. handler' = handler /\ state' = state /\ start[p] # Free
    BY <1>7 DEF Receive, Free
  <2>2. p # "eapol"
    BY <1>0, <2>1, Answering, Zenon
  <2>3. sent'["eapol"] = sent["eapol"]
    BY <1>0, <1>1, <1>7, <2>2 DEF Receive
  <2> QED
    BY <1>2, <2>1, <2>3, Zenon
<1>8. ASSUME NEW p \in Clients, NEW k \in Attempts, timer[p][k] = "expired", UNCHANGED handler
      PROVE  FALSE
  BY <1>0, <1>8, Answering, ZenonT(30) DEF TimersWait
<1>9. ASSUME NEW e \in Epochs, NEW f \in Epochs, Take(f, e) PROVE Goal
  <2>1. x # e
    BY <1>1, <1>9, Zenon DEF Take, Doing
  <2> QED
    BY <1>1, <1>2, <1>9, <2>1 DEF Take, clients
<1>10. ASSUME NEW e \in Epochs, SendEapStart(e) \/ SendDHCPDiscovery(e) \/ FirstFailed(e) PROVE Goal
  <2>1. loop[e].client \in Clients /\ handler' = handler
    BY <1>10, LoopSteps, Zenon
  <2>2. loop[e].client # "eapol"
    BY <1>0, <2>1, Answering
  <2>3. state'["eapol"] = state["eapol"] /\ sent'["eapol"] = sent["eapol"]
    <3>1. CASE SendFirst(e)
      BY <1>0, <1>1, <2>1, <2>2, <3>1, SMTT(30) DEF SendFirst
    <3>2. CASE FirstSent(e)
      BY <1>0, <1>1, <2>1, <2>2, <3>2, Zenon DEF FirstSent, Event
    <3>3. CASE Fail(loop[e].client)
      BY <1>0, <2>1, <2>2, <3>3, FailStep, SMTT(60)
    <3> QED
      BY <1>10, <3>1, <3>2, <3>3, LoopSteps, ZenonT(30)
  <2> QED
    BY <1>2, <2>1, <2>3, Zenon
<1>11. ASSUME NEW e \in Epochs,
              \/ CheckEapol(e) \/ CheckDhcp(e)
              \/ sendEapolPktIn(e) \/ sendDHCPRequest(e) \/ Replied(e) \/ AnswerFailed(e)
       PROVE  Goal
  <2>1. /\ handler[e] # None /\ handler[e].client \in Clients
        /\ \A y \in Epochs : y # e => handler'[y] = handler[y]
        /\ handler'[e] # None => /\ handler'[e].client = handler[e].client
                                 /\ handler'[e].what = handler[e].what
    BY <1>11, HandlerSteps, Zenon
  <2>2. x = e
    <3> SUFFICES ASSUME x # e PROVE FALSE
      BY Zenon
    <3>1. handler[x] # None
      BY <1>1, <2>1, Zenon
    <3> QED
      BY <1>0, <2>1, <3>1, Zenon DEF EpochInv
  <2>3. handler[e].client = "eapol" /\ handler'[x].what = handler[e].what
    BY <1>1, <2>1, <2>2, Zenon
  <2>4. CASE /\ CheckEapol(e) /\ UNCHANGED <<state, sent>>
             /\ handler'[e].at \in {"send", "event"} => Can("eapol", handler[e].what)
             /\ handler'[e].at = "event" => handler[e].what = "success"
    BY <2>2, <2>3, <2>4, ZenonT(30) DEF Can
  <2>5. CASE /\ handler[e].at = "send" /\ UNCHANGED state
             /\ handler'[e].at = "event" => handler[e].what \in sent'[handler[e].client]
    <3>1. Can("eapol", handler[e].what)
      BY <1>0, <2>3, <2>5, Answering, Zenon
    <3> QED
      BY <2>2, <2>3, <2>5, <3>1 DEF Can
  <2>6. ~(handler'[e] = None) /\ handler'[e].at # "refail" /\ handler[e].client # "dhcp"
    BY <1>1, <2>2, <2>3
  <2> QED
    BY <1>11, <2>4, <2>5, <2>6, HandlerSteps, Zenon
<1>12. Goal
  BY <1>3, <1>4, <1>5, <1>6, <1>7, <1>8, <1>9, <1>10, <1>11, ExchangeSteps, ZenonT(60)
<1> QED
  BY <1>12, Zenon

LEMMA SentInit == Init => SentInv
BY Zenon DEF Init, SentInv, Beyond

\* What has to have been sent in a state of a machine.
Owed(p, s) ==
    (IF s \in Beyond(p) THEN {"sent"} ELSE {})
    \cup (IF p = "eapol" /\ s \in {"identity_sent", "challenge_sent", "success_received"}
          THEN {"identity"} ELSE {})
    \cup (IF p = "eapol" /\ s \in {"challenge_sent", "success_received"} THEN {"challenge"} ELSE {})

LEMMA SentOwed ==
    SentInv <=> (InOrder => \A p \in Clients : start[p].at # "move" => Owed(p, state[p]) \subseteq sent[p])
BY Zenon DEF SentInv, Owed

\* A machine that fires an expected event owes what that event stands for.
LEMMA OwedSteps ==
    ASSUME NEW p \in Clients, NEW s \in States(p)
    PROVE  /\ Owed(p, "created") = {} /\ Owed(p, Started(p)) = {} /\ Owed(p, Failed(p)) = {}
           /\ s = Started(p) => Owed(p, After(Table(p), "sent", s)) \subseteq {"sent"}
           /\ \A r \in Requests(p) : Fires(Table(p), r, s) =>
                Owed(p, After(Table(p), r, s)) \subseteq
                  Owed(p, s) \cup (IF p = "eapol" /\ r # "success" THEN {r} ELSE {})
<1>1. CASE p = "eapol"
  <2>1. Table(p) = EapolTx /\ Failed(p) = "auth_failed"
    BY <1>1, Zenon DEF Table, Failed
  <2>2. Started(p) = "auth_started"
    BY <2>1, EapolFires, Zenon DEF Started
  <2>3. Beyond(p) = {"start_sent", "identity_sent", "challenge_sent", "success_received"}
    BY <1>1, <2>1, <2>2, EapolSets DEF Beyond
  <2>4. /\ Owed(p, "created") = {} /\ Owed(p, Started(p)) = {} /\ Owed(p, Failed(p)) = {}
        /\ Owed(p, "start_sent") = {"sent"} /\ Owed(p, "identity_sent") = {"sent", "identity"}
        /\ Owed(p, "challenge_sent") = {"sent", "identity", "challenge"}
        /\ Owed(p, "success_received") = {"sent", "identity", "challenge"}
    BY <1>1, <2>1, <2>2, <2>3, Zenon DEF Owed
  <2> QED
    BY <1>1, <2>1, <2>2, <2>4, EapolFires, EapolSets, SMTT(30) DEF After
<1>2. CASE p = "dhcp"
  <2>1. Table(p) = DhcpTx /\ Failed(p) = "dhcp_failed"
    BY <1>2, Zenon DEF Table, Failed
  <2>2. Started(p) = "dhcp_started"
    BY <2>1, DhcpFires, Zenon DEF Started
  <2>3. Beyond(p) = {"discovery_sent", "request_sent", "ack_received"}
    BY <1>2, <2>1, <2>2, DhcpSets, Zenon DEF Beyond
  <2>4. /\ Owed(p, "created") = {} /\ Owed(p, Started(p)) = {} /\ Owed(p, Failed(p)) = {}
        /\ Owed(p, "discovery_sent") = {"sent"} /\ Owed(p, "request_sent") = {"sent"}
        /\ Owed(p, "ack_received") = {"sent"}
    BY <1>2, <2>1, <2>2, <2>3, Zenon DEF Owed
  <2> QED
    BY <1>2, <2>1, <2>2, <2>4, DhcpFires, DhcpSets, SMTT(30) DEF After
<1> QED
  BY <1>1, <1>2, SMTT(60) DEF Clients

LEMMA SentStep ==
    ASSUME TypeInv, DeviceInv, StartInv, EpochInv, LoopInv, HandlerInv, SentInv, [Next]_vars
    PROVE  SentInv'
<1>1. SentInv' <=> (InOrder' => \A p \in Clients : start'[p].at # "move" => Owed(p, state'[p]) \subseteq sent'[p])
  BY Zenon DEF SentInv, Owed
<1> SUFFICES ASSUME InOrder', NEW c \in Clients, start'[c].at # "move"
             PROVE  Owed(c, state'[c]) \subseteq sent'[c]
  BY <1>1, Zenon
<1> DEFINE Goal == Owed(c, state'[c]) \subseteq sent'[c]
<1>2. InOrder /\ (start[c].at # "move" => Owed(c, state[c]) \subseteq sent[c])
  BY InOrderStays, SentOwed, Zenon
<1>3. /\ loop \in [Epochs -> Jobs] /\ handler \in [Epochs -> Jobs] /\ state \in [Clients -> AllStates]
      /\ sent \in [Clients -> SUBSET AllMessages]
      /\ start \in [Clients -> [at : {"free", "send", "move"}, on : 0..MaxEpoch,
                                by : {"none", "onu", "api", "timer"}]]
      /\ \A p \in Clients : state[p] \in States(p)
      /\ Free.at # "move"
  BY Zenon DEF TypeInv, TypeOK, Free
<1>s. \A p \in Clients :
        /\ state[p] = Started(p) => Owed(p, After(Table(p), "sent", state[p])) \subseteq {"sent"}
        /\ \A r \in Requests(p) : Fires(Table(p), r, state[p]) =>
             Owed(p, After(Table(p), r, state[p])) \subseteq
               Owed(p, state[p]) \cup (IF p = "eapol" /\ r # "success" THEN {r} ELSE {})
  BY <1>3, OwedSteps, Zenon
<1>4. ASSUME start[c].at # "move", state'[c] = state[c], sent[c] \subseteq sent'[c] PROVE Goal
  BY <1>2, <1>4, Zenon
<1>5. CASE UNCHANGED <<state, start, sent, loop, handler>>
  BY <1>4, <1>5, Zenon
<1>6. CASE ResetStates
  BY <1>3, <1>4, <1>6, OwedSteps, SMTT(30) DEF ResetStates
<1>7. ASSUME NEW p \in Clients, NEW by \in {"onu", "api", "timer"}, Begin(by, p) PROVE Goal
  <2>1. start[c].at # "move"
    BY <1>3, <1>7, Zenon DEF Begin
  <2> QED
    BY <1>4, <1>7, <2>1, Zenon DEF Begin
<1>8. ASSUME NEW p \in Clients, Move(p) PROVE Goal
  BY <1>3, <1>4, <1>8, OwedSteps, ZenonT(30) DEF Move, Started
<1>9. ASSUME NEW p \in Clients, NEW e \in Epochs, Receive(p, e) PROVE Goal
  BY <1>3, <1>4, <1>9, Zenon DEF Receive
<1>10. ASSUME NEW p \in Clients, Fail(p), UNCHANGED start PROVE Goal
  <2>1. /\ \A q \in Clients : q # p => state'[q] = state[q] /\ sent'[q] = sent[q]
        /\ \/ state[p] \in Resting(p) /\ state'[p] = state[p] /\ sent'[p] = sent[p]
           \/ state[p] \notin Resting(p) /\ state'[p] = Failed(p)
    BY <1>10, FailStep, Zenon
  <2>2. Owed(p, Failed(p)) = {}
    BY <1>3, OwedSteps, Zenon
  <2> QED
    BY <1>4, <1>10, <2>1, <2>2, Zenon
<1>11. ASSUME NEW e \in Epochs, NEW f \in Epochs, Take(f, e) PROVE Goal
  BY <1>4, <1>11, ZenonT(30) DEF Take, clients
<1>12. ASSUME NEW e \in Epochs, SendFirst(e) PROVE Goal
  BY <1>3, <1>4, <1>12 DEF SendFirst
<1>13. ASSUME NEW e \in Epochs, loop[e] # None, loop[e].client \in Clients, FirstSent(e) PROVE Goal
  <2> DEFINE p == loop[e].client
  <2>1. Event(p, "sent") /\ UNCHANGED <<start, sent>> /\ loop[e].at = "event"
    BY <1>13, Zenon DEF FirstSent
  <2>2. /\ start[p] = Free /\ \A q \in Clients : q # p => state'[q] = state[q]
        /\ state'[p] = After(Table(p), "sent", state[p])
    BY <1>13, <2>1, EventType, ZenonT(30)
  <2>3. CASE state[p] = Started(p)
    <3>1. "sent" \in sent[p]
      BY <1>2, <1>13, <2>1, <2>3, ZenonT(30) DEF LoopInv
    <3>2. Owed(p, state'[p]) \subseteq {"sent"}
      BY <1>13, <1>s, <2>2, <2>3, Zenon
    <3>3. CASE p = c
      BY <2>1, <3>1, <3>2, <3>3, Zenon
    <3>4. CASE p # c
      BY <1>4, <2>1, <2>2, <3>4, Zenon
    <3> QED
      BY <3>3, <3>4, Zenon
  <2>4. CASE state[p] # Started(p)
    <3>1. state'[p] = state[p]
      BY <1>3, <1>13, <2>2, <2>4, Machines, Zenon
    <3> QED
      BY <1>4, <2>1, <2>2, <3>1, ZenonT(30)
  <2> QED
    BY <2>3, <2>4, Zenon
<1>14. ASSUME NEW e \in Epochs, handler[e] # None, handler[e].client \in Clients, Replied(e) PROVE Goal
  <2> DEFINE p == handler[e].client
             r == handler[e].what
  <2>1. Event(p, r) /\ UNCHANGED <<start, sent>> /\ handler[e].at = "event" /\ r \in Requests(p)
    BY <1>14, Zenon DEF Replied, TypeInv
  <2>2. /\ start[p] = Free /\ \A q \in Clients : q # p => state'[q] = state[q]
        /\ state'[p] = After(Table(p), r, state[p])
    BY <1>14, <2>1, EventType, Zenon
  <2>3. p = "eapol" /\ r # "success" => r \in sent[p]
    BY <1>2, <2>1, Answering, Zenon
  <2>4. CASE Fires(Table(p), r, state[p])
    <3>1. Owed(p, state'[p]) \subseteq Owed(p, state[p]) \cup (IF p = "eapol" /\ r # "success" THEN {r} ELSE {})
      <4>1. p \in Clients /\ r \in Requests(p)
        BY <1>14, <2>1, Zenon
      <4> HIDE DEF p, r
      <4>2. Owed(p, After(Table(p), r, state[p])) \subseteq
              Owed(p, state[p]) \cup (IF p = "eapol" /\ r # "success" THEN {r} ELSE {})
        BY <1>s, <2>4, <4>1, Zenon
      <4> QED
        BY <2>2, <4>2, Zenon
    <3>2. CASE p = c
      BY <1>2, <1>3, <2>1, <2>2, <2>3, <3>1, <3>2, ZenonT(30)
    <3>3. CASE p # c
      BY <1>4, <2>1, <2>2, <3>3, Zenon
    <3> QED
      BY <3>2, <3>3, Zenon
  <2>5. CASE ~Fires(Table(p), r, state[p])
    <3>1. state'[p] = state[p]
      BY <2>2, <2>5, Zenon DEF After
    <3> QED
      BY <1>4, <2>1, <2>2, <3>1, ZenonT(30)
  <2> QED
    BY <2>4, <2>5, Zenon
<1>15. ASSUME NEW e \in Epochs, SendEapStart(e) \/ SendDHCPDiscovery(e) \/ FirstFailed(e) PROVE Goal
  BY <1>10, <1>12, <1>13, <1>15, LoopSteps, ZenonT(30)
<1>16. ASSUME NEW e \in Epochs,
              \/ CheckEapol(e) \/ CheckDhcp(e)
              \/ sendEapolPktIn(e) \/ sendDHCPRequest(e) \/ Replied(e) \/ AnswerFailed(e)
       PROVE  Goal
  <2>1. handler[e] # None /\ handler[e].client \in Clients /\ UNCHANGED start
    BY <1>16, HandlerSteps, Zenon
  <2>2. CASE UNCHANGED state /\ \A p \in Clients : sent[p] \subseteq sent'[p]
    BY <1>4, <2>1, <2>2, Zenon
  <2>3. \/ UNCHANGED state /\ \A p \in Clients : sent[p] \subseteq sent'[p]
        \/ Replied(e)
        \/ Fail(handler[e].client)
    BY <1>16, HandlerSteps, Zenon
  <2>4. CASE Replied(e)
    BY <1>14, <2>1, <2>4, Zenon
  <2>5. CASE Fail(handler[e].client)
    BY <1>10, <2>1, <2>5, Zenon
  <2> QED
    BY <2>2, <2>3, <2>4, <2>5, Zenon
<1>17. Goal
  BY <1>5, <1>6, <1>7, <1>8, <1>9, <1>10, <1>11, <1>15, <1>16, ExchangeSteps, Zenon
<1> QED
  BY <1>17, Zenon

----------------------------------------------------------------------------

Inv ==
    /\ TypeInv /\ DeviceInv /\ StartInv /\ CountInv /\ TimerInv /\ DownInv /\ UpInv
    /\ PanicInv /\ EpochInv /\ LoopInv /\ HandlerInv /\ SentInv

\* The inductive invariant of the service.
THEOREM Invariance == Spec => []Inv
<1>1. Init => Inv
  BY TypeInit, DeviceInit, StartInit, CountInit, TimerInit, DownInit, UpInit, PanicInit, EpochInit,
     LoopInit, HandlerInit, SentInit, Zenon DEF Inv
<1>2. Inv /\ [Next]_vars => Inv'
  BY TypeStep, DeviceStep, StartStep, CountStep, TimerStep, DownStep, UpStep, PanicStep, EpochStep,
     LoopStep, HandlerStep, SentStep, Zenon DEF Inv
<1> QED
  BY <1>1, <1>2, PTL DEF Spec

\* A client that completed had sent all of its packets in that very attempt, as
\* long as no timer, no packet and no disabling came in the middle of something.
THEOREM Exchanges == Spec => []ExchangeComplete
<1>1. Inv => ExchangeComplete
  <2> SUFFICES ASSUME Inv, NEW p \in Clients, state[p] = Done(p), start[p].at # "move", InOrder
               PROVE  "sent" \in sent[p] /\ (p = "eapol" => Answered(p) \subseteq sent[p])
    BY ZenonT(30) DEF Inv, TypeInv, ExchangeComplete, InOrder
  <2>1. state[p] \in Beyond(p)
    BY Machines, ZenonT(60) DEF Inv, TypeInv
  <2>2. p = "eapol" => Answered(p) = {"identity", "challenge"} /\ Done(p) = "success_received"
    BY EapolSets, Zenon DEF Answered, Done
  <2> QED
    BY <2>1, <2>2, Zenon DEF Inv, SentInv
<1> QED
  BY <1>1, Invariance, PTL

\* service.Disable leaves both machines in created, and they stay there until the
\* UNI is enabled, however many timers of earlier attempts expire.
THEOREM Forgets == Spec => []DisabledForgets
<1>1. Inv => DisabledForgets
  <2> SUFFICES ASSUME Inv, internal = "disabled", control = "idle",
                      overtaken \notin {"disable", "flow", "timer"}
               PROVE  \A p \in Clients : state[p] = "created"
    BY Zenon DEF DisabledForgets
  <2>1. uni = "down"
    BY Zenon DEF Inv, TypeInv, TypeOK, DeviceInv
  <2>2. Reset = Clients
    BY DEF Reset
  <2> QED
    BY <2>1, <2>2, Zenon DEF Inv, DownInv
<1> QED
  BY <1>1, Invariance, PTL

\* Starts of the ONU and of the API are sent on a channel that is open, every
\* exchange has a timer, and no goroutine sends on a closed channel, for any
\* number of attempts and of times that the UNI goes up and down.
THEOREM Receives == Spec => []StartsReceived
<1>1. Inv => StartsReceived
  <2> SUFFICES ASSUME Inv PROVE StartsReceived
    BY Zenon
  <2>1. ASSUME NEW p \in Clients, start[p].at = "send", start[p].by # "timer",
               overtaken \notin {"disable", "flow", "restart"}
        PROVE  start[p].on \in open
    BY <2>1, Zenon DEF Inv, UpInv, DeviceInv
  <2> QED
    BY <2>1, Zenon DEF Inv, PanicInv, TimerInv, Resting, StartsReceived
<1> QED
  BY <1>1, Invariance, PTL
============================================================================
