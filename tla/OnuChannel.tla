------------------------------ MODULE OnuChannel ------------------------------
(***************************************************************************)
(* The message channel of one ONU and the goroutines around it.            *)
(*                                                                         *)
(* A new channel is made when the ONU is initialized, together with a      *)
(* goroutine that runs ProcessOnuMessages; the channel is closed to end    *)
(* that goroutine, either by the callback that disables the ONU or, when   *)
(* flows are still installed then, by the removal of the last of them.     *)
(* gRPC handlers check the state of the ONU and then send.                 *)
(*                                                                         *)
(* Go's rules: a send blocks on a nil or a full channel and panics on a    *)
(* closed one, closing a channel twice panics, a receive from a closed     *)
(* channel drains it and then fails.                                       *)
(***************************************************************************)
EXTENDS Naturals, Sequences, FiniteSets, DeviceFsm

CONSTANTS
    Flow,       \* flows VOLTHA installs on the ONU
    Sender,     \* gRPC handlers that send messages to the ONU
    Driver,     \* goroutines that move the state of the ONU
    Loop,       \* goroutines that may run ProcessOnuMessages, as numbers
    MaxChannel, \* bound on the channels made
    Capacity,   \* of a channel (2048 in the code)
    Requests,   \* what the drivers may be asked to do
    OmciTypes,  \* OMCI requests: "uni" locks or unlocks the UNI, "routine" is
                \* any other
    Flowless    \* the flow of a message that is not about one

ASSUME CapacityAssumption == Capacity \in Nat \ {0} /\ MaxChannel \in Nat

ASSUME RequestsAssumption ==
    /\ Requests \subseteq {"PowerOn", "Shutdown", "DeleteOnu", "ActivateOnu",
                           "DisablePonIf", "EnablePonIf", "Reconnect"}
    /\ OmciTypes \subseteq {"uni", "routine"}

VARIABLES
    state,     \* InternalState of the ONU
    callback,  \* <<driver, steps left>> of the FSM event in progress
    prog,      \* what every driver still has to do
    channel,   \* the channel in Onu.Channel, 0 for nil
    queue,     \* the messages in every channel
    closed,    \* the channels that are closed
    FlowIds,   \* Onu.FlowIds
    uniUp,     \* the UNI of the ONU is up
    loop,      \* the goroutines that run ProcessOnuMessages
    context,   \* the enable context of the OLT
    pending,   \* what every sender is about to send
    installed, \* flows that VOLTHA has added and not removed
    died,      \* a goroutine panicked: the process is gone
    overtaken  \* what has been overtaken so far: messages to a channel by its
               \* "close", an addition by its "removal", a goroutine that reads
               \* the channel by the one of a "reconnection"

channelVars == <<state, callback, prog, channel, queue, closed, FlowIds, uniUp, loop,
                 context, pending, installed, died, overtaken>>
onuVars == <<state, callback, prog, uniUp>>
voltha == <<pending, installed>>
history == <<context, overtaken>>

Channels == 1..MaxChannel

Msg(type, f) == [type |-> type, flow |-> f]
Plain(type) == Msg(type, Flowless)
Nothing == Plain("none")

\* a message that only makes the goroutine of the ONU answer or report: a
\* discovery, an indication, an alarm, a packet, most of OMCI
Routine == Plain("routine")

Types == {"none", "routine", "uni", "add", "remove"}
Messages == [type : Types, flow : Flow \cup {Flowless}]

NoLoop == [at |-> "none", ch |-> 0, ctx |-> 0, msg |-> Nothing]
Calm == <<>>

Ops == {"initialize", "discover", "enable", "disable", "pon_disable",
        "alarm", "alarm_unless_disabled", "rediscover", "spawn"}

\* The types: a channel never holds more than its capacity, and only channels that
\* were made are closed (CreateONU, enter_initialized, enter_disabled).
ChannelTypeOK ==
    /\ state \in OnuStates
    /\ callback = Calm \/ (callback[1] \in Driver /\
                          callback[2] \in {"make", "disc", "indication",
                                           "down", "unis", "close"})
    /\ prog \in [Driver -> Seq(Ops)]
    /\ channel \in 0..MaxChannel
    /\ queue \in [Channels -> Seq(Messages)]
    /\ \A c \in Channels : Len(queue[c]) <= Capacity
    /\ closed \subseteq 1..channel
    /\ FlowIds \in Seq(Flow)
    /\ uniUp \in BOOLEAN
    /\ loop \in [Loop -> [at : {"none", "ready", "wait", "flow", "close"},
                          ch : 0..MaxChannel, ctx : Nat, msg : Messages]]
    /\ context \in Nat
    /\ pending \in [Sender -> Messages]
    /\ installed \subseteq Flow
    /\ died \in BOOLEAN
    /\ overtaken \subseteq {"close", "removal", "reconnection"}

\* CreateONU; the first Enable has started the OLT
ChannelInit ==
    /\ state = "created"
    /\ callback = Calm
    /\ prog = [d \in Driver |-> <<>>]
    /\ channel = 0
    /\ queue = [c \in Channels |-> <<>>]
    /\ closed = {}
    /\ FlowIds = <<>>
    /\ uniUp = FALSE
    /\ loop = [l \in Loop |-> NoLoop]
    /\ context = 1
    /\ pending = [s \in Sender |-> Nothing]
    /\ installed = {}
    /\ died = FALSE
    /\ overtaken = {}

-----------------------------------------------------------------------------
(***************************************************************************)
(* Channels.                                                               *)
(***************************************************************************)

Send(m) ==
    /\ channel # 0
    /\ IF channel \in closed
       THEN died' = TRUE /\ UNCHANGED queue
       ELSE /\ Len(queue[channel]) < Capacity
            /\ queue' = [queue EXCEPT ![channel] = Append(@, m)]
            /\ UNCHANGED died

Working(l) == loop[l].at \in {"ready", "flow", "close"}
Live(l) == loop[l].at # "none"

\* all messages are handled
Drained ==
    /\ \A l \in Loop : ~Working(l)
    /\ \A c \in Channels : queue[c] = <<>>

\* messages that make the goroutine of the ONU do more than answer
Eventful == {"add", "remove", "uni"}

\* somebody is about to send to the channel in use or such a message is in it
Unsettled ==
    \/ \E s \in Sender : pending[s] # Nothing
    \/ /\ channel # 0
       /\ \E i \in 1..Len(queue[channel]) : queue[channel][i].type \in Eventful

Overtakes(what, overtakes) ==
    overtaken' = IF overtakes THEN overtaken \cup {what} ELSE overtaken

Head1(d, op) == prog[d] # <<>> /\ Head(prog[d]) = op

\* busy: another of those that close channels is at work
Close(busy) ==
    /\ died' = (channel \in closed)
    /\ closed' = closed \cup {channel}
    /\ Overtakes("close", Unsettled \/ busy \/ \E d \in Driver : Head1(d, "alarm"))

LoopBusy(loops) == \E l \in loops : loop[l].at \in {"flow", "close"}

\* `go o.ProcessOnuMessages' on the current context; goroutines are alike, and
\* the first that is free stands for any
Spawn(l) ==
    /\ loop[l].at = "none" /\ \A k \in Loop : k < l => Live(k)
    /\ loop' = [loop EXCEPT ![l] = [NoLoop EXCEPT !.at = "ready",
                                                  !.ctx = context]]

-----------------------------------------------------------------------------
(***************************************************************************)
(* What moves the ONU: every driver fires FSM events one after the other,  *)
(* and an event holds the mutex of the machine while its callback runs.    *)
(***************************************************************************)

\* nothing is going on but goroutines that wait for messages
Quiet ==
    /\ callback = Calm
    /\ \A d \in Driver : prog[d] = <<>>
    /\ \A s \in Sender : pending[s] = Nothing
    /\ Drained

Program(r) ==
    CASE r = "PowerOn" -> IF state \in {"created", "disabled"}
                          THEN <<"initialize", "alarm", "discover">> \o
                               (IF state = "disabled" THEN <<"enable">> ELSE <<>>)
                          ELSE <<"alarm", "discover">>
      [] r = "Shutdown" -> <<"alarm_unless_disabled", "disable">>
      [] r = "DeleteOnu" -> <<"disable", "rediscover">>
      [] r = "ActivateOnu" -> <<"enable">>
      [] r = "DisablePonIf" -> <<"pon_disable">>
      [] r = "EnablePonIf" -> <<"enable">>
      [] r = "Reconnect" -> <<"rediscover", "spawn">>

\* the goroutines a request starts
Goroutines(r) ==
    CASE r = "Reconnect" -> 2
      [] r \in {"PowerOn", "DeleteOnu"} -> 1
      [] OTHER -> 0

\* a power-on of an ONU that has no channel yet would wait for ever; after
\* something was overtaken what is in progress goes on and nothing new begins
Begin(d, r) ==
    /\ overtaken = {}
    /\ prog[d] = <<>> /\ r \in Requests
    /\ r \in {"PowerOn", "DeleteOnu", "Reconnect"} => channel < MaxChannel
    /\ Cardinality({l \in Loop : loop[l].at = "none"}) >= Goroutines(r)
    /\ channel = 0 => r = "PowerOn"
    /\ prog' = [prog EXCEPT ![d] = Program(r)]
    /\ context' = IF r = "Reconnect" THEN context + 1 ELSE context
    /\ Overtakes(IF r = "Reconnect" THEN "reconnection" ELSE "close",
                 r = "Reconnect" \/ (Head(Program(r)) = "alarm" /\ channel \in closed))
    /\ UNCHANGED <<state, callback, channel, queue, closed, FlowIds, uniUp,
                   loop, voltha, died>>

FirstStep(e) ==
    CASE e = "initialize" -> "make"
      [] e = "discover" -> "disc"
      [] e = "enable" -> "indication"
      [] e = "disable" -> "down"
      [] e = "pon_disable" -> "none"

Pop(d) == prog' = [prog EXCEPT ![d] = Tail(@)]

\* FSM.Event: the new state is visible before its callback runs
FireEvent(d, e) ==
    /\ callback = Calm
    /\ Head1(d, e)
    /\ state' = After(OnuTx, e, state)
    /\ callback' = IF Fires(OnuTx, e, state) /\ FirstStep(e) # "none"
                   THEN <<d, FirstStep(e)>> ELSE Calm
    /\ Pop(d)
    /\ UNCHANGED <<channel, queue, closed, FlowIds, uniUp, loop, history,
                   voltha, died>>

\* the initialize and discover events of ReDiscoverOnu, or the message again;
\* it sleeps "to be sure of the cleanup"
Rediscover(d) ==
    /\ Head1(d, "rediscover")
    /\ (callback # Calm => callback[1] # d)
    /\ IF state # "discovered"
       THEN /\ prog' = [prog EXCEPT
                          ![d] = <<"initialize", "discover">> \o Tail(@)]
            /\ UNCHANGED <<queue, died>>
       ELSE Send(Routine) /\ Pop(d)
    /\ UNCHANGED <<state, callback, channel, closed, FlowIds, uniUp, loop,
                   history, voltha>>

\* SendOMCIAlarmNotificationMsg
Alarm(d) ==
    /\ callback # Calm => callback[1] # d
    /\ \/ Head1(d, "alarm") /\ Send(Routine) /\ Pop(d) /\ UNCHANGED overtaken
       \/ /\ Head1(d, "alarm_unless_disabled")
          /\ prog' = [prog EXCEPT ![d] = IF state = "disabled" THEN Tail(@)
                                         ELSE <<"alarm">> \o Tail(@)]
          /\ Overtakes("close", state # "disabled" /\ channel \in closed)
          /\ UNCHANGED <<queue, died>>
    /\ UNCHANGED <<state, callback, channel, closed, FlowIds, uniUp, loop,
                   context, voltha>>

\* Enable starts a goroutine for every ONU when it is called again
SpawnAgain(d, l) ==
    /\ Head1(d, "spawn")
    /\ callback # Calm => callback[1] # d
    /\ Spawn(l)
    /\ Pop(d)
    /\ UNCHANGED <<state, callback, channel, queue, closed, FlowIds, uniUp,
                   history, voltha, died>>

InCallback(step) == callback # Calm /\ callback[2] = step
Then(step) == callback' = IF step = "none" THEN Calm ELSE <<callback[1], step>>

\* Mutant: a channel that is still open is kept.
ReuseChannel(l) ==
    /\ InCallback("make")
    /\ channel' = IF channel \in closed \cup {0} THEN channel + 1 ELSE channel
    /\ Overtakes("close", Unsettled \/ ~Drained)
    /\ Spawn(l)
    /\ Then("none")
    /\ UNCHANGED <<state, prog, queue, closed, FlowIds, uniUp, context, voltha,
                   died>>

\* enter_initialized
MakeChannel(l) ==
    /\ InCallback("make")
    /\ channel < MaxChannel
    /\ channel' = channel + 1
    /\ Overtakes("close", Unsettled \/ ~Drained)
    /\ Spawn(l)
    /\ Then("none")
    /\ UNCHANGED <<state, prog, queue, closed, FlowIds, uniUp, context, voltha,
                   died>>

\* enter_discovered, enter_enabled
Announce ==
    /\ InCallback("disc") \/ InCallback("indication")
    /\ Send(Routine)
    /\ Then("none")
    /\ UNCHANGED <<state, prog, channel, closed, FlowIds, uniUp, loop, history,
                   voltha>>

\* enter_disabled: the indication, ...
SendDown ==
    /\ InCallback("down")
    /\ Send(Routine)
    /\ Then("unis")
    /\ UNCHANGED <<state, prog, channel, closed, FlowIds, uniUp, loop, history,
                   voltha>>

\* ... the alarms of the UNI ports that go down, ...
DisableUnis ==
    /\ InCallback("unis")
    /\ IF uniUp THEN Send(Routine) ELSE UNCHANGED <<queue, died>>
    /\ uniUp' = FALSE
    /\ Then("close")
    /\ UNCHANGED <<state, prog, channel, closed, FlowIds, loop, history, voltha>>

\* ... and the end of the goroutine unless flows are still to be removed
CloseIfNoFlows ==
    /\ InCallback("close")
    /\ IF FlowIds = <<>> THEN Close(LoopBusy(Loop)) ELSE UNCHANGED <<closed, overtaken, died>>
    /\ Then("none")
    /\ UNCHANGED <<state, prog, channel, queue, FlowIds, uniUp, loop, context,
                   voltha>>

-----------------------------------------------------------------------------
(***************************************************************************)
(* ProcessOnuMessages.                                                     *)
(***************************************************************************)

GoTo(l, at) == loop' = [loop EXCEPT ![l] = [@ EXCEPT !.at = at]]
End(l) == loop' = [loop EXCEPT ![l] = NoLoop]

\* select evaluates o.Channel when it is entered
Select(l) ==
    /\ loop[l].at = "ready"
    /\ loop' = [loop EXCEPT ![l] = [@ EXCEPT !.at = "wait", !.ch = channel,
                                             !.msg = Nothing]]
    /\ UNCHANGED <<onuVars, channel, queue, closed, FlowIds, history, voltha,
                   died>>

\* the context is cancelled: any of the cases that are ready may be taken
Cancelled(l) ==
    /\ loop[l].at = "wait" /\ loop[l].ctx # context
    /\ End(l)
    /\ queue' \in {queue} \cup
           (IF loop[l].ch # 0 /\ queue[loop[l].ch] # <<>>
            THEN {[queue EXCEPT ![loop[l].ch] = Tail(@)]} ELSE {})
    /\ UNCHANGED <<onuVars, channel, closed, FlowIds, history, voltha, died>>

ChannelClosed(l) ==
    /\ loop[l].at = "wait" /\ loop[l].ch \in closed
    /\ queue[loop[l].ch] = <<>>
    /\ End(l)
    /\ UNCHANGED <<onuVars, channel, queue, closed, FlowIds, history, voltha,
                   died>>

Receive(l) ==
    /\ loop[l].at = "wait" /\ loop[l].ctx = context
    /\ loop[l].ch # 0 /\ queue[loop[l].ch] # <<>>
    /\ LET c == loop[l].ch
           m == Head(queue[c])
       IN /\ queue' = [queue EXCEPT ![c] = Tail(@)]
          /\ loop' = [loop EXCEPT ![l] = [@ EXCEPT !.msg = m,
                          !.at = IF m.type \in {"add", "remove", "uni"}
                                 THEN "flow" ELSE "ready"]]
    /\ UNCHANGED <<onuVars, channel, closed, FlowIds, history, voltha, died>>

HandleFlowAdd(l) ==
    /\ loop[l].at = "flow" /\ loop[l].msg.type = "add"
    /\ FlowIds' = Append(FlowIds, loop[l].msg.flow)
    /\ GoTo(l, "ready")
    /\ UNCHANGED <<onuVars, channel, queue, closed, history, voltha, died>>

\* Mutant: nothing is removed.
KeepAll(f) == FlowIds

\* What follows the first f moves up by one.
WithoutFirst(f) ==
    IF \E i \in 1..Len(FlowIds) : FlowIds[i] = f
    THEN [i \in 1..(Len(FlowIds) - 1) |->
            FlowIds[IF \E j \in 1..i : FlowIds[j] = f THEN i + 1 ELSE i]]
    ELSE FlowIds

HandleFlowRemove(l) ==
    /\ loop[l].at = "flow" /\ loop[l].msg.type = "remove"
    /\ FlowIds' = WithoutFirst(loop[l].msg.flow)
    /\ GoTo(l, IF FlowIds' = <<>> /\ state = "disabled" THEN "close" ELSE "ready")
    /\ UNCHANGED <<onuVars, channel, queue, closed, history, voltha, died>>

\* Mutant: the channel is not closed after the last flow.
StayOpen(l) ==
    /\ loop[l].at = "close"
    /\ GoTo(l, "ready")
    /\ UNCHANGED <<onuVars, channel, queue, closed, FlowIds, history, voltha,
                   died>>

CloseAfterLastFlow(l) ==
    /\ loop[l].at = "close"
    /\ Close(callback # Calm \/ LoopBusy(Loop \ {l}))
    /\ GoTo(l, "ready")
    /\ UNCHANGED <<onuVars, channel, queue, FlowIds, context, voltha>>

\* an OMCI message that moves the UNI makes the goroutine send to itself
HandleUni(l) ==
    /\ loop[l].at = "flow" /\ loop[l].msg.type = "uni"
    /\ Send(Routine)
    /\ uniUp' = ~uniUp
    /\ GoTo(l, "ready")
    /\ UNCHANGED <<state, callback, prog, channel, closed, FlowIds, history,
                   voltha>>

-----------------------------------------------------------------------------
(***************************************************************************)
(* The gRPC handlers: the check, and the send some time later.             *)
(***************************************************************************)

Request(s) ==
    /\ overtaken = {}
    /\ pending[s] = Nothing

About(s, m) == pending' = [pending EXCEPT ![s] = m]

FlowAddToOnu(s, f) ==
    /\ Request(s)
    /\ f \notin installed
    /\ state \notin {"disabled", "pon_disabled"}
    /\ channel # 0
    /\ installed' = installed \cup {f}
    /\ About(s, Msg("add", f))
    /\ Overtakes("close", channel \in closed)
    /\ UNCHANGED <<onuVars, channel, queue, closed, FlowIds, loop, context,
                   died>>

\* GetOnuByFlowId finds the ONU by the flows it has handled so far
FlowRemoveFromOnu(s, f) ==
    /\ Request(s)
    /\ f \in installed
    /\ \A x \in Sender : pending[x].flow # f
    /\ installed' = installed \ {f}
    /\ About(s, IF \E i \in 1..Len(FlowIds) : FlowIds[i] = f
                THEN Msg("remove", f) ELSE Nothing)
    /\ Overtakes("removal", \A i \in 1..Len(FlowIds) : FlowIds[i] # f)
    /\ UNCHANGED <<onuVars, channel, queue, closed, FlowIds, loop, context,
                   died>>

OmciMsgOut(s, type) ==
    /\ Request(s)
    /\ state # "disabled" /\ channel # 0
    /\ About(s, Plain(type))
    /\ Overtakes("close", channel \in closed)
    /\ UNCHANGED <<onuVars, channel, queue, closed, FlowIds, loop, context,
                   installed, died>>

\* packets only go to an ONU that is enabled
OnuPacketOut(s) ==
    /\ Request(s)
    /\ state = "enabled" /\ channel # 0
    /\ About(s, Routine)
    /\ Overtakes("close", channel \in closed)
    /\ UNCHANGED <<onuVars, channel, queue, closed, FlowIds, loop, context,
                   installed, died>>

SendPending(s) ==
    /\ pending[s] # Nothing
    /\ Send(pending[s])
    /\ About(s, Nothing)
    /\ UNCHANGED <<onuVars, channel, closed, FlowIds, loop, history, installed>>

-----------------------------------------------------------------------------

DriverStep(d) ==
    \/ \E e \in {"initialize", "discover", "enable", "disable", "pon_disable"} :
          FireEvent(d, e)
    \/ Rediscover(d) \/ Alarm(d)
    \/ \E l \in Loop : SpawnAgain(d, l)

CallbackStep ==
    \/ \E l \in Loop : MakeChannel(l)
    \/ Announce \/ SendDown \/ DisableUnis \/ CloseIfNoFlows

LoopStep(l) ==
    \/ Select(l) \/ Cancelled(l) \/ ChannelClosed(l) \/ Receive(l)
    \/ HandleFlowAdd(l) \/ HandleFlowRemove(l) \/ CloseAfterLastFlow(l)
    \/ HandleUni(l)

NewRequest ==
    \/ \E d \in Driver, r \in Requests : Begin(d, r)
    \/ \E s \in Sender, f \in Flow : FlowAddToOnu(s, f) \/ FlowRemoveFromOnu(s, f)
    \/ \E s \in Sender, type \in OmciTypes : OmciMsgOut(s, type)
    \/ \E s \in Sender : OnuPacketOut(s)

\* A panic ends the process.
ChannelNext ==
    /\ ~died
    /\ \/ NewRequest
       \/ \E d \in Driver : DriverStep(d)
       \/ CallbackStep
       \/ \E l \in Loop : LoopStep(l)
       \/ \E s \in Sender : SendPending(s)

ChannelSpec == ChannelInit /\ [][ChannelNext]_channelVars

-----------------------------------------------------------------------------
(***************************************************************************)
(* Properties.                                                             *)
(***************************************************************************)

CanSend == channel # 0 /\ (channel \in closed \/ Len(queue[channel]) < Capacity)

\* No goroutine can go on: each waits for a message, or to send one.
Settled ==
    /\ \A l \in Loop :
        \/ loop[l].at = "none"
        \/ /\ loop[l].at = "wait" /\ loop[l].ctx = context
           /\ loop[l].ch # 0 => queue[loop[l].ch] = <<>> /\ loop[l].ch \notin closed
        \/ loop[l].at = "flow" /\ loop[l].msg.type = "uni" /\ ~CanSend
    /\ \A s \in Sender : pending[s] # Nothing => ~CanSend
    /\ callback # Calm =>
        /\ ~CanSend
        /\ callback[2] \in {"disc", "indication", "down"} \cup (IF uniUp THEN {"unis"} ELSE {})
    /\ \A d \in Driver :
        prog[d] # <<>> =>
            IF Head(prog[d]) \in {"alarm", "rediscover"}
            THEN ~CanSend /\ (Head(prog[d]) = "rediscover" => state = "discovered")
            ELSE callback # Calm

\* The messages of an ONU are handled one at a time, in the order they were
\* sent: at most one goroutine receives from the channel of the ONU, until
\* VOLTHA connects again or the ONU is initialized before the old goroutine has
\* handled what is left, for which ReDiscoverOnu only sleeps.  No send goes to
\* a closed channel and none is closed twice, as long as no channel was closed
\* or replaced while a handler that had checked the state of the ONU was about
\* to send to it, or while a message was in it that makes the goroutine of the
\* ONU send to the channel, close it or change FlowIds; no alarm of one request
\* met a channel that another had closed; no last flow was removed while
\* enter_disabled was still sending; and no handler found the ONU initialized
\* before enter_initialized had made its channel.
OneReceiver ==
    /\ ChannelTypeOK
    /\ "close" \notin overtaken => ~died
    /\ overtaken \subseteq {"removal"} =>
        Cardinality({l \in Loop : Live(l) /\ loop[l].at # "ready"
                                          /\ loop[l].ch = channel}) <= 1

\* The goroutine of an ONU lives as long as somebody needs it and no longer.
\* Nobody waits for ever to send to the ONU, if nothing was overtaken, but for
\* the goroutine itself, when it has to send an alarm to its own channel and
\* that is full.  And enter_disabled and handleFlowRemove between them end it:
\* when the ONU is disabled, VOLTHA has removed all of its flows and nothing is
\* in progress, no goroutine listens for it any more.
LoopServes ==
    overtaken = {} /\ ~died =>
        /\ Settled => Quiet \/ \E l \in Loop : loop[l].at = "flow"
        /\ Quiet /\ state = "disabled" /\ installed = {} =>
            \A l \in Loop : Live(l) => loop[l].ch # channel \/ channel \in closed

\* FlowIds, which decides who closes the channel, is what VOLTHA installed
\* whenever nothing is in progress, unless a removal came before its addition
\* was handled, a channel was closed with the addition in it, or a reconnection
\* cancelled the goroutine that had taken it.
FlowIdsExact ==
    Quiet /\ overtaken = {} =>
        /\ {FlowIds[i] : i \in 1..Len(FlowIds)} = installed
        /\ Len(FlowIds) = Cardinality(installed)
===============================================================================
