----------------------------- MODULE OltServer -----------------------------
(***************************************************************************)
(* The OLT as a process: its OpenOLT gRPC server, the indication channel   *)
(* and the goroutines that send and receive on it (devices/olt.go), with   *)
(* the calls of the control API that touch them.                           *)
(*                                                                         *)
(* VOLTHA opens an indication stream with EnableIndication.  Every such    *)
(* call cancels the context of the one before, waits a second and starts a *)
(* loop, processOltMessages, that takes messages from o.channel and sends  *)
(* them on its own stream.  o.channel is unbuffered; a reboot closes it,   *)
(* and InitOlt makes a new one after it has started the server again.      *)
(* One NNI port and one PON port stand for all; the PON port is enabled    *)
(* with the OLT (controlledActivation default or only-onu), and what it    *)
(* does to its ONUs is in Lifecycle.                                       *)
(***************************************************************************)
EXTENDS Integers, Sequences, FiniteSets, DeviceFsm

CONSTANTS
    MaxEnable,  \* bound on the calls of EnableIndication
    MaxEpoch,   \* bound on the channels made
    MaxCall     \* bound on the other calls

ASSUME OltServerAssumption ==
    {MaxEnable, MaxEpoch, MaxCall} \subseteq Nat

VARIABLES
    internal,   \* OltDevice.InternalState
    server,     \* o.OltServer is not nil
    channel,    \* o.channel: the InitOlt that made it, 0 = nil
    open,       \* the channels that are not closed
    ctx,        \* the Enable that made o.enableContext, 0 = nil
    cancelled,  \* the contexts that are cancelled
    mutex,      \* who holds o.Lock
    enable,     \* per call of Enable, how far it is
    loop,       \* per call of Enable, its processOltMessages
    todo, on,   \* per sender, the messages left and the channel it blocks on
    restart,    \* how far RestartOLT or InitOlt is
    later,      \* RestartgRPCServer is waiting to start the server
    pon, nni,   \* the state of the PON port and of the NNI port
    calls,      \* calls so far
    dead,       \* how the process ended
    overtaken   \* history: what did not wait for something else to end

goroutines == <<ctx, cancelled, mutex, enable, loop>>
senders == <<todo, on>>
vars == <<internal, server, channel, open, goroutines, senders, restart, later,
          pon, nni, calls, dead, overtaken>>

Enables == 1..MaxEnable
\* The senders: each Enable, the OpenOLT calls of VOLTHA, the control API.
Rpc == 0
Api == MaxEnable + 1
Senders == 0..MaxEnable + 1
RestartId == MaxEnable + 2
Nobody == -1

NoLoop == [at |-> "none", on |-> 0, msg |-> "none"]

Boot == "server"

Init ==
    /\ internal = "initialized" /\ server = FALSE /\ restart = Boot
    /\ channel = 0 /\ open = {}
    /\ ctx = 0 /\ cancelled = {} /\ mutex = Nobody
    /\ enable = [i \in Enables |-> "none"]
    /\ loop = [i \in Enables |-> NoLoop]
    /\ todo = [t \in Senders |-> <<>>]
    /\ on = [t \in Senders |-> Nobody]
    /\ later = FALSE /\ pon = "created" /\ nni = "down"
    /\ calls = 0 /\ dead = "no" /\ overtaken = {}

Rebooting == restart # "none"
\* main starts the API servers once CreateOLT has returned.  Nothing new is
\* asked of the OLT once something has overtaken, which bounds the model.
MayCallApi == channel # 0 /\ overtaken = {}

Overtakes(what, orderly) ==
    overtaken' = IF orderly THEN overtaken ELSE overtaken \cup {what}

\* The control API is used while the OLT, or its server, restarts.
ApiOvertakes == Overtakes("api", ~Rebooting /\ ~later)

---------------------------------------------------------------------------
(* Sending on o.channel.                                                   *)

\* The sender evaluates o.channel and blocks.  A PON message that depends on
\* the state of the port is skipped if the port is in the other state.
Skipped(msg) ==
    \/ msg = "pon_up_if_disabled" /\ pon # "disabled"
    \/ msg = "pon_down_if_enabled" /\ pon # "enabled"

Block(t) ==
    /\ todo[t] # <<>> /\ on[t] = Nobody
    /\ IF Skipped(Head(todo[t]))
       THEN todo' = [todo EXCEPT ![t] = Tail(@)] /\ UNCHANGED <<on, dead>>
       ELSE /\ on' = [on EXCEPT ![t] = channel]
            /\ dead' = IF channel = 0 \/ channel \in open THEN dead ELSE "panic"
            /\ UNCHANGED todo
    /\ UNCHANGED <<internal, server, channel, open, goroutines, restart,
                   later, pon, nni, calls, overtaken>>

\* A loop that waits in its select takes the message.
Take(i, t) ==
    /\ loop[i].at = "select" /\ on[t] = loop[i].on /\ on[t] \in open
    /\ loop' = [loop EXCEPT ![i].at = "busy", ![i].msg = Head(todo[t])]
    /\ todo' = [todo EXCEPT ![t] = Tail(@)]
    /\ on' = [on EXCEPT ![t] = Nobody]
    /\ UNCHANGED <<internal, server, channel, open, ctx, cancelled, mutex,
                   enable, restart, later, pon, nni, calls, dead, overtaken>>

\* processOltMessages moves the machines of the device and indicates it.
Process(i) ==
    LET msg == loop[i].msg
        ponEvent == IF msg \in {"pon_up", "pon_up_if_disabled"} THEN "enable"
                    ELSE "disable" IN
    /\ loop[i].at = "busy"
    /\ loop' = [loop EXCEPT ![i].at = "select", ![i].msg = "none"]
    /\ internal' = IF msg = "olt_up" THEN After(OltTx, "enable", internal)
                   ELSE IF msg = "olt_down" THEN After(OltTx, "disable", internal)
                   ELSE internal
    /\ nni' = IF msg = "nni_up" THEN "up" ELSE nni
    /\ pon' = IF msg \in {"pon_up", "pon_down", "pon_up_if_disabled",
                          "pon_down_if_enabled"}
              THEN After(PonTx, ponEvent, pon) ELSE pon
    /\ UNCHANGED <<server, channel, open, ctx, cancelled, mutex, enable,
                   senders, restart, later, calls, dead, overtaken>>

\* The loop ends when its context is cancelled or its channel closed; if a
\* message is there as well, select takes either.
EndLoopOnStream(i) ==
    /\ loop[i].at = "select"
    /\ i \in cancelled \/ ~server
    /\ loop' = [loop EXCEPT ![i].at = "done"]
    /\ UNCHANGED <<internal, server, channel, open, ctx, cancelled, mutex,
                   enable, senders, restart, later, pon, nni, calls, dead, overtaken>>

EndLoop(i) ==
    /\ loop[i].at = "select"
    /\ i \in cancelled \/ (loop[i].on # 0 /\ loop[i].on \notin open)
    /\ loop' = [loop EXCEPT ![i].at = "done"]
    /\ UNCHANGED <<internal, server, channel, open, ctx, cancelled, mutex,
                   enable, senders, restart, later, pon, nni, calls, dead, overtaken>>

---------------------------------------------------------------------------
(* Enable.                                                                 *)

EnableIndication(i) ==
    /\ server /\ overtaken = {}
    /\ Overtakes("early", ~Rebooting)
    /\ enable[i] = "none" /\ \A j \in 1..(i - 1) : enable[j] # "none"
    /\ internal # "deleted"
    /\ enable' = [enable EXCEPT ![i] = "lock"]
    /\ UNCHANGED <<internal, server, channel, open, ctx, cancelled, mutex,
                   loop, senders, restart, later, pon, nni, calls, dead>>

\* The first Enable goes on at once, a later one cancels the context and
\* sleeps for a second, holding the lock, in which every loop that is not in
\* a stream.Send ends.
EnableLock(i) ==
    /\ enable[i] = "lock" /\ mutex = Nobody
    /\ mutex' = i
    /\ cancelled' = cancelled \cup ({ctx} \ {0})
    /\ enable' = [enable EXCEPT ![i] = "sleep"]
    /\ UNCHANGED <<internal, server, channel, open, ctx, loop, senders,
                   restart, later, pon, nni, calls, dead, overtaken>>

EnableContext(i) ==
    /\ enable[i] = "sleep"
    /\ \A j \in cancelled : loop[j].at # "select"
    /\ Overtakes("slow", \A j \in cancelled : loop[j].at # "busy")
    /\ mutex' = Nobody
    /\ ctx' = i
    /\ enable' = [enable EXCEPT ![i] = "send"]
    /\ loop' = [loop EXCEPT ![i] = [at |-> "select", on |-> channel, msg |-> "none"]]
    /\ todo' = [todo EXCEPT ![i] =
           <<"olt_up", "nni_up", IF ctx = 0 THEN "pon_up" ELSE "pon_up_if_disabled">>]
    /\ UNCHANGED <<internal, server, channel, open, cancelled, on, restart,
                   later, pon, nni, calls, dead>>

\* wg.Wait: processOltMessages and periodicPortStats are through.
EnableReturns(i) ==
    /\ enable[i] = "send" /\ todo[i] = <<>>
    /\ loop[i].at = "done" /\ i \in cancelled
    /\ enable' = [enable EXCEPT ![i] = "returned"]
    /\ UNCHANGED <<internal, server, channel, open, ctx, cancelled, mutex,
                   loop, senders, restart, later, pon, nni, calls, dead, overtaken>>

---------------------------------------------------------------------------
(* The calls that send indications.                                        *)

Call(t, messages) ==
    /\ todo[t] = <<>>
    /\ calls < MaxCall
    /\ calls' = calls + 1
    /\ todo' = [todo EXCEPT ![t] = messages]
    /\ UNCHANGED <<internal, server, channel, open, goroutines, on, restart,
                   later, pon, nni, dead>>

\* VOLTHA uses a device that it has enabled.
OpenOlt(messages) ==
    /\ server /\ ~Rebooting /\ ctx # 0 /\ overtaken = {}
    /\ Call(Rpc, messages)
    /\ UNCHANGED overtaken

DisableOlt == OpenOlt(<<"pon_down_if_enabled", "olt_down">>)
ReenableOlt == OpenOlt(<<"olt_up", "pon_up_if_disabled">>)
DisablePonIf == OpenOlt(<<"pon_down">>)
EnablePonIf == OpenOlt(<<"pon_up">>)

SetAlarm == MayCallApi /\ Call(Api, <<"alarm">>) /\ ApiOvertakes

\* The API fires the event alone: no message is sent.
ShutdownOlt ==
    /\ MayCallApi
    /\ ApiOvertakes
    /\ calls < MaxCall /\ calls' = calls + 1
    /\ Fires(OltTx, "disable", internal)
    /\ internal' = After(OltTx, "disable", internal)
    /\ UNCHANGED <<server, channel, open, goroutines, senders, restart, later,
                   pon, nni, dead>>

---------------------------------------------------------------------------
(* The gRPC server.  Starting it twice fails to listen, which is fatal.    *)

StartServer ==
    /\ server' = TRUE
    /\ dead' = IF server THEN "fatal" ELSE dead

StopgRPCServer ==
    /\ MayCallApi /\ server
    /\ ApiOvertakes
    /\ calls < MaxCall /\ calls' = calls + 1
    /\ server' = FALSE
    /\ UNCHANGED <<internal, channel, open, goroutines, senders, restart,
                   later, pon, nni, dead>>

StartgRPCServer ==
    /\ MayCallApi /\ ~server
    /\ ApiOvertakes
    /\ StartServer
    /\ UNCHANGED <<internal, channel, open, goroutines, senders, restart,
                   later, pon, nni, calls>>

RestartgRPCServer ==
    /\ MayCallApi /\ ~later
    /\ ApiOvertakes
    /\ calls < MaxCall /\ calls' = calls + 1
    /\ server' = FALSE
    /\ later' = TRUE
    /\ UNCHANGED <<internal, channel, open, goroutines, senders, restart, pon,
                   nni, dead>>

StartLater ==
    /\ later
    /\ StartServer
    /\ later' = FALSE
    /\ UNCHANGED <<internal, channel, open, goroutines, senders, restart, pon,
                   nni, calls, overtaken>>

---------------------------------------------------------------------------
(* RestartOLT and InitOlt.                                                 *)

Step(from, to) == restart = from /\ restart' = to

RestartOLT ==
    /\ Step("none", "stop")
    /\ Cardinality(open) > 0 /\ channel < MaxEpoch
    /\ overtaken = {} /\ Overtakes("api", ~later)
    /\ Fires(OltTx, "delete", internal)
    /\ internal' = After(OltTx, "delete", internal)
    /\ UNCHANGED <<server, channel, open, goroutines, senders, later, pon, nni,
                   calls, dead>>

\* The five seconds let the pending requests be answered, unless no loop
\* receives what they send.
Stuck(t) ==
    /\ on[t] # Nobody
    /\ ~\E i \in Enables \ cancelled :
          loop[i].on = on[t] /\ on[t] # 0 /\ loop[i].at \in {"select", "busy"}

Answered ==
    /\ \A t \in Senders : todo[t] = <<>> \/ Stuck(t)
    /\ \A i \in Enables : enable[i] \notin {"lock", "sleep"}

\* Mutant: without the five seconds.
StopAtOnce ==
    /\ Step("stop", "close")
    /\ UNCHANGED overtaken
    /\ server' = FALSE
    /\ UNCHANGED <<internal, channel, open, goroutines, senders, later, pon,
                   nni, calls, dead>>

\* Mutant: the server waits for its streams to end.
StopGracefully ==
    /\ Step("stop", "close")
    /\ \A i \in Enables : loop[i].at \notin {"select", "busy"}
    /\ Overtakes("slow", Answered)
    /\ server' = FALSE
    /\ UNCHANGED <<internal, channel, open, goroutines, senders, later, pon,
                   nni, calls, dead>>

StopOltServer ==
    /\ Step("stop", "close")
    /\ Overtakes("slow", Answered)
    /\ server' = FALSE
    /\ UNCHANGED <<internal, channel, open, goroutines, senders, later, pon,
                   nni, calls, dead>>

CloseChannel ==
    /\ Step("close", "cancel")
    /\ open' = open \ {channel}
    /\ dead' = IF \E t \in Senders : on[t] = channel THEN "panic" ELSE dead
    /\ UNCHANGED <<internal, server, channel, goroutines, senders, later, pon,
                   nni, calls, overtaken>>

\* "Prevents Enable to progress before the reboot is completed".
CancelContext ==
    /\ Step("cancel", "delay")
    /\ mutex = Nobody
    /\ mutex' = RestartId
    /\ cancelled' = cancelled \cup {ctx}
    /\ UNCHANGED <<internal, server, channel, open, ctx, enable, loop, senders,
                   later, pon, nni, calls, dead, overtaken>>

Unlock ==
    /\ Step("delay", "initialize")
    /\ mutex' = Nobody
    /\ UNCHANGED <<internal, server, channel, open, ctx, cancelled, enable,
                   loop, senders, later, pon, nni, calls, dead, overtaken>>

\* The machine is in `initialized' before InitOlt runs; if PoweronOlt moved it
\* there already, RestartOLT returns the error.
Initialize ==
    /\ Step("initialize", IF Fires(OltTx, "initialize", internal) THEN "server"
                          ELSE "none")
    /\ internal' = After(OltTx, "initialize", internal)
    /\ UNCHANGED <<server, channel, open, goroutines, senders, later, pon, nni,
                   calls, dead, overtaken>>

InitServer ==
    /\ Step("server", "channel")
    /\ StartServer
    /\ UNCHANGED <<internal, channel, open, goroutines, senders, later, pon,
                   nni, calls, overtaken>>

NewChannel ==
    /\ channel' = channel + 1
    /\ open' = open \cup {channel + 1}
    /\ nni' = "down"

MakeChannel ==
    /\ Step("channel", "none")
    /\ NewChannel
    /\ UNCHANGED <<internal, server, goroutines, senders, later, pon, calls, dead, overtaken>>

\* Only a deleted OLT, one that reboots, can be initialized.
PoweronOlt ==
    /\ MayCallApi /\ channel < MaxEpoch
    /\ ApiOvertakes
    /\ Fires(OltTx, "initialize", internal)
    /\ internal' = After(OltTx, "initialize", internal)
    /\ StartServer
    /\ NewChannel
    /\ UNCHANGED <<goroutines, senders, restart, later, pon, calls>>

---------------------------------------------------------------------------

RestartStep ==
    /\ dead = "no"
    /\ \/ StopOltServer \/ CloseChannel \/ CancelContext \/ Unlock
       \/ Initialize \/ InitServer \/ MakeChannel

EnableStep(i) ==
    dead = "no" /\ (EnableLock(i) \/ EnableContext(i) \/ EnableReturns(i))

LoopStep(i) ==
    /\ dead = "no"
    /\ \/ Process(i) \/ EndLoop(i)
       \/ \E t \in Senders : Take(i, t)

SendStep(t) == dead = "no" /\ Block(t)

\* What the goroutines do by themselves, without a new call.
Goroutine ==
    \/ RestartStep
    \/ \E i \in Enables : EnableStep(i) \/ LoopStep(i)
    \/ \E t \in Senders : SendStep(t)

Next ==
    /\ dead = "no"
    /\ \/ Goroutine
       \/ RestartOLT
       \/ \E i \in Enables : EnableIndication(i)
       \/ DisableOlt \/ ReenableOlt \/ DisablePonIf \/ EnablePonIf
       \/ SetAlarm \/ ShutdownOlt \/ PoweronOlt
       \/ StopgRPCServer \/ StartgRPCServer \/ RestartgRPCServer \/ StartLater

Spec == Init /\ [][Next]_vars

\* The scheduler does not let all goroutines wait when one of them can go on.
\* What they do ends by itself, so nothing more has to be assumed.
FairSpec == Spec /\ WF_vars(Goroutine)

---------------------------------------------------------------------------

Messages == {"none", "olt_up", "olt_down", "nni_up", "pon_up", "pon_down", "alarm",
             "pon_up_if_disabled", "pon_down_if_enabled"}

\* Types of the OLT, its channels and its goroutines.
TypeOK ==
    /\ internal \in OltStates /\ server \in BOOLEAN /\ later \in BOOLEAN
    /\ channel \in 0..MaxEpoch /\ open \subseteq 1..channel
    /\ ctx \in 0..MaxEnable /\ cancelled \subseteq Enables
    /\ mutex \in Enables \cup {Nobody, RestartId}
    /\ enable \in [Enables -> {"none", "lock", "sleep", "send", "returned"}]
    /\ loop \in [Enables -> [at : {"none", "select", "busy", "done"},
                             on : 0..MaxEpoch, msg : Messages]]
    /\ \A t \in Senders : on[t] \in {Nobody} \cup 0..MaxEpoch
    /\ restart \in {"none", "stop", "close", "cancel", "delay", "initialize",
                    "server", "channel"}
    /\ pon \in PonStates /\ nni \in {"up", "down"}
    /\ calls \in 0..MaxCall /\ dead \in {"no", "panic", "fatal"}
    /\ overtaken \subseteq {"early", "api", "slow"}

\* The process survives its reboots.  No goroutine sends on an indication channel
\* that RestartOLT has closed, if nothing overtook anything, and the server is
\* never started while it runs, which ends the process with Fatalf, unless the
\* control API is used while the OLT restarts.  And Enable cancels the loops of the
\* calls before it, so one loop at most takes messages, and what a call of Enable
\* indicates goes out on its own stream, unless a stream.Send takes longer than
\* Enable waits.
Survives ==
    /\ TypeOK
    /\ "slow" \notin overtaken =>
        Cardinality({i \in Enables : loop[i].at \in {"select", "busy"}}) <= 1
    /\ overtaken = {} => dead # "panic"
    /\ "api" \notin overtaken => dead # "fatal"

\* Every call of Enable that got its context hands over the OLT, NNI and PON
\* indications it is there to send.
EnableIndicates ==
    \A i \in Enables : enable[i] = "send" ~> todo[i] = <<>> \/ overtaken # {}

\* A reboot ends with the server up and a new channel.
RebootCompletes ==
    restart = "stop" ~>
        \/ restart = "none" /\ server /\ channel \in open
        \/ overtaken # {}
====
