------------------------------ MODULE Lifecycle ------------------------------
(***************************************************************************)
(* The life cycle of the OLT, of one PON port and of the ONUs on it        *)
(* (devices/olt.go, devices/pon.go, devices/onu.go).                       *)
(*                                                                         *)
(* Requests arrive from VOLTHA (OpenOLT RPCs), from the BBSim API and from *)
(* OMCI, and every request is served by a goroutine of its own.  A handler *)
(* is the sequence of the steps it still has to take; most steps fire one  *)
(* event of an ONU's state machine.  Steps of different handlers           *)
(* interleave, which is what the real goroutines do between two calls of   *)
(* FSM.Event.                                                              *)
(*                                                                         *)
(* FSM.Event holds the machine's event mutex until its callbacks return,   *)
(* so a callback runs in one step with its event unless it touches state   *)
(* shared between ONUs twice.  Only enter_enabled does: it looks the ONU   *)
(* id up in the PON's table and stores it later, under a second            *)
(* acquisition of the table's lock.  `entering' marks the ONUs between the *)
(* two, and no other event of such an ONU can run.                         *)
(***************************************************************************)
EXTENDS DeviceFsm, Naturals, Sequences

CONSTANTS
    Onu,          \* the ONUs of the PON port, by serial number
    Onus,         \* PonPort.Onus: the same ONUs in the order loops visit them
    OnuId,        \* the ONU ids VOLTHA draws from
    Assign,       \* the ids VOLTHA may give to each ONU
    Mode,         \* Olt.ControlledActivation
    Handler,      \* the goroutines that serve requests
    OltLoop,      \* the goroutine of processOltMessages
    Requests,     \* the requests that arrive
    NoOnu         \* no owner

ASSUME OnuAssumption == NoOnu \notin Onu /\ Onus \in Seq(Onu)
ASSUME OnusAssumption == \A o \in Onu : \E i \in 1..Len(Onus) : Onus[i] = o
ASSUME AssignAssumption == Assign \in [Onu -> SUBSET OnuId]
ASSUME ModeAssumption == Mode \in {"default", "only-onu", "only-pon", "both"}
ASSUME ThreadAssumption == OltLoop \notin Handler

VARIABLES
    olt,              \* OltDevice.InternalState
    pon,              \* PonPort.InternalState
    everEnabled,      \* OltDevice.enableContext is not nil
    state,            \* Onu.InternalState
    oper,             \* Onu.OperState
    onuID,            \* Onu.ID
    AllocatedOnuIds,  \* PonPort.AllocatedOnuIds, NoOnu where there is no entry
    entering,         \* ONUs between isOnuIdAllocated and storeOnuId
    announced,        \* ONUs whose last activation queued an OnuIndication UP
    prog              \* the steps every goroutine still has to take

vars == <<olt, pon, everEnabled, state, oper, onuID, AllocatedOnuIds,
          entering, announced, prog>>

Thread == Handler \cup {OltLoop}

StepNames ==
    OnuEvents \cup {"poweron", "rediscover", "delete_done", "activate",
                    "resume", "suspend", "shutdown", "pon_up", "pon_down",
                    "pon_up_if_disabled", "pon_down_if_enabled", "alarm",
                    "olt_up", "olt_down", "olt_init"}

\* skip: how many of the steps that follow are dropped when this one fails
Step == [do : StepNames, onu : Onu \cup {NoOnu}, skip : 0..3]

Do(name, o, skip) == [do |-> name, onu |-> o, skip |-> skip]

OltDo(name) == Do(name, NoOnu, 0)

\* a loop over PonPort.Onus
ForEachOnu(name) == [i \in 1..Len(Onus) |-> Do(name, Onus[i], 0)]

\* the states of an ONU that has been enabled and not been disabled since
ActiveStates ==
    {"enabled", "image_started", "image_in_progress", "image_complete",
     "image_error", "image_activated", "image_committed"}

\* The types of the machines, of the table of ONU ids and of the programs; the
\* machines only ever are in states of their tables (DeviceFsm).
TypeOK ==
    /\ olt \in OltStates
    /\ pon \in PonStates
    /\ everEnabled \in BOOLEAN
    /\ state \in [Onu -> OnuStates]
    /\ oper \in [Onu -> {"up", "down"}]
    /\ onuID \in [Onu -> OnuId]
    /\ AllocatedOnuIds \in [OnuId -> Onu \cup {NoOnu}]
    /\ entering \subseteq Onu
    /\ announced \subseteq Onu
    /\ prog \in [Thread -> Seq(Step)]

Init ==
    /\ olt = "initialized"
    /\ pon = "created"
    /\ everEnabled = FALSE
    /\ state = [o \in Onu |-> "created"]
    /\ oper = [o \in Onu |-> "down"]
    /\ onuID \in [Onu -> OnuId]
    /\ \A o, p \in Onu : onuID[o] = onuID[p] => o = p
    /\ AllocatedOnuIds = [i \in OnuId |-> NoOnu]
    /\ entering = {}
    /\ announced = {}
    /\ prog = [t \in Thread |-> <<>>]

-----------------------------------------------------------------------------
(***************************************************************************)
(* Requests.  A request starts on an idle goroutine.                       *)
(***************************************************************************)
deviceVars == <<olt, pon, everEnabled, state, oper, onuID, AllocatedOnuIds,
                entering, announced>>

Start(t, request, steps) ==
    /\ request \in Requests
    /\ prog[t] = <<>>
    /\ prog' = [prog EXCEPT ![t] = steps]

\* OpenOLT RPCs
ActivateOnu(t, o, id) ==
    /\ Start(t, "ActivateOnu", <<Do("enable", o, 0)>>)
    /\ id \in Assign[o]
    /\ onuID' = [onuID EXCEPT ![o] = id]
    /\ UNCHANGED <<olt, pon, everEnabled, state, oper, AllocatedOnuIds,
                   entering, announced>>

DeleteOnu(t, o) ==
    /\ Start(t, "DeleteOnu",
             (IF state[o] # "disabled" THEN <<Do("disable", o, 0)>> ELSE <<>>)
             \o <<Do("delete_done", o, 0)>>)
    /\ UNCHANGED deviceVars

DisablePonIf(t) ==
    /\ everEnabled /\ olt # "deleted"
    /\ Start(t, "DisablePonIf", <<OltDo("pon_down")>>)
    /\ UNCHANGED deviceVars

EnablePonIf(t) ==
    /\ everEnabled /\ olt # "deleted"
    /\ Start(t, "EnablePonIf", <<OltDo("pon_up")>>)
    /\ UNCHANGED deviceVars

DisableOlt(t) ==
    /\ everEnabled /\ olt # "deleted"
    /\ Start(t, "DisableOlt",
             <<OltDo("pon_down_if_enabled"), OltDo("olt_down")>>)
    /\ UNCHANGED deviceVars

ReenableOlt(t) ==
    /\ everEnabled /\ olt # "deleted"
    /\ Start(t, "ReenableOlt",
             <<OltDo("olt_up"), OltDo("pon_up_if_disabled")>>)
    /\ UNCHANGED deviceVars

\* OltDevice.Enable: the first call brings the PON up, every later one is a
\* reconcile or follows a reboot
Enable(t) ==
    /\ olt # "deleted"
    /\ everEnabled' = TRUE
    /\ Start(t, "Enable",
             <<OltDo("olt_up")>> \o
             (IF everEnabled
              THEN <<OltDo("pon_up_if_disabled")>> \o
                   (IF Mode # "only-onu" THEN ForEachOnu("rediscover") ELSE <<>>)
              ELSE IF Mode \in {"default", "only-onu"}
                   THEN <<OltDo("pon_up")>> ELSE <<>>))
    /\ UNCHANGED <<olt, pon, state, oper, onuID, AllocatedOnuIds, entering,
                   announced>>

\* the delete event empties the tables (clearAllResources), then every ONU is
\* disabled and the OLT is initialized again
RestartOLT(t) ==
    /\ Fires(OltTx, "delete", olt)
    /\ Start(t, "RestartOLT", ForEachOnu("disable") \o <<OltDo("olt_init")>>)
    /\ olt' = After(OltTx, "delete", olt)
    /\ AllocatedOnuIds' = [i \in OnuId |-> NoOnu]
    /\ UNCHANGED <<pon, everEnabled, state, oper, onuID, entering, announced>>

\* HandleShutdownONU sends the DYING_GASP and LOS alarms before it disables.
\* Until the first Enable nobody takes them off o.channel, so that a shutdown
\* requested earlier begins then.
ShutdownSteps(o, skip) == <<Do("alarm", o, 0), Do("disable", o, skip)>>

\* BBSim API
ShutdownONU(t, o) ==
    /\ everEnabled
    /\ Start(t, "ShutdownONU", ShutdownSteps(o, 0))
    /\ UNCHANGED deviceVars

ShutdownONUsOnPON(t) ==
    /\ everEnabled
    /\ Start(t, "ShutdownONUsOnPON", ForEachOnu("shutdown"))
    /\ UNCHANGED deviceVars

PoweronONU(t, o) ==
    /\ pon = "enabled"
    /\ Start(t, "PoweronONU", <<Do("poweron", o, 0)>>)
    /\ UNCHANGED deviceVars

PoweronONUsOnPON(t) ==
    /\ pon = "enabled"
    /\ Start(t, "PoweronONUsOnPON", ForEachOnu("poweron"))
    /\ UNCHANGED deviceVars

\* OMCI: a reboot is a shutdown and, if that succeeds, a power on
OmciReboot(t, o) ==
    /\ everEnabled
    /\ Start(t, "OmciReboot", ShutdownSteps(o, 1) \o <<Do("poweron", o, 0)>>)
    /\ UNCHANGED deviceVars

\* the software download messages, handled by the ONU's own goroutine
OmciImage(o, event) ==
    /\ "OmciImage" \in Requests
    /\ o \notin entering
    /\ Fires(OnuTx, event, state[o])
    /\ state' = [state EXCEPT ![o] = After(OnuTx, event, @)]
    /\ UNCHANGED <<olt, pon, everEnabled, oper, onuID, AllocatedOnuIds,
                   entering, announced, prog>>

\* ActivateSoftware reboots the ONU whatever the state machine answered
OmciActivateSoftware(t, o) ==
    /\ everEnabled
    /\ o \notin entering
    /\ Start(t, "OmciImage", ShutdownSteps(o, 1) \o <<Do("poweron", o, 0)>>)
    /\ state' = [state EXCEPT ![o] = After(OnuTx, "activate_image", @)]
    /\ UNCHANGED <<olt, pon, everEnabled, oper, onuID, AllocatedOnuIds,
                   entering, announced>>

-----------------------------------------------------------------------------
(***************************************************************************)
(* Steps of the goroutines.                                                *)
(***************************************************************************)
At(t, name) == prog[t] # <<>> /\ Head(prog[t]).do = name

Continue(t, steps) == prog' = [prog EXCEPT ![t] = steps \o Tail(@)]

\* an error that the handler answers with `return err' or `continue'
Failed(t) ==
    prog' = [prog EXCEPT
               ![t] = SubSeq(@, Head(@).skip + 2, Len(@))]

TheOnu(t) == Head(prog[t]).onu

\* the event is refused: nothing but the handler's own progress changes
EventRefused(t, event) ==
    /\ At(t, event)
    /\ TheOnu(t) \notin entering
    /\ ~Fires(OnuTx, event, state[TheOnu(t)])
    /\ Failed(t)
    /\ UNCHANGED deviceVars

EventFires(t, o, event) ==
    /\ At(t, event)
    /\ o = TheOnu(t)
    /\ o \notin entering
    /\ Fires(OnuTx, event, state[o])
    /\ state' = [state EXCEPT ![o] = After(OnuTx, event, @)]
    /\ Continue(t, <<>>)

Initialize(t, o) ==
    /\ EventFires(t, o, "initialize")
    /\ oper' = [oper EXCEPT ![o] = After(OperTx, "enable", @)]
    /\ UNCHANGED <<olt, pon, everEnabled, onuID, AllocatedOnuIds, entering,
                   announced>>

Discover(t, o) ==
    /\ EventFires(t, o, "discover")
    /\ UNCHANGED <<olt, pon, everEnabled, oper, onuID, AllocatedOnuIds,
                   entering, announced>>

\* enter_enabled, first half: isOnuIdAllocated.  A duplicate is logged and the
\* callback returns without an indication; the ONU is enabled all the same
EnterEnabled(t, o) ==
    /\ EventFires(t, o, "enable")
    /\ entering' = IF AllocatedOnuIds[onuID[o]] = NoOnu
                   THEN entering \cup {o} ELSE entering
    /\ UNCHANGED <<olt, pon, everEnabled, oper, onuID, AllocatedOnuIds,
                   announced>>

\* enter_enabled, second half: storeOnuId and the OnuIndication
StoreOnuId(o) ==
    /\ o \in entering
    /\ AllocatedOnuIds' = [AllocatedOnuIds EXCEPT ![onuID[o]] = o]
    /\ announced' = announced \cup {o}
    /\ entering' = entering \ {o}
    /\ UNCHANGED <<olt, pon, everEnabled, state, oper, onuID, prog>>

\* Mutant: the id is not given back.
KeepOnuId(o) ==
    /\ UNCHANGED AllocatedOnuIds
    /\ announced' = announced \ {o}

\* cleanupOnuState, as far as the ONU ids go
CleanupOnuState(o) ==
    /\ AllocatedOnuIds' = [AllocatedOnuIds EXCEPT ![onuID[o]] = NoOnu]
    /\ announced' = announced \ {o}

Disable(t, o) ==
    /\ EventFires(t, o, "disable")
    /\ CleanupOnuState(o)
    /\ oper' = [oper EXCEPT ![o] = After(OperTx, "disable", @)]
    /\ UNCHANGED <<olt, pon, everEnabled, onuID, entering>>

PonDisable(t, o) ==
    /\ EventFires(t, o, "pon_disable")
    /\ CleanupOnuState(o)
    /\ UNCHANGED <<olt, pon, everEnabled, oper, onuID, entering>>

-----------------------------------------------------------------------------
\* HandlePowerOnONU reads the state once and decides which events to fire
PowerOn(t, o) ==
    /\ At(t, "poweron")
    /\ o = TheOnu(t)
    /\ LET cycle == IF state[o] = "disabled" THEN 1 ELSE 0 IN
       Continue(t,
         IF olt = "deleted" THEN <<>>
         ELSE (IF state[o] \in {"created", "disabled"}
               THEN <<Do("initialize", o, 2 + cycle)>> ELSE <<>>)
              \o <<Do("alarm", o, 0), Do("discover", o, cycle)>>
              \o (IF cycle = 1 THEN <<Do("enable", o, 0)>> ELSE <<>>))
    /\ UNCHANGED deviceVars

\* SimulateOnuAlarm waits until processOltMessages takes the alarm
SendAlarm(t) ==
    /\ At(t, "alarm")
    /\ prog[OltLoop] = <<>>
    /\ Continue(t, <<>>)
    /\ UNCHANGED deviceVars

\* one round of the loop of ShutdownONUsOnPON
ShutdownOne(t, o) ==
    /\ At(t, "shutdown")
    /\ o = TheOnu(t)
    /\ Continue(t, ShutdownSteps(o, 0))
    /\ UNCHANGED deviceVars

\* ReDiscoverOnu; a discovered ONU only repeats its indication
ReDiscoverOnu(t, o) ==
    /\ At(t, "rediscover")
    /\ o = TheOnu(t)
    /\ Continue(t, IF olt = "deleted" \/ state[o] = "discovered" THEN <<>>
                   ELSE <<Do("initialize", o, 0), Do("discover", o, 0)>>)
    /\ UNCHANGED deviceVars

\* the end of DeleteOnu
DeleteDone(t, o) ==
    /\ At(t, "delete_done")
    /\ o = TheOnu(t)
    /\ Continue(t, IF olt = "enabled" /\ pon = "enabled"
                   THEN <<Do("rediscover", o, 0)>> ELSE <<>>)
    /\ UNCHANGED deviceVars

\* Mutant: ONUs are initialized and not discovered.
PonLoopInitializes(t, o) ==
    /\ prog[t] # <<>> /\ o = TheOnu(t)
    /\ \/ At(t, "activate") /\ Continue(t, <<Do("initialize", o, 1)>>)
       \/ At(t, "resume") /\
          Continue(t, IF state[o] = "pon_disabled" THEN <<Do("enable", o, 0)>>
                      ELSE <<>>)
       \/ At(t, "suspend") /\ Continue(t, <<Do("pon_disable", o, 0)>>)
    /\ UNCHANGED deviceVars

\* the bodies of the loops in the PON port's callbacks: enter_enabled from
\* created, enter_enabled from disabled, enter_disabled
PonLoop(t, o) ==
    /\ prog[t] # <<>> /\ o = TheOnu(t)
    /\ \/ At(t, "activate") /\
          Continue(t, <<Do("initialize", o, 1), Do("discover", o, 0)>>)
       \/ At(t, "resume") /\
          Continue(t, CASE state[o] = "pon_disabled" -> <<Do("enable", o, 0)>>
                        [] state[o] = "disabled" ->
                             <<Do("initialize", o, 1), Do("discover", o, 0)>>
                        [] state[o] = "initialized" -> <<Do("discover", o, 0)>>
                        [] OTHER -> <<>>)
       \/ At(t, "suspend") /\
          Continue(t, IF state[o] \in {"initialized", "disabled"} THEN <<>>
                      ELSE <<Do("pon_disable", o, 0)>>)
    /\ UNCHANGED deviceVars

\* what enter_enabled of the PON port does to its ONUs
PonEnableLoop ==
    IF pon = "created"
    THEN IF Mode \in {"default", "only-pon"} THEN ForEachOnu("activate") ELSE <<>>
    ELSE IF Mode \in {"only-onu", "both"} THEN ForEachOnu("initialize")
         ELSE ForEachOnu("resume")

\* DisableOlt, ReenableOlt and Enable look at the PON port before they send
CheckPon(t) ==
    /\ \/ At(t, "pon_up_if_disabled") /\
          Continue(t, IF pon = "disabled" THEN <<OltDo("pon_up")>> ELSE <<>>)
       \/ At(t, "pon_down_if_enabled") /\
          Continue(t, IF pon = "enabled" THEN <<OltDo("pon_down")>> ELSE <<>>)
    /\ UNCHANGED deviceVars

\* Mutant: a message that the PON port refuses is sent again.
SendPonAgain(t, event) ==
    /\ prog[OltLoop] = <<>>
    /\ IF Fires(PonTx, event, pon)
       THEN /\ pon' = After(PonTx, event, pon)
            /\ prog' = [[prog EXCEPT ![t] = Tail(@)] EXCEPT
                          ![OltLoop] = IF event = "enable" THEN PonEnableLoop
                                       ELSE ForEachOnu("suspend")]
       ELSE UNCHANGED <<prog, pon>>
    /\ UNCHANGED <<olt, everEnabled, state, oper, onuID, AllocatedOnuIds,
                   entering, announced>>

\* o.channel is unbuffered: the sender waits until processOltMessages takes
\* the message, and that goroutine then runs the callbacks of the PON port
SendPon(t, event) ==
    /\ prog[OltLoop] = <<>>
    /\ IF Fires(PonTx, event, pon)
       THEN /\ pon' = After(PonTx, event, pon)
            /\ prog' = [[prog EXCEPT ![t] = Tail(@)] EXCEPT
                          ![OltLoop] = IF event = "enable" THEN PonEnableLoop
                                       ELSE ForEachOnu("suspend")]
       ELSE Continue(t, <<>>) /\ UNCHANGED pon
    /\ UNCHANGED <<olt, everEnabled, state, oper, onuID, AllocatedOnuIds,
                   entering, announced>>

SendPonIndication(t) ==
    \/ At(t, "pon_up") /\ SendPon(t, "enable")
    \/ At(t, "pon_down") /\ SendPon(t, "disable")

SendOltIndication(t) ==
    /\ prog[OltLoop] = <<>>
    /\ \/ At(t, "olt_up") /\ olt' = After(OltTx, "enable", olt)
       \/ At(t, "olt_down") /\ olt' = After(OltTx, "disable", olt)
    /\ Continue(t, <<>>)
    /\ UNCHANGED <<pon, everEnabled, state, oper, onuID, AllocatedOnuIds,
                   entering, announced>>

\* the end of RestartOLT
OltInitialize(t) ==
    /\ At(t, "olt_init")
    /\ olt' = After(OltTx, "initialize", olt)
    /\ Continue(t, <<>>)
    /\ UNCHANGED <<pon, everEnabled, state, oper, onuID, AllocatedOnuIds,
                   entering, announced>>

-----------------------------------------------------------------------------
OnuRequest(t, o) ==
    \/ \E id \in OnuId : ActivateOnu(t, o, id)
    \/ DeleteOnu(t, o)
    \/ ShutdownONU(t, o)
    \/ PoweronONU(t, o)
    \/ OmciReboot(t, o)
    \/ OmciActivateSoftware(t, o)

OltRequest(t) ==
    \/ Enable(t)
    \/ DisableOlt(t)
    \/ ReenableOlt(t)
    \/ DisablePonIf(t)
    \/ EnablePonIf(t)
    \/ RestartOLT(t)
    \/ ShutdownONUsOnPON(t)
    \/ PoweronONUsOnPON(t)

OnuStep(t, o) ==
    \/ Initialize(t, o)
    \/ Discover(t, o)
    \/ EnterEnabled(t, o)
    \/ Disable(t, o)
    \/ PonDisable(t, o)
    \/ PowerOn(t, o)
    \/ ShutdownOne(t, o)
    \/ ReDiscoverOnu(t, o)
    \/ DeleteDone(t, o)
    \/ PonLoop(t, o)

ThreadStep(t) ==
    \/ \E o \in Onu : OnuStep(t, o)
    \/ \E e \in OnuEvents : EventRefused(t, e)
    \/ CheckPon(t)
    \/ SendPonIndication(t)
    \/ SendOltIndication(t)
    \/ SendAlarm(t)
    \/ OltInitialize(t)

ImageEvents == {"start_image", "progress_image", "complete_image",
                "fail_image", "commit_image"}

Next ==
    \/ \E t \in Handler, o \in Onu : OnuRequest(t, o)
    \/ \E t \in Handler : OltRequest(t)
    \/ \E t \in Thread : ThreadStep(t)
    \/ \E o \in Onu : StoreOnuId(o)
    \/ \E o \in Onu, e \in ImageEvents : OmciImage(o, e)

Spec == Init /\ [][Next]_vars

\* goroutines are scheduled by the Go runtime; sync.Mutex and the queue of the
\* senders of a channel are first come, first served, so a goroutine that
\* competes for one of them is not overtaken for ever.  Requests need not
\* arrive.
Fairness ==
    /\ \A t \in Thread : SF_vars(ThreadStep(t))
    /\ \A o \in Onu : WF_vars(StoreOnuId(o))

FairSpec == Spec /\ Fairness

-----------------------------------------------------------------------------
(***************************************************************************)
(* Properties.                                                             *)
(***************************************************************************)

\* VOLTHA's resource manager: every ONU has one id of its own, which it keeps
\* when it is discovered again
StableIds ==
    /\ \A o \in Onu : \E i \in OnuId : Assign[o] = {i}
    /\ \A o, p \in Onu : o # p => Assign[o] \cap Assign[p] = {}

Quiet == entering = {} /\ \A t \in Thread : prog[t] = <<>>

\* An entry of AllocatedOnuIds belongs to an ONU that is active with that very
\* id: every way out of the active states (shutdown, delete, PON disable, OLT
\* reboot) gives the id back through cleanupOnuState or clearAllResources, so
\* an ONU that is not active never keeps an id from being used.
NoStaleOnuId ==
    \A i \in OnuId, o \in Onu :
        AllocatedOnuIds[i] = o => onuID[o] = i /\ state[o] \in ActiveStates

\* With stable ids enter_enabled never takes the onu-id-duplicated branch: an
\* active ONU has queued its OnuIndication UP or is about to.
ActivationAnnounced ==
    \A o \in Onu : state[o] \in ActiveStates => o \in announced \cup entering

\* When no handler is running, an automatically activated ONU is not left half
\* way between initialize and discover, and once the PON port is enabled none
\* is left in pon_disabled, whatever requests overlapped with the loops over
\* the ONUs in the PON port's callbacks.
NoOnuLeftBehind ==
    Quiet /\ Mode \in {"default", "only-pon"} =>
        \A o \in Onu :
            /\ state[o] # "initialized"
            /\ pon = "enabled" => state[o] # "pon_disabled"

\* The operational state reported to VOLTHA is down exactly while the ONU is
\* created or disabled, on every path through initialize and disable.
OperFollowsState ==
    \A o \in Onu : oper[o] = "down" <=> state[o] \in {"created", "disabled"}

\* Every handler finishes: neither the event mutexes of the ONUs, nor the
\* callbacks of the PON port that wait for them, nor the senders that wait for
\* processOltMessages ever block each other for good.  A goroutine is idle again
\* and again, that is, whenever it is busy it later becomes idle.
HandlersFinish == \A t \in Thread : []<>(prog[t] = <<>>)

-----------------------------------------------------------------------------
(***************************************************************************)
(* The inductive invariant behind NoStaleOnuId and ActivationAnnounced.    *)
(***************************************************************************)

\* a handler that is about to enable an ONU does so with the id VOLTHA gave it
GoodStep ==
    {s \in Step :
        s.do = "enable" => s.onu \in Onu /\ onuID[s.onu] \in Assign[s.onu]}

ProgramsGood == \A t \in Thread : prog[t] \in Seq(GoodStep)

\* whoever has ever been enabled has been given an id
IdsAssigned ==
    \A o \in Onu :
        state[o] \in ActiveStates \cup {"disabled", "pon_disabled"}
            => onuID[o] \in Assign[o]

EnteringActive == \A o \in entering : state[o] \in ActiveStates

\* An ONU that is or was active has an id VOLTHA assigned to it and no handler
\* is on its way to enable an ONU before VOLTHA has said which id to use.  With
\* stable ids, moreover, an entry of AllocatedOnuIds is the entry of an active
\* ONU at its own id, and no activation is refused as a duplicate.
IdDiscipline ==
    /\ TypeOK
    /\ ProgramsGood
    /\ IdsAssigned
    /\ EnteringActive
    /\ StableIds => NoStaleOnuId /\ ActivationAnnounced
=============================================================================
