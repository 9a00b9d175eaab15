--------------------------- MODULE LifecycleProofs ---------------------------
(***************************************************************************)
(* Theorems about Lifecycle, for any number of ONUs, ids and goroutines.   *)
(***************************************************************************)
EXTENDS Lifecycle, TLAPS

-----------------------------------------------------------------------------
(***************************************************************************)
(* Sequences: the programs of the goroutines.                              *)
(***************************************************************************)

\* A goroutine that drops its first step keeps a program over the same steps.
LEMMA TailOfProgram ==
    ASSUME NEW S, NEW p \in Seq(S), p # <<>>
    PROVE  Head(p) \in S /\ Tail(p) \in Seq(S)
  OBVIOUS

\* A failed step drops itself and the steps that depend on it.
LEMMA RestOfProgram ==
    ASSUME NEW S, NEW p \in Seq(S), NEW k \in Nat
    PROVE  SubSeq(p, k + 2, Len(p)) \in Seq(S)
  OBVIOUS

\* Replacing the first step by others keeps a program over the same steps.
LEMMA ExpandedProgram ==
    ASSUME NEW S, NEW p \in Seq(S), p # <<>>, NEW q \in Seq(S)
    PROVE  q \o Tail(p) \in Seq(S)
  <1>1. Tail(p) \in Seq(S)
    BY TailOfProgram, Zenon
  <1> QED
    BY <1>1

\* A loop over the ONUs of the PON port, for any set of steps that holds them.
LEMMA LoopProgram ==
    ASSUME NEW S, NEW name, \A o \in Onu : Do(name, o, 0) \in S
    PROVE  ForEachOnu(name) \in Seq(S)
  <1>1. \A i \in 1..Len(Onus) : Onus[i] \in Onu
    BY OnuAssumption
  <1>2. Len(Onus) \in Nat
    BY OnuAssumption
  <1> DEFINE e(i) == Do(name, Onus[i], 0)
  <1>3. \A i \in 1..Len(Onus) : e(i) \in S
    BY <1>1, Zenon
  <1> HIDE DEF e
  <1>4. [i \in 1..Len(Onus) |-> e(i)] \in Seq(S)
    BY <1>2, <1>3
  <1> QED
    BY <1>4, Zenon DEF ForEachOnu, e

-----------------------------------------------------------------------------
(***************************************************************************)
(* The ONU's state machine.                                                *)
(***************************************************************************)

\* Where each event of the ONU may fire and where it leads (onu.go:189).
LEMMA OnuTransitions ==
    ASSUME NEW s \in OnuStates
    PROVE  /\ Fires(OnuTx, "initialize", s) =>
                 /\ s \in {"created", "disabled", "pon_disabled"}
                 /\ After(OnuTx, "initialize", s) = "initialized"
           /\ Fires(OnuTx, "discover", s) =>
                 /\ s = "initialized"
                 /\ After(OnuTx, "discover", s) = "discovered"
           /\ Fires(OnuTx, "enable", s) =>
                 /\ s \in {"discovered", "pon_disabled"}
                 /\ After(OnuTx, "enable", s) = "enabled"
           /\ Fires(OnuTx, "disable", s) =>
                 /\ s \in ActiveStates \cup {"pon_disabled"}
                 /\ After(OnuTx, "disable", s) = "disabled"
           /\ Fires(OnuTx, "pon_disable", s) =>
                 /\ s \in ActiveStates
                 /\ After(OnuTx, "pon_disable", s) = "pon_disabled"
  BY Zenon DEF Fires, After, OnuTx, Tx, ActiveStates

\* The software download events move an active ONU between active states.
LEMMA ImageTransitions ==
    ASSUME NEW s \in OnuStates, NEW e \in ImageEvents \cup {"activate_image"},
           Fires(OnuTx, e, s)
    PROVE  s \in ActiveStates /\ After(OnuTx, e, s) \in ActiveStates
  BY DEF Fires, After, OnuTx, Tx, ActiveStates, ImageEvents

\* Event and state names of the tables.
LEMMA TableTypes ==
    /\ OnuEvents = {"initialize", "discover", "enable", "disable",
                    "pon_disable", "start_image", "progress_image",
                    "complete_image", "fail_image", "activate_image",
                    "commit_image"}
    /\ ActiveStates \subseteq OnuStates
    /\ \A s \in OltStates : After(OltTx, "initialize", s) \in OltStates
    /\ \A s \in OltStates : After(OltTx, "enable", s) \in OltStates
    /\ \A s \in OltStates : After(OltTx, "disable", s) \in OltStates
    /\ \A s \in OltStates : After(OltTx, "delete", s) \in OltStates
    /\ \A s \in PonStates : After(PonTx, "enable", s) \in PonStates
    /\ \A s \in PonStates : After(PonTx, "disable", s) \in PonStates
  <1>1. OnuEvents = {"initialize", "discover", "enable", "disable",
                    "pon_disable", "start_image", "progress_image",
                    "complete_image", "fail_image", "activate_image",
                    "commit_image"}
    BY Zenon DEF OnuEvents, OnuTx
  <1>2. ActiveStates \subseteq OnuStates
    BY Zenon DEF ActiveStates, OnuStates
  <1>3. \A s \in OltStates : /\ After(OltTx, "initialize", s) \in OltStates
                             /\ After(OltTx, "enable", s) \in OltStates
                             /\ After(OltTx, "disable", s) \in OltStates
                             /\ After(OltTx, "delete", s) \in OltStates
    BY Zenon DEF After, OltTx, Tx, OltStates
  <1>4. \A s \in PonStates : /\ After(PonTx, "enable", s) \in PonStates
                             /\ After(PonTx, "disable", s) \in PonStates
    BY Zenon DEF After, PonTx, Tx, PonStates
  <1> QED
    BY <1>1, <1>2, <1>3, <1>4, Zenon

-----------------------------------------------------------------------------
(***************************************************************************)
(* Steps.                                                                  *)
(***************************************************************************)

\* Only enabling an ONU asks for an id that VOLTHA assigned.
LEMMA GoodSteps ==
    /\ GoodStep \subseteq Step
    /\ \A name \in StepNames \ {"enable"}, o \in Onu \cup {NoOnu}, k \in 0..3 :
          Do(name, o, k) \in GoodStep
    /\ \A o \in Onu, k \in 0..3 :
          onuID[o] \in Assign[o] => Do("enable", o, k) \in GoodStep
  <1>1. "enable" \in StepNames
    BY TableTypes, Zenon DEF StepNames
  <1> QED
    BY <1>1, Zenon DEF GoodStep, Step, Do

\* Steps stay good while the ids do not change.
LEMMA GoodStepStable == onuID' = onuID => GoodStep' = GoodStep
  BY Zenon DEF GoodStep

\* Programs over fewer steps are programs over more.
LEMMA MorePrograms ==
    ASSUME NEW S, NEW T, S \subseteq T, NEW p \in Seq(S)
    PROVE  p \in Seq(T)
  OBVIOUS

\* The loops of the PON port's callbacks are good programs.
LEMMA GoodLoops ==
    /\ \A name \in StepNames \ {"enable"} : ForEachOnu(name) \in Seq(GoodStep)
    /\ PonEnableLoop \in Seq(GoodStep)
  <1>1. ASSUME NEW name \in StepNames \ {"enable"}
        PROVE  ForEachOnu(name) \in Seq(GoodStep)
    BY LoopProgram, GoodSteps, <1>1
  <1>2. {"activate", "initialize", "resume"} \subseteq StepNames \ {"enable"}
    BY TableTypes, Zenon DEF StepNames
  <1>3. /\ ForEachOnu("activate") \in Seq(GoodStep)
        /\ ForEachOnu("initialize") \in Seq(GoodStep)
        /\ ForEachOnu("resume") \in Seq(GoodStep)
        /\ <<>> \in Seq(GoodStep)
    BY <1>1, <1>2
  <1> QED
    BY <1>1, <1>3, Zenon DEF PonEnableLoop

-----------------------------------------------------------------------------
(***************************************************************************)
(* Programs stay good.                                                     *)
(***************************************************************************)

\* A request that arrives leaves every goroutine with a good program.
LEMMA RequestsGood ==
    ASSUME TypeOK, ProgramsGood, NEW t \in Handler,
           (\E o \in Onu : OnuRequest(t, o)) \/ OltRequest(t)
    PROVE  prog' \in [Thread -> Seq(GoodStep')]
  <1> DEFINE N == StepNames \ {"enable"}
  <1>n. {"disable", "delete_done", "pon_down", "pon_up", "olt_up", "olt_down",
         "pon_down_if_enabled", "pon_up_if_disabled", "rediscover", "olt_init",
         "alarm", "shutdown", "poweron"} \subseteq N
    BY TableTypes, Zenon DEF StepNames
  <1>p. prog \in [Thread -> Seq(GoodStep)] /\ t \in Thread
    BY Zenon DEF TypeOK, ProgramsGood, Thread
  <1>d. \A name \in N : /\ \A o \in Onu : /\ Do(name, o, 0) \in GoodStep
                                         /\ Do(name, o, 1) \in GoodStep
                        /\ OltDo(name) \in GoodStep
    BY GoodSteps DEF OltDo
  <1>l. \A name \in N : ForEachOnu(name) \in Seq(GoodStep)
    BY GoodLoops, Zenon
  <1>1. ASSUME NEW o \in Onu, NEW id \in OnuId, ActivateOnu(t, o, id)
        PROVE  prog' \in [Thread -> Seq(GoodStep')]
    <2>1. onuID' = [onuID EXCEPT ![o] = id] /\ id \in Assign[o]
      BY <1>1, Zenon DEF ActivateOnu
    <2>2. onuID'[o] \in Assign[o]
      BY <2>1, Zenon DEF TypeOK
    <2>3. GoodStep \subseteq GoodStep'
      BY <2>1, <2>2, Zenon DEF GoodStep, TypeOK
    <2>4. Do("enable", o, 0) \in GoodStep'
      BY <2>2, TableTypes DEF GoodStep, Step, Do, StepNames
    <2>5. \A u \in Thread : prog[u] \in Seq(GoodStep')
      BY <1>p, <2>3, MorePrograms, Zenon
    <2>6. prog' = [prog EXCEPT ![t] = <<Do("enable", o, 0)>>]
      BY <1>1, Zenon DEF ActivateOnu, Start
    <2>7. <<Do("enable", o, 0)>> \in Seq(GoodStep')
      BY <2>4
    <2> QED
      BY <1>p, <2>5, <2>6, <2>7, Zenon
  <1>2. ASSUME onuID' = onuID, NEW q \in Seq(GoodStep),
               prog' = [prog EXCEPT ![t] = q]
        PROVE  prog' \in [Thread -> Seq(GoodStep')]
    BY <1>2, <1>p, GoodStepStable, Zenon
  <1>q. /\ \A name \in N : /\ \A o \in Onu : <<Do(name, o, 0)>> \in Seq(GoodStep)
                            /\ <<OltDo(name)>> \in Seq(GoodStep)
        /\ \A f, g \in N : <<OltDo(f), OltDo(g)>> \in Seq(GoodStep)
        /\ <<>> \in Seq(GoodStep)
    BY <1>d
  <1>c. \A p, q \in Seq(GoodStep) : p \o q \in Seq(GoodStep)
    OBVIOUS
  <1>s. \A o \in Onu : /\ ShutdownSteps(o, 0) \in Seq(GoodStep)
                       /\ ShutdownSteps(o, 1) \in Seq(GoodStep)
    BY <1>n, <1>d DEF ShutdownSteps
  <1> HIDE DEF N
  <1>3. ASSUME NEW o \in Onu, DeleteOnu(t, o)
        PROVE  prog' \in [Thread -> Seq(GoodStep')]
    <2> DEFINE q == (IF state[o] # "disabled" THEN <<Do("disable", o, 0)>> ELSE <<>>)
                    \o <<Do("delete_done", o, 0)>>
    <2>1. q \in Seq(GoodStep)
      BY <1>n, <1>q, <1>c, Zenon
    <2>2. prog' = [prog EXCEPT ![t] = q] /\ onuID' = onuID
      BY <1>3, Zenon DEF DeleteOnu, Start, deviceVars
    <2> QED
      BY <1>2, <2>1, <2>2, Zenon
  <1>4. ASSUME NEW o \in Onu, ShutdownONU(t, o)
        PROVE  prog' \in [Thread -> Seq(GoodStep')]
    <2>1. prog' = [prog EXCEPT ![t] = ShutdownSteps(o, 0)] /\ onuID' = onuID
      BY <1>4, Zenon DEF ShutdownONU, Start, deviceVars
    <2> QED
      BY <1>2, <1>s, <2>1, Zenon
  <1>5. ASSUME NEW o \in Onu, OmciReboot(t, o) \/ OmciActivateSoftware(t, o)
        PROVE  prog' \in [Thread -> Seq(GoodStep')]
    <2>1. ShutdownSteps(o, 1) \o <<Do("poweron", o, 0)>> \in Seq(GoodStep)
      BY <1>n, <1>q, <1>c, <1>s, Zenon
    <2>2. /\ prog' = [prog EXCEPT ![t] = ShutdownSteps(o, 1) \o <<Do("poweron", o, 0)>>]
          /\ onuID' = onuID
      BY <1>5, Zenon DEF OmciReboot, OmciActivateSoftware, Start, deviceVars
    <2> QED
      BY <1>2, <2>1, <2>2, Zenon
  <1>6. ASSUME NEW o \in Onu, PoweronONU(t, o)
        PROVE  prog' \in [Thread -> Seq(GoodStep')]
    <2>1. prog' = [prog EXCEPT ![t] = <<Do("poweron", o, 0)>>] /\ onuID' = onuID
      BY <1>6, Zenon DEF PoweronONU, Start, deviceVars
    <2> QED
      BY <1>2, <1>n, <1>q, <2>1, Zenon
  <1>7. CASE Enable(t)
    <2> DEFINE q == IF everEnabled
                    THEN <<OltDo("pon_up_if_disabled")>> \o
                         (IF Mode # "only-onu" THEN ForEachOnu("rediscover") ELSE <<>>)
                    ELSE IF Mode \in {"default", "only-onu"}
                         THEN <<OltDo("pon_up")>> ELSE <<>>
    <2>1. q \in Seq(GoodStep)
      BY <1>n, <1>l, <1>q, <1>c
    <2>2. prog' = [prog EXCEPT ![t] = <<OltDo("olt_up")>> \o q] /\ onuID' = onuID
      BY <1>7, Zenon DEF Enable, Start
    <2> HIDE DEF q
    <2>3. <<OltDo("olt_up")>> \o q \in Seq(GoodStep)
      BY <2>1, <1>n, <1>q, <1>c
    <2> QED
      BY <1>2, <2>2, <2>3, Zenon
  <1>8. CASE DisableOlt(t) \/ ReenableOlt(t) \/ DisablePonIf(t) \/ EnablePonIf(t)
    <2>1. PICK q \in {<<OltDo("pon_down")>>, <<OltDo("pon_up")>>,
                      <<OltDo("pon_down_if_enabled"), OltDo("olt_down")>>,
                      <<OltDo("olt_up"), OltDo("pon_up_if_disabled")>>} :
              prog' = [prog EXCEPT ![t] = q] /\ onuID' = onuID
      BY <1>8, Zenon DEF DisableOlt, ReenableOlt, DisablePonIf, EnablePonIf, Start, deviceVars
    <2>2. /\ <<OltDo("pon_down")>> \in Seq(GoodStep)
          /\ <<OltDo("pon_up")>> \in Seq(GoodStep)
          /\ <<OltDo("pon_down_if_enabled"), OltDo("olt_down")>> \in Seq(GoodStep)
          /\ <<OltDo("olt_up"), OltDo("pon_up_if_disabled")>> \in Seq(GoodStep)
      BY <1>n, <1>q
    <2>3. q \in Seq(GoodStep)
      BY <2>1, <2>2, Zenon
    <2> QED
      BY <1>2, <2>1, <2>3, Zenon
  <1>9. CASE RestartOLT(t)
    <2>1. ForEachOnu("disable") \o <<OltDo("olt_init")>> \in Seq(GoodStep)
      BY <1>n, <1>l, <1>q, <1>c
    <2>2. /\ prog' = [prog EXCEPT ![t] = ForEachOnu("disable") \o <<OltDo("olt_init")>>]
          /\ onuID' = onuID
      BY <1>9, Zenon DEF RestartOLT, Start
    <2> QED
      BY <1>2, <2>1, <2>2, Zenon
  <1>10. CASE ShutdownONUsOnPON(t) \/ PoweronONUsOnPON(t)
    <2>1. PICK name \in {"shutdown", "poweron"} :
              prog' = [prog EXCEPT ![t] = ForEachOnu(name)] /\ onuID' = onuID
      BY <1>10, Zenon DEF ShutdownONUsOnPON, PoweronONUsOnPON, Start, deviceVars
    <2>2. ForEachOnu(name) \in Seq(GoodStep)
      BY <1>n, <1>l, <2>1, Zenon
    <2> QED
      BY <1>2, <2>1, <2>2, Zenon
  <1> QED
    BY <1>1, <1>3, <1>4, <1>5, <1>6, <1>7, <1>8, <1>9, <1>10, Zenon
       DEF OnuRequest, OltRequest

\* A step of a goroutine leaves every goroutine with a good program: the steps
\* that PowerOn and the PON port's loops add enable only ONUs that have been
\* active before.
LEMMA StepsGood ==
    ASSUME TypeOK, ProgramsGood, IdsAssigned,
           NEW t \in Thread, ThreadStep(t)
    PROVE  prog' \in [Thread -> Seq(GoodStep')]
  <1> DEFINE N == StepNames \ {"enable"}
  <1>n. {"initialize", "discover", "pon_disable", "rediscover", "alarm",
         "disable", "suspend"} \subseteq N
    BY TableTypes, Zenon DEF StepNames
  <1>p. prog \in [Thread -> Seq(GoodStep)] /\ OltLoop \in Thread
    BY Zenon DEF TypeOK, ProgramsGood, Thread
  <1>d. \A name \in N, o \in Onu, k \in 0..3 : Do(name, o, k) \in GoodStep
    BY GoodSteps, Zenon
  <1>e. \A o \in Onu : onuID[o] \in Assign[o] => Do("enable", o, 0) \in GoodStep
    BY GoodSteps
  <1> HIDE DEF N
  <1>c. /\ \A p, q \in Seq(GoodStep) : p \o q \in Seq(GoodStep)
        /\ <<>> \in Seq(GoodStep)
    OBVIOUS
  <1>i. onuID' = onuID
    BY Zenon DEF ThreadStep, OnuStep, Initialize, Discover, EnterEnabled, Disable,
           PonDisable, PowerOn, ShutdownOne, ReDiscoverOnu, DeleteDone, PonLoop,
           EventRefused, CheckPon, SendPonIndication, SendPon, SendOltIndication,
           SendAlarm, OltInitialize, deviceVars
  <1>g. GoodStep' = GoodStep
    BY <1>i, GoodStepStable, Zenon
  <1>1. ASSUME NEW q \in Seq(GoodStep), prog[t] # <<>>, Continue(t, q)
        PROVE  prog' \in [Thread -> Seq(GoodStep')]
    <2>1. q \o Tail(prog[t]) \in Seq(GoodStep)
      BY <1>1, <1>p, ExpandedProgram, Zenon
    <2> QED
      BY <1>1, <2>1, <1>p, <1>g, Zenon DEF Continue
  <1>2. ASSUME NEW e \in OnuEvents, EventRefused(t, e)
        PROVE  prog' \in [Thread -> Seq(GoodStep')]
    <2>1. prog[t] \in Seq(GoodStep) /\ prog[t] # <<>>
      BY <1>2, <1>p, Zenon DEF EventRefused, At
    <2>2. Head(prog[t]) \in Step
      BY <2>1, TailOfProgram, GoodSteps, Zenon
    <2>3. Head(prog[t]).skip \in Nat
      BY <2>2 DEF Step
    <2>4. SubSeq(prog[t], Head(prog[t]).skip + 2, Len(prog[t])) \in Seq(GoodStep)
      BY <2>1, <2>3, RestOfProgram, Zenon
    <2>5. prog' = [prog EXCEPT ![t] =
                     SubSeq(prog[t], Head(prog[t]).skip + 2, Len(prog[t]))]
      BY <1>2, <1>p, Zenon DEF EventRefused, Failed
    <2> QED
      BY <2>4, <2>5, <1>p, <1>g, Zenon
  <1>3. ASSUME NEW o \in Onu, OnuStep(t, o)
        PROVE  prog' \in [Thread -> Seq(GoodStep')]
    <2>1. CASE \E e \in OnuEvents : EventFires(t, o, e)
      BY <2>1, <1>1, <1>c, Zenon DEF EventFires, At
    <2>2. CASE PowerOn(t, o)
      <3> DEFINE cycle == IF state[o] = "disabled" THEN 1 ELSE 0
                 init == IF state[o] \in {"created", "disabled"}
                         THEN <<Do("initialize", o, 2 + cycle)>> ELSE <<>>
                 mid == <<Do("alarm", o, 0), Do("discover", o, cycle)>>
                 last == IF cycle = 1 THEN <<Do("enable", o, 0)>> ELSE <<>>
      <3>1. cycle \in 0..1 /\ 2 + cycle \in 0..3
        OBVIOUS
      <3>2. cycle = 1 => Do("enable", o, 0) \in GoodStep
        BY <1>e, <1>3 DEF IdsAssigned
      <3> HIDE DEF cycle
      <3>3. init \in Seq(GoodStep) /\ mid \in Seq(GoodStep)
        BY <3>1, <1>n, <1>d
      <3>4. last \in Seq(GoodStep)
        BY <3>2
      <3> HIDE DEF init, mid, last
      <3>5. init \o mid \o last \in Seq(GoodStep)
        BY <3>3, <3>4, <1>c, Zenon
      <3>6. /\ prog[t] # <<>>
            /\ Continue(t, IF olt = "deleted" THEN <<>> ELSE init \o mid \o last)
        BY <2>2, Zenon DEF PowerOn, At, init, mid, last, cycle
      <3> QED
        BY <3>5, <3>6, <1>1, <1>c, Zenon
    <2>3. CASE ShutdownOne(t, o)
      <3>1. ShutdownSteps(o, 0) \in Seq(GoodStep)
        BY <1>n, <1>d DEF ShutdownSteps
      <3> QED
        BY <2>3, <3>1, <1>1, Zenon DEF ShutdownOne, At
    <2>4. CASE ReDiscoverOnu(t, o)
      <3>1. <<Do("initialize", o, 0), Do("discover", o, 0)>> \in Seq(GoodStep)
        BY <1>n, <1>d
      <3> QED
        BY <2>4, <3>1, <1>1, <1>c, Zenon DEF ReDiscoverOnu, At
    <2>5. CASE DeleteDone(t, o)
      <3>1. <<Do("rediscover", o, 0)>> \in Seq(GoodStep)
        BY <1>n, <1>d
      <3> QED
        BY <2>5, <3>1, <1>1, <1>c, Zenon DEF DeleteDone, At
    <2>6. CASE PonLoop(t, o)
      <3> DEFINE again == <<Do("initialize", o, 1), Do("discover", o, 0)>>
                 disc == <<Do("discover", o, 0)>>
                 enab == <<Do("enable", o, 0)>>
                 susp == <<Do("pon_disable", o, 0)>>
      <3>1. again \in Seq(GoodStep) /\ disc \in Seq(GoodStep) /\ susp \in Seq(GoodStep)
        BY <1>n, <1>d
      <3>2. state[o] = "pon_disabled" => enab \in Seq(GoodStep)
        BY <1>e, <1>3 DEF IdsAssigned
      <3>3. prog[t] # <<>>
        BY <2>6, Zenon DEF PonLoop
      <3> HIDE DEF again, disc, enab, susp
      <3>4. CASE Continue(t, again)
        BY <3>1, <3>3, <3>4, <1>1, Zenon
      <3>5. CASE Continue(t, CASE state[o] = "pon_disabled" -> enab
                               [] state[o] = "disabled" -> again
                               [] state[o] = "initialized" -> disc
                               [] OTHER -> <<>>)
        BY <3>1, <3>2, <3>3, <3>5, <1>1, <1>c, Zenon
      <3>6. CASE Continue(t, IF state[o] \in {"initialized", "disabled"}
                             THEN <<>> ELSE susp)
        BY <3>1, <3>3, <3>6, <1>1, <1>c, Zenon
      <3> QED
        BY <2>6, <3>4, <3>5, <3>6, Zenon DEF PonLoop, again, disc, enab, susp
    <2> QED
      BY <1>3, <2>1, <2>2, <2>3, <2>4, <2>5, <2>6, TableTypes, Zenon
         DEF OnuStep, Initialize, Discover, EnterEnabled, Disable, PonDisable
  <1>4. CASE SendPonIndication(t)
    <2>1. PICK e \in {"enable", "disable"} : SendPon(t, e)
      BY <1>4, Zenon DEF SendPonIndication
    <2>2. prog[t] # <<>>
      BY <1>4, Zenon DEF SendPonIndication, At
    <2>3. CASE Fires(PonTx, e, pon)
      <3> DEFINE loop == IF e = "enable" THEN PonEnableLoop
                         ELSE ForEachOnu("suspend")
      <3>1. loop \in Seq(GoodStep)
        BY GoodLoops, <1>n, Zenon DEF N
      <3>2. Tail(prog[t]) \in Seq(GoodStep)
        BY <2>2, <1>p, TailOfProgram, Zenon
      <3>3. prog' = [[prog EXCEPT ![t] = Tail(prog[t])] EXCEPT ![OltLoop] = loop]
        BY <2>1, <2>3, <1>p, Zenon DEF SendPon
      <3> HIDE DEF loop
      <3> QED
        BY <3>1, <3>2, <3>3, <1>p, <1>g, Zenon
    <2>4. CASE ~Fires(PonTx, e, pon)
      BY <2>1, <2>2, <2>4, <1>1, <1>c, Zenon DEF SendPon
    <2> QED
      BY <2>3, <2>4, Zenon
  <1>5. CASE SendOltIndication(t) \/ SendAlarm(t) \/ OltInitialize(t)
    BY <1>5, <1>1, <1>c, Zenon DEF SendOltIndication, SendAlarm, OltInitialize, At
  <1>6. CASE CheckPon(t)
    <2>1. /\ <<OltDo("pon_up")>> \in Seq(GoodStep)
          /\ <<OltDo("pon_down")>> \in Seq(GoodStep)
      <3>1. {"pon_up", "pon_down"} \subseteq StepNames \ {"enable"}
        BY TableTypes, Zenon DEF StepNames
      <3>2. OltDo("pon_up") \in GoodStep /\ OltDo("pon_down") \in GoodStep
        BY <3>1, GoodSteps DEF OltDo
      <3> QED
        BY <3>2
    <2>2. /\ prog[t] # <<>>
          /\ \E q \in {<<>>, <<OltDo("pon_up")>>, <<OltDo("pon_down")>>} : Continue(t, q)
      BY <1>6, Zenon DEF CheckPon, At
    <2> QED
      BY <2>1, <2>2, <1>1, <1>c, Zenon
  <1> QED
    BY <1>2, <1>3, <1>4, <1>5, <1>6, Zenon DEF ThreadStep

-----------------------------------------------------------------------------
(***************************************************************************)
(* Type correctness, together with the part of IdDiscipline that does not  *)
(* depend on how VOLTHA assigns ids.                                       *)
(***************************************************************************)
BaseInv == TypeOK /\ ProgramsGood /\ IdsAssigned /\ EnteringActive

\* The machine of the ONU stays in its states, whatever event is fired.
LEMMA OnuStateType ==
    ASSUME NEW s \in OnuStates, NEW e \in OnuEvents
    PROVE  After(OnuTx, e, s) \in OnuStates
  BY DEF After, OnuTx, Tx, OnuStates, OnuEvents

\* The operational state is up or down.
LEMMA OperType ==
    ASSUME NEW s \in {"up", "down"}
    PROVE  /\ After(OperTx, "enable", s) = "up"
           /\ After(OperTx, "disable", s) = "down"
  BY Zenon DEF After, Fires, OperTx, Tx

\* The device at the start: nothing enabled, nothing allocated, nobody running.
LEMMA BaseInit == Init => BaseInv
  <1> SUFFICES ASSUME Init PROVE BaseInv
    BY Zenon
  <1>0. <<>> \in Seq(Step)
    OBVIOUS
  <1>1. TypeOK
    BY <1>0, Zenon DEF Init, TypeOK, OltStates, PonStates, OnuStates
  <1>2. ProgramsGood
    BY DEF Init, ProgramsGood
  <1>3. IdsAssigned /\ EnteringActive
    BY Zenon DEF Init, IdsAssigned, EnteringActive, ActiveStates
  <1> QED
    BY <1>1, <1>2, <1>3, Zenon DEF BaseInv

\* Every action keeps the type invariant and the ids of the ONUs that are or
\* were active.
LEMMA BaseStep == BaseInv /\ [Next]_vars => BaseInv'
  <1> SUFFICES ASSUME BaseInv, [Next]_vars PROVE BaseInv'
    BY Zenon
  <1> USE DEF BaseInv
  <1>p. ASSUME prog' \in [Thread -> Seq(GoodStep')]
        PROVE  ProgramsGood' /\ prog' \in [Thread -> Seq(Step)]
    <2>1. GoodStep' \subseteq Step
      BY Zenon DEF GoodStep
    <2> QED
      BY <1>p, <2>1, MorePrograms, Zenon DEF ProgramsGood
  <1>1. ASSUME NEW t \in Handler,
               (\E o \in Onu : OnuRequest(t, o)) \/ OltRequest(t)
        PROVE  BaseInv'
    <2>1. ProgramsGood' /\ prog' \in [Thread -> Seq(Step)]
      BY <1>1, <1>p, RequestsGood, Zenon
    <2>2. /\ olt' \in OltStates /\ everEnabled' \in BOOLEAN
          /\ onuID' \in [Onu -> OnuId]
          /\ AllocatedOnuIds' \in [OnuId -> Onu \cup {NoOnu}]
          /\ \A p \in Onu : onuID'[p] = onuID[p] \/ onuID'[p] \in Assign[p]
          /\ UNCHANGED <<pon, oper, entering, announced>>
      BY <1>1, TableTypes, ZenonT(30)
         DEF OnuRequest, OltRequest, ActivateOnu, DeleteOnu, ShutdownONU,
             PoweronONU, OmciReboot, OmciActivateSoftware, Enable, DisableOlt,
             ReenableOlt, DisablePonIf, EnablePonIf, RestartOLT,
             ShutdownONUsOnPON, PoweronONUsOnPON, deviceVars, TypeOK
    <2>3. /\ state' \in [Onu -> OnuStates]
          /\ \A p \in Onu :
                 state'[p] = state[p] \/ {state[p], state'[p]} \subseteq ActiveStates
      <3>1. CASE UNCHANGED state
        BY <3>1, Zenon DEF TypeOK
      <3>2. ASSUME NEW o \in Onu,
                   state' = [state EXCEPT ![o] = After(OnuTx, "activate_image", @)]
            PROVE  <2>3!1 /\ <2>3!2
        <4>1. After(OnuTx, "activate_image", state[o]) \in OnuStates
          BY OnuStateType, TableTypes, Zenon DEF TypeOK
        <4>2. \/ After(OnuTx, "activate_image", state[o]) = state[o]
              \/ /\ state[o] \in ActiveStates
                 /\ After(OnuTx, "activate_image", state[o]) \in ActiveStates
          <5>1. CASE Fires(OnuTx, "activate_image", state[o])
            BY <5>1, ImageTransitions, Zenon DEF TypeOK
          <5>2. CASE ~Fires(OnuTx, "activate_image", state[o])
            BY <5>2, Zenon DEF After
          <5> QED
            BY <5>1, <5>2, Zenon
        <4> QED
          BY <3>2, <4>1, <4>2, Zenon DEF TypeOK
      <3> QED
        BY <1>1, <3>1, <3>2, Zenon
           DEF OnuRequest, OltRequest, ActivateOnu, DeleteOnu, ShutdownONU,
               PoweronONU, OmciReboot, OmciActivateSoftware, Enable, DisableOlt,
               ReenableOlt, DisablePonIf, EnablePonIf, RestartOLT,
               ShutdownONUsOnPON, PoweronONUsOnPON, deviceVars
    <2>4. TypeOK'
      BY <2>1, <2>2, <2>3, Zenon DEF TypeOK
    <2>5. IdsAssigned'
      BY <2>2, <2>3, Zenon DEF IdsAssigned
    <2>6. EnteringActive'
      BY <2>2, <2>3, Zenon DEF EnteringActive, TypeOK
    <2> QED
      BY <2>1, <2>4, <2>5, <2>6, Zenon
  <1>2. ASSUME NEW t \in Thread, ThreadStep(t)
        PROVE  BaseInv'
    <2>1. ProgramsGood' /\ prog' \in [Thread -> Seq(Step)]
      BY <1>2, <1>p, StepsGood, Zenon
    <2>2. ASSUME NEW o \in Onu, OnuStep(t, o)
          PROVE  BaseInv'
      <3>0. /\ state[o] \in OnuStates /\ oper[o] \in {"up", "down"}
            /\ prog[t] \in Seq(GoodStep)
        BY Zenon DEF TypeOK, ProgramsGood
      <3>u. ASSUME UNCHANGED deviceVars
            PROVE  BaseInv'
        BY <3>u, <2>1, Zenon DEF deviceVars, TypeOK, IdsAssigned, EnteringActive
      <3>1. CASE Initialize(t, o)
        <4>1. /\ o \notin entering /\ Fires(OnuTx, "initialize", state[o])
              /\ state' = [state EXCEPT ![o] = "initialized"]
              /\ oper' = [oper EXCEPT ![o] = "up"]
              /\ UNCHANGED <<olt, pon, everEnabled, onuID, AllocatedOnuIds,
                             entering, announced>>
          BY <3>0, <3>1, OnuTransitions, OperType, ZenonT(30) DEF Initialize, EventFires
        <4> QED
          BY <2>1, <4>1, Zenon DEF TypeOK, IdsAssigned, EnteringActive, OnuStates,
                            ActiveStates
      <3>2. CASE Discover(t, o)
        <4>1. /\ o \notin entering /\ Fires(OnuTx, "discover", state[o])
              /\ state' = [state EXCEPT ![o] = "discovered"]
              /\ UNCHANGED <<olt, pon, everEnabled, oper, onuID,
                             AllocatedOnuIds, entering, announced>>
          BY <3>0, <3>2, OnuTransitions, Zenon DEF Discover, EventFires
        <4> QED
          BY <2>1, <4>1, Zenon DEF TypeOK, IdsAssigned, EnteringActive, OnuStates,
                            ActiveStates
      <3>3. CASE EnterEnabled(t, o)
        <4>1. /\ o \notin entering /\ Fires(OnuTx, "enable", state[o])
              /\ state' = [state EXCEPT ![o] = "enabled"]
              /\ entering' \subseteq entering \cup {o}
              /\ UNCHANGED <<olt, pon, everEnabled, oper, onuID,
                             AllocatedOnuIds, announced>>
          BY <3>0, <3>3, OnuTransitions, Zenon DEF EnterEnabled, EventFires
        <4>2. onuID[o] \in Assign[o]
          <5>1. prog[t] # <<>> /\ Head(prog[t]).do = "enable" /\ o = Head(prog[t]).onu
            BY <3>3, Zenon DEF EnterEnabled, EventFires, At, TheOnu
          <5>2. Head(prog[t]) \in GoodStep
            BY <3>0, <5>1, TailOfProgram, Zenon
          <5> QED
            BY <5>1, <5>2, Zenon DEF GoodStep
        <4> QED
          BY <2>1, <4>1, <4>2, Zenon DEF TypeOK, IdsAssigned, EnteringActive, OnuStates,
                                  ActiveStates
      <3>4. CASE Disable(t, o)
        <4>1. /\ o \notin entering
              /\ state[o] \in ActiveStates \cup {"pon_disabled"}
              /\ state' = [state EXCEPT ![o] = "disabled"]
              /\ oper' = [oper EXCEPT ![o] = "down"]
              /\ AllocatedOnuIds' = [AllocatedOnuIds EXCEPT ![onuID[o]] = NoOnu]
              /\ announced' = announced \ {o}
              /\ UNCHANGED <<olt, pon, everEnabled, onuID, entering>>
          BY <3>0, <3>4, OnuTransitions, OperType, ZenonT(30)
             DEF Disable, EventFires, CleanupOnuState
        <4> QED
          BY <2>1, <4>1, Zenon DEF TypeOK, IdsAssigned, EnteringActive, OnuStates,
                            ActiveStates
      <3>5. CASE PonDisable(t, o)
        <4>1. /\ o \notin entering
              /\ state[o] \in ActiveStates
              /\ state' = [state EXCEPT ![o] = "pon_disabled"]
              /\ AllocatedOnuIds' = [AllocatedOnuIds EXCEPT ![onuID[o]] = NoOnu]
              /\ announced' = announced \ {o}
              /\ UNCHANGED <<olt, pon, everEnabled, oper, onuID, entering>>
          BY <3>0, <3>5, OnuTransitions, Zenon DEF PonDisable, EventFires, CleanupOnuState
        <4> QED
          BY <2>1, <4>1, Zenon DEF TypeOK, IdsAssigned, EnteringActive, OnuStates,
                            ActiveStates
      <3>6. CASE \/ PowerOn(t, o) \/ ShutdownOne(t, o) \/ ReDiscoverOnu(t, o)
                 \/ DeleteDone(t, o) \/ PonLoop(t, o)
        BY <3>6, <3>u, Zenon DEF PowerOn, ShutdownOne, ReDiscoverOnu, DeleteDone, PonLoop
      <3> QED
        BY <2>2, <3>1, <3>2, <3>3, <3>4, <3>5, <3>6, Zenon DEF OnuStep
    <2>3. CASE \/ \E e \in OnuEvents : EventRefused(t, e)
               \/ CheckPon(t) \/ SendAlarm(t)
      BY <2>1, <2>3, Zenon
         DEF EventRefused, CheckPon, SendAlarm, deviceVars, TypeOK, IdsAssigned, EnteringActive
    <2>4. CASE SendPonIndication(t)
      <3>1. PICK e \in {"enable", "disable"} : SendPon(t, e)
        BY <2>4, Zenon DEF SendPonIndication
      <3>2. /\ pon' \in PonStates
            /\ UNCHANGED <<olt, everEnabled, state, oper, onuID,
                           AllocatedOnuIds, entering, announced>>
        BY <3>1, TableTypes, Zenon DEF SendPon, TypeOK
      <3> QED
        BY <2>1, <3>2, Zenon DEF TypeOK, IdsAssigned, EnteringActive
    <2>5. CASE SendOltIndication(t) \/ OltInitialize(t)
      BY <2>1, <2>5, TableTypes, Zenon
         DEF SendOltIndication, OltInitialize, TypeOK, IdsAssigned, EnteringActive
    <2> QED
      BY <1>2, <2>2, <2>3, <2>4, <2>5, Zenon DEF ThreadStep
  <1>3. ASSUME NEW o \in Onu, StoreOnuId(o)
        PROVE  BaseInv'
    BY <1>3, GoodStepStable, Zenon
       DEF StoreOnuId, TypeOK, ProgramsGood, IdsAssigned, EnteringActive
  <1>4. ASSUME NEW o \in Onu, NEW e \in ImageEvents, OmciImage(o, e)
        PROVE  BaseInv'
    <2>1. state[o] \in ActiveStates /\ After(OnuTx, e, state[o]) \in ActiveStates
      BY <1>4, ImageTransitions, Zenon DEF OmciImage, TypeOK
    <2>2. /\ state' = [state EXCEPT ![o] = After(OnuTx, e, state[o])]
          /\ UNCHANGED <<olt, pon, everEnabled, oper, onuID, AllocatedOnuIds,
                         entering, announced, prog>>
      BY <1>4, Zenon DEF OmciImage
    <2> QED
      BY <2>1, <2>2, TableTypes, GoodStepStable, Zenon
         DEF TypeOK, ProgramsGood, IdsAssigned, EnteringActive
  <1>5. CASE UNCHANGED vars
    BY <1>5, GoodStepStable, Zenon
       DEF vars, TypeOK, ProgramsGood, IdsAssigned, EnteringActive
  <1> QED
    BY <1>1, <1>2, <1>3, <1>4, <1>5, Zenon DEF Next

-----------------------------------------------------------------------------
(***************************************************************************)
(* Stable ids: the table of allocated ids is exact.                        *)
(***************************************************************************)

\* What stable ids give: whoever else has an entry or an id of its own, it is
\* not the id assigned to o.
LEMMA DistinctIds ==
    ASSUME StableIds, NEW o \in Onu, NEW p \in Onu, NEW i,
           i \in Assign[o], i \in Assign[p]
    PROVE  o = p
  BY Zenon DEF StableIds

\* An ONU has one assigned id.
LEMMA OneId ==
    ASSUME StableIds, NEW o \in Onu, NEW i \in Assign[o], NEW j \in Assign[o]
    PROVE  i = j
  BY DEF StableIds

TableInv == NoStaleOnuId /\ ActivationAnnounced

\* Every action keeps the entries of the table exact and announces every
\* activation.
LEMMA TableStep ==
    ASSUME StableIds, BaseInv, TableInv, [Next]_vars
    PROVE  TableInv'
  <1> USE DEF BaseInv, TableInv
  <1>t. /\ AllocatedOnuIds \in [OnuId -> Onu \cup {NoOnu}]
        /\ onuID \in [Onu -> OnuId]
        /\ state \in [Onu -> OnuStates]
        /\ entering \subseteq Onu
    BY Zenon DEF TypeOK
  <1>a. \A i \in OnuId, p \in Onu : AllocatedOnuIds[i] = p => i \in Assign[p]
    BY DEF NoStaleOnuId, IdsAssigned
  <1>u. ASSUME UNCHANGED <<state, onuID, AllocatedOnuIds, entering, announced>>
        PROVE  TableInv'
    BY <1>u, Zenon DEF NoStaleOnuId, ActivationAnnounced
  <1>1. ASSUME NEW t \in Handler, NEW o \in Onu, OnuRequest(t, o)
        PROVE  TableInv'
    <2>1. ASSUME NEW id \in OnuId, ActivateOnu(t, o, id)
          PROVE  TableInv'
      <3>1. /\ id \in Assign[o] /\ onuID' = [onuID EXCEPT ![o] = id]
            /\ UNCHANGED <<state, AllocatedOnuIds, entering, announced>>
        BY <2>1, Zenon DEF ActivateOnu
      <3>2. \A i \in OnuId : AllocatedOnuIds[i] = o => i = id
        BY <3>1, <1>a, OneId, Zenon
      <3> QED
        BY <3>1, <3>2, <1>t, Zenon DEF NoStaleOnuId, ActivationAnnounced
    <2>2. CASE OmciActivateSoftware(t, o)
      <3>1. /\ state' = [state EXCEPT ![o] = After(OnuTx, "activate_image", state[o])]
            /\ UNCHANGED <<onuID, AllocatedOnuIds, entering, announced>>
        BY <2>2, Zenon DEF OmciActivateSoftware
      <3>2. \/ After(OnuTx, "activate_image", state[o]) = state[o]
            \/ {state[o], After(OnuTx, "activate_image", state[o])} \subseteq ActiveStates
        <4>1. CASE Fires(OnuTx, "activate_image", state[o])
          BY <4>1, <1>t, ImageTransitions, Zenon
        <4>2. CASE ~Fires(OnuTx, "activate_image", state[o])
          BY <4>2, Zenon DEF After
        <4> QED
          BY <4>1, <4>2, Zenon
      <3> QED
        BY <3>1, <3>2, <1>t DEF NoStaleOnuId, ActivationAnnounced
    <2>3. CASE DeleteOnu(t, o) \/ ShutdownONU(t, o) \/ PoweronONU(t, o)
               \/ OmciReboot(t, o)
      BY <2>3, <1>u, Zenon DEF DeleteOnu, ShutdownONU, PoweronONU, OmciReboot, deviceVars
    <2> QED
      BY <1>1, <2>1, <2>2, <2>3, Zenon DEF OnuRequest
  <1>2. ASSUME NEW t \in Handler, OltRequest(t)
        PROVE  TableInv'
    <2>1. CASE RestartOLT(t)
      BY <2>1, OnuAssumption, Zenon DEF RestartOLT, NoStaleOnuId, ActivationAnnounced
    <2>2. CASE ~RestartOLT(t)
      BY <1>2, <2>2, <1>u, Zenon
         DEF OltRequest, Enable, DisableOlt, ReenableOlt, DisablePonIf,
             EnablePonIf, ShutdownONUsOnPON, PoweronONUsOnPON, deviceVars
    <2> QED
      BY <2>1, <2>2, Zenon
  <1>3. ASSUME NEW t \in Thread, NEW o \in Onu, OnuStep(t, o)
        PROVE  TableInv'
    <2>1. CASE Initialize(t, o) \/ Discover(t, o)
      <3>1. PICK s \in {"initialized", "discovered"} :
                /\ state[o] \notin ActiveStates
                /\ state' = [state EXCEPT ![o] = s]
                /\ UNCHANGED <<onuID, AllocatedOnuIds, entering, announced>>
        BY <2>1, <1>t, OnuTransitions
           DEF Initialize, Discover, EventFires, ActiveStates
      <3> QED
        BY <3>1, <1>t, SMTT(30) DEF NoStaleOnuId, ActivationAnnounced, ActiveStates
    <2>2. CASE EnterEnabled(t, o)
      <3>1. /\ state[o] \notin ActiveStates
            /\ state' = [state EXCEPT ![o] = "enabled"]
            /\ entering' = IF AllocatedOnuIds[onuID[o]] = NoOnu
                           THEN entering \cup {o} ELSE entering
            /\ UNCHANGED <<onuID, AllocatedOnuIds, announced>>
        BY <2>2, <1>t, OnuTransitions, ZenonT(30) DEF EnterEnabled, EventFires, ActiveStates
      <3>2. onuID[o] \in Assign[o]
        <4>1. prog[t] # <<>> /\ Head(prog[t]).do = "enable" /\ o = Head(prog[t]).onu
          BY <2>2, Zenon DEF EnterEnabled, EventFires, At, TheOnu
        <4>2. Head(prog[t]) \in GoodStep
          BY <4>1, TailOfProgram, Zenon DEF ProgramsGood
        <4> QED
          BY <4>1, <4>2, Zenon DEF GoodStep
      <3>3. AllocatedOnuIds[onuID[o]] = NoOnu
        <4>1. AllocatedOnuIds[onuID[o]] # o
          BY <3>1, <1>t, Zenon DEF NoStaleOnuId
        <4>2. \A p \in Onu : AllocatedOnuIds[onuID[o]] = p => p = o
          BY <3>2, <1>a, <1>t, DistinctIds, Zenon
        <4> QED
          BY <4>1, <4>2, <1>t, Zenon
      <3> QED
        BY <3>1, <3>3, <1>t DEF NoStaleOnuId, ActivationAnnounced
    <2>3. CASE Disable(t, o) \/ PonDisable(t, o)
      <3>1. PICK s \in {"disabled", "pon_disabled"} :
                /\ state[o] \in ActiveStates \cup {"pon_disabled"}
                /\ state' = [state EXCEPT ![o] = s]
                /\ AllocatedOnuIds' = [AllocatedOnuIds EXCEPT ![onuID[o]] = NoOnu]
                /\ announced' = announced \ {o}
                /\ UNCHANGED <<onuID, entering>>
        BY <2>3, <1>t, OnuTransitions
           DEF Disable, PonDisable, EventFires, CleanupOnuState
      <3>2. \A i \in OnuId : AllocatedOnuIds'[i] # o
        BY <3>1, <1>t, OnuAssumption, Zenon DEF NoStaleOnuId
      <3> QED
        BY <3>1, <3>2, <1>t, OnuAssumption, SMTT(30)
           DEF NoStaleOnuId, ActivationAnnounced, ActiveStates
    <2>4. CASE \/ PowerOn(t, o) \/ ShutdownOne(t, o) \/ ReDiscoverOnu(t, o)
               \/ DeleteDone(t, o) \/ PonLoop(t, o)
      BY <2>4, <1>u, Zenon
         DEF PowerOn, ShutdownOne, ReDiscoverOnu, DeleteDone, PonLoop, deviceVars
    <2> QED
      BY <1>3, <2>1, <2>2, <2>3, <2>4, Zenon DEF OnuStep
  <1>4. ASSUME NEW t \in Thread,
               \/ \E e \in OnuEvents : EventRefused(t, e)
               \/ CheckPon(t) \/ SendPonIndication(t) \/ SendOltIndication(t)
               \/ SendAlarm(t) \/ OltInitialize(t)
        PROVE  TableInv'
    BY <1>4, <1>u, Zenon DEF EventRefused, CheckPon, SendPonIndication, SendPon,
                      SendOltIndication, SendAlarm, OltInitialize, deviceVars
  <1>5. ASSUME NEW o \in Onu, StoreOnuId(o)
        PROVE  TableInv'
    <2>1. /\ state[o] \in ActiveStates
          /\ AllocatedOnuIds' = [AllocatedOnuIds EXCEPT ![onuID[o]] = o]
          /\ announced' = announced \cup {o}
          /\ entering' = entering \ {o}
          /\ UNCHANGED <<state, onuID>>
      BY <1>5, Zenon DEF StoreOnuId, EnteringActive
    <2> QED
      BY <2>1, <1>t, Zenon DEF NoStaleOnuId, ActivationAnnounced
  <1>6. ASSUME NEW o \in Onu, NEW e \in ImageEvents, OmciImage(o, e)
        PROVE  TableInv'
    <2>1. state[o] \in ActiveStates /\ After(OnuTx, e, state[o]) \in ActiveStates
      BY <1>6, <1>t, ImageTransitions, Zenon DEF OmciImage
    <2>2. /\ state' = [state EXCEPT ![o] = After(OnuTx, e, state[o])]
          /\ UNCHANGED <<onuID, AllocatedOnuIds, entering, announced>>
      BY <1>6, Zenon DEF OmciImage
    <2> QED
      BY <2>1, <2>2, <1>t DEF NoStaleOnuId, ActivationAnnounced
  <1>7. CASE UNCHANGED vars
    BY <1>7, <1>u, Zenon DEF vars
  <1> QED
    BY <1>1, <1>2, <1>3, <1>4, <1>5, <1>6, <1>7, Zenon DEF Next, ThreadStep

-----------------------------------------------------------------------------
(***************************************************************************)
(* Theorems.                                                               *)
(***************************************************************************)

\* Every state of the life cycle is well typed: the machines stay in the
\* states of their tables and the handlers in programs over known steps.
THEOREM TypeCorrect == Spec => []TypeOK
  <1>1. BaseInv => TypeOK
    BY Zenon DEF BaseInv
  <1> QED
    BY <1>1, BaseInit, BaseStep, PTL DEF Spec

\* cleanupOnuState, enter_enabled and the callers of the enable event keep the
\* table of allocated ids and the ids of the ONUs in step, in every
\* interleaving, for any number of ONUs, ids and goroutines.
THEOREM IdsDisciplined == Spec => []IdDiscipline
  <1> DEFINE I == BaseInv /\ (StableIds => TableInv)
  <1>1. Init => I
    <2>1. Init => TableInv
      BY OnuAssumption DEF Init, TableInv, NoStaleOnuId, ActivationAnnounced,
                           ActiveStates
    <2> QED
      BY <2>1, BaseInit, Zenon
  <1>2. I /\ [Next]_vars => I'
    <2> SUFFICES ASSUME I, [Next]_vars PROVE I'
      BY Zenon
    <2>1. BaseInv'
      BY BaseStep, Zenon
    <2>2. StableIds' => TableInv'
      <3> SUFFICES ASSUME StableIds' PROVE TableInv'
        BY Zenon
      <3>1. StableIds
        BY Zenon DEF StableIds
      <3> QED
        BY <3>1, TableStep, Zenon
    <2> QED
      BY <2>1, <2>2, Zenon
  <1>3. I => IdDiscipline
    BY Zenon DEF BaseInv, TableInv, IdDiscipline
  <1> HIDE DEF I
  <1> QED
    BY <1>1, <1>2, <1>3, PTL DEF Spec

\* When VOLTHA gives every ONU an id of its own, no ONU that has been shut
\* down, deleted or suspended keeps an entry in AllocatedOnuIds.
THEOREM NoStaleIds == StableIds => (Spec => []NoStaleOnuId)
  <1> SUFFICES ASSUME StableIds PROVE Spec => []NoStaleOnuId
    BY Zenon
  <1>1. IdDiscipline => NoStaleOnuId
    BY Zenon DEF IdDiscipline
  <1> QED
    BY <1>1, IdsDisciplined, PTL

\* Then no activation is lost to the onu-id-duplicated branch of enter_enabled.
THEOREM ActivationsAnnounced == StableIds => (Spec => []ActivationAnnounced)
  <1> SUFFICES ASSUME StableIds PROVE Spec => []ActivationAnnounced
    BY Zenon
  <1>1. IdDiscipline => ActivationAnnounced
    BY Zenon DEF IdDiscipline
  <1> QED
    BY <1>1, IdsDisciplined, PTL

\* The operational state follows the internal state through every callback.
THEOREM OperStateFollows == Spec => []OperFollowsState
  <1>1. Init => OperFollowsState
    BY Zenon DEF Init, OperFollowsState
  <1>2. ASSUME TypeOK, OperFollowsState, [Next]_vars
        PROVE  OperFollowsState'
    <2>u. ASSUME UNCHANGED <<state, oper>>
          PROVE  OperFollowsState'
      BY <2>u, <1>2, Zenon DEF OperFollowsState
    <2>t. state \in [Onu -> OnuStates] /\ oper \in [Onu -> {"up", "down"}]
      BY <1>2, Zenon DEF TypeOK
    <2>i. ASSUME NEW o \in Onu, NEW e \in ImageEvents \cup {"activate_image"},
                 state' = [state EXCEPT ![o] = After(OnuTx, e, state[o])],
                 UNCHANGED oper
          PROVE  OperFollowsState'
      <3>1. CASE Fires(OnuTx, e, state[o])
        <4>1. /\ state[o] \in ActiveStates
              /\ After(OnuTx, e, state[o]) \in ActiveStates
          BY <3>1, <2>t, ImageTransitions, Zenon
        <4> QED
          BY <4>1, <2>i, <2>t, <1>2, Zenon DEF OperFollowsState, ActiveStates
      <3>2. CASE ~Fires(OnuTx, e, state[o])
        BY <3>2, <2>i, <2>t, <1>2, Zenon DEF OperFollowsState, After
      <3> QED
        BY <3>1, <3>2, Zenon
    <2>1. ASSUME NEW t \in Handler, NEW o \in Onu, OnuRequest(t, o)
          PROVE  OperFollowsState'
      <3>1. CASE OmciActivateSoftware(t, o)
        BY <3>1, <2>i, Zenon DEF OmciActivateSoftware
      <3>2. CASE ~OmciActivateSoftware(t, o)
        BY <2>1, <3>2, <2>u, Zenon DEF OnuRequest, ActivateOnu, DeleteOnu, ShutdownONU,
                                PoweronONU, OmciReboot, deviceVars
      <3> QED
        BY <3>1, <3>2, Zenon
    <2>2. ASSUME NEW t \in Handler, OltRequest(t)
          PROVE  OperFollowsState'
      BY <2>2, <2>u, Zenon
         DEF OltRequest, Enable, DisableOlt, ReenableOlt, DisablePonIf,
             EnablePonIf, RestartOLT, ShutdownONUsOnPON, PoweronONUsOnPON,
             deviceVars
    <2>3. ASSUME NEW t \in Thread, NEW o \in Onu, OnuStep(t, o)
          PROVE  OperFollowsState'
      <3>1. CASE Initialize(t, o)
        <4>1. /\ state' = [state EXCEPT ![o] = "initialized"]
              /\ oper' = [oper EXCEPT ![o] = "up"]
          <5>1. Fires(OnuTx, "initialize", state[o]) /\ state[o] \in OnuStates
            BY <3>1, <2>3, <2>t, Zenon DEF Initialize, EventFires
          <5>2. After(OnuTx, "initialize", state[o]) = "initialized"
            BY <5>1, OnuTransitions, Zenon
          <5>3. After(OperTx, "enable", oper[o]) = "up"
            BY <2>3, <2>t, OperType, Zenon
          <5> QED
            BY <3>1, <5>2, <5>3, <2>t, Zenon DEF Initialize, EventFires
        <4> QED
          BY <4>1, <2>t, <1>2, Zenon DEF OperFollowsState
      <3>2. CASE Disable(t, o)
        <4>1. /\ state' = [state EXCEPT ![o] = "disabled"]
              /\ oper' = [oper EXCEPT ![o] = "down"]
          <5>1. Fires(OnuTx, "disable", state[o]) /\ state[o] \in OnuStates
            BY <3>2, <2>3, <2>t, Zenon DEF Disable, EventFires
          <5>2. After(OnuTx, "disable", state[o]) = "disabled"
            BY <5>1, OnuTransitions, Zenon
          <5>3. After(OperTx, "disable", oper[o]) = "down"
            BY <2>3, <2>t, OperType, Zenon
          <5> QED
            BY <3>2, <5>2, <5>3, <2>t, Zenon DEF Disable, EventFires
        <4> QED
          BY <4>1, <2>t, <1>2, Zenon DEF OperFollowsState
      <3>3. CASE Discover(t, o) \/ EnterEnabled(t, o) \/ PonDisable(t, o)
        <4>1. PICK s \in {"discovered", "enabled", "pon_disabled"} :
                  /\ state[o] \notin {"created", "disabled"}
                  /\ state' = [state EXCEPT ![o] = s]
                  /\ UNCHANGED oper
          BY <3>3, <2>t, OnuTransitions, ZenonT(30)
             DEF Discover, EnterEnabled, PonDisable, EventFires, ActiveStates
        <4> QED
          BY <4>1, <2>t, <1>2, Zenon DEF OperFollowsState
      <3>4. CASE \/ PowerOn(t, o) \/ ShutdownOne(t, o) \/ ReDiscoverOnu(t, o)
                 \/ DeleteDone(t, o) \/ PonLoop(t, o)
        BY <3>4, <2>u, Zenon
           DEF PowerOn, ShutdownOne, ReDiscoverOnu, DeleteDone, PonLoop, deviceVars
      <3> QED
        BY <2>3, <3>1, <3>2, <3>3, <3>4, Zenon DEF OnuStep
    <2>4. ASSUME NEW t \in Thread,
                 \/ \E e \in OnuEvents : EventRefused(t, e)
                 \/ CheckPon(t) \/ SendPonIndication(t) \/ SendOltIndication(t)
                 \/ SendAlarm(t) \/ OltInitialize(t)
          PROVE  OperFollowsState'
      BY <2>4, <2>u, Zenon DEF EventRefused, CheckPon, SendPonIndication, SendPon,
                        SendOltIndication, SendAlarm, OltInitialize, deviceVars
    <2>5. ASSUME NEW o \in Onu, StoreOnuId(o)
          PROVE  OperFollowsState'
      BY <2>5, <2>u, Zenon DEF StoreOnuId
    <2>6. ASSUME NEW o \in Onu, NEW e \in ImageEvents, OmciImage(o, e)
          PROVE  OperFollowsState'
      BY <2>6, <2>i, Zenon DEF OmciImage
    <2>7. CASE UNCHANGED vars
      BY <2>7, <2>u, Zenon DEF vars
    <2> QED
      BY <1>2, <2>1, <2>2, <2>3, <2>4, <2>5, <2>6, <2>7, Zenon DEF Next, ThreadStep
  <1> QED
    BY <1>1, <1>2, TypeCorrect, PTL DEF Spec
-----------------------------------------------------------------------------
(***************************************************************************)
(* No ONU is left behind.                                                  *)
(***************************************************************************)
Automatic == Mode \in {"default", "only-pon"}

\* Step i of p is the discovery of o, or the alarm before it.
Leads(p, i, o) ==
    \/ i \in 1..Len(p) /\ p[i].do = "discover" /\ p[i].onu = o
    \/ /\ i \in 1..Len(p) /\ i + 1 \in 1..Len(p) /\ p[i].do = "alarm"
       /\ p[i + 1].do = "discover" /\ p[i + 1].onu = o

\* Every handler that initializes an ONU goes on to discover it, and an ONU that is
\* initialized has one that does so next.
Paired(p) == \A i \in 1..Len(p) : p[i].do = "initialize" => Leads(p, i + 1, p[i].onu)
PairedInv == \A t \in Thread : Paired(prog[t])
DiscoverInv == \A o \in Onu : state[o] = "initialized" => \E t \in Thread : Leads(prog[t], 1, o)

\* ONUs are suspended only by the loop of the OLT while the PON port is disabled.
Mild == {s \in Step : s.do \notin {"suspend", "pon_disable"}}
SuspendInv == \A t \in Thread : prog[t] \in Seq(Mild) \/ (t = OltLoop /\ pon = "disabled")

\* The loop of the OLT runs the callbacks of the PON port, and a step of it that fails drops at
\* most a discovery with it.
LoopNames == {"activate", "resume", "suspend", "initialize", "discover", "enable", "pon_disable"}
Tame(p) ==
    \A i \in 1..Len(p) :
        /\ p[i].do \in LoopNames
        /\ p[i].skip = 0 \/ (p[i].skip = 1 /\ i + 1 \in 1..Len(p) /\ p[i + 1].do = "discover")

\* An ONU in pon_disabled under an enabled PON port is one that the loop has yet to resume.
Resumes(p, o) ==
    \/ p # <<>> /\ p[1].do = "enable" /\ p[1].onu = o
    \/ \E i \in 1..Len(p) : p[i].do = "resume" /\ p[i].onu = o
ResumeInv ==
    \A o \in Onu : state[o] = "pon_disabled" =>
        pon # "created" /\ (pon = "enabled" => Resumes(prog[OltLoop], o))

LeftInv == PairedInv /\ DiscoverInv /\ SuspendInv /\ Tame(prog[OltLoop]) /\ ResumeInv

\* r is p without its first j steps; r is u followed by v.
Drops(p, r, j) ==
    /\ j \in Nat /\ Len(r) \in Nat
    /\ \A i \in 1..Len(r) : i + j \in 1..Len(p) /\ r[i] = p[i + j]
    /\ \A i \in 1..Len(p) : i - j \in 1..Len(r) \/ i \in 1..j
Joins(r, u, v) ==
    /\ \A i \in 1..Len(u) : i \in 1..Len(r) /\ r[i] = u[i]
    /\ \A i \in 1..Len(v) : Len(u) + i \in 1..Len(r) /\ r[Len(u) + i] = v[i]
    /\ \A i \in 1..Len(r) : i \in 1..Len(u) \/ i - Len(u) \in 1..Len(v)

\* Dropping the first step, or the steps that fail with it.
LEMMA Dropping ==
    ASSUME NEW S, NEW p \in Seq(S), p # <<>>
    PROVE  /\ 1 \in 1..Len(p) /\ Head(p) = p[1] /\ <<>> \o Tail(p) = Tail(p)
           /\ Tail(p) \in Seq(S) /\ Drops(p, Tail(p), 1)
           /\ \A k \in Nat : /\ SubSeq(p, k + 2, Len(p)) \in Seq(S)
                             /\ Drops(p, SubSeq(p, k + 2, Len(p)), k + 1)
<1>1. /\ 1 \in 1..Len(p) /\ Head(p) = p[1] /\ <<>> \o Tail(p) = Tail(p)
      /\ Tail(p) \in Seq(S)
  OBVIOUS
<1>2. Drops(p, Tail(p), 1)
  BY DEF Drops
<1>3. ASSUME NEW k \in Nat
      PROVE  /\ SubSeq(p, k + 2, Len(p)) \in Seq(S)
             /\ Drops(p, SubSeq(p, k + 2, Len(p)), k + 1)
  <2>1. SubSeq(p, k + 2, Len(p)) \in Seq(S)
    OBVIOUS
  <2>2. CASE k + 2 <= Len(p)
    BY <2>2 DEF Drops
  <2>3. CASE ~(k + 2 <= Len(p))
    BY <2>3 DEF Drops
  <2> QED
    BY <2>1, <2>2, <2>3, Zenon
<1> QED
  BY <1>1, <1>2, <1>3, Zenon

\* A step that is replaced by several.
LEMMA Joining ==
    ASSUME NEW S, NEW u \in Seq(S), NEW v \in Seq(S)
    PROVE  u \o v \in Seq(S) /\ Joins(u \o v, u, v)
BY DEF Joins

\* What is dropped from the front does not change what the rest leads to.
LEMMA LeadsDropped ==
    ASSUME NEW p, NEW r, NEW j, Drops(p, r, j), Len(p) \in Nat, NEW i \in Nat \ {0}, NEW o
    PROVE  Leads(p, i + j, o) <=> Leads(r, i, o)
<1>1. j \in Nat /\ Len(r) \in Nat
  BY Zenon DEF Drops
<1>2. \A k \in Nat \ {0} : k + j \in 1..Len(p) <=> k \in 1..Len(r)
  BY <1>1 DEF Drops
<1>3. \A k \in 1..Len(r) : r[k] = p[k + j]
  BY Zenon DEF Drops
<1>4. i + 1 \in Nat \ {0} /\ (i + 1) + j = (i + j) + 1
  BY <1>1
<1> QED
  BY <1>2, <1>3, <1>4, Zenon DEF Leads

\* The rest of a program is paired, or tame, as the program is.
LEMMA PairedDropped ==
    ASSUME NEW p, NEW r, NEW j, Drops(p, r, j), Len(p) \in Nat, Paired(p)
    PROVE  Paired(r)
<1> SUFFICES ASSUME NEW i \in 1..Len(r), r[i].do = "initialize"
             PROVE  Leads(r, i + 1, r[i].onu)
  BY Zenon DEF Paired
<1>1. j \in Nat /\ i + j \in 1..Len(p) /\ r[i] = p[i + j] /\ Len(r) \in Nat
  BY Zenon DEF Drops
<1>2. Leads(p, (i + j) + 1, r[i].onu)
  BY <1>1, Zenon DEF Paired
<1>3. (i + j) + 1 = (i + 1) + j /\ i + 1 \in Nat \ {0}
  BY <1>1
<1> QED
  BY <1>2, <1>3, LeadsDropped, Zenon

LEMMA TameDropped ==
    ASSUME NEW p, NEW r, NEW j, Drops(p, r, j), Len(p) \in Nat, Tame(p)
    PROVE  Tame(r)
<1> SUFFICES ASSUME NEW i \in 1..Len(r)
             PROVE  /\ r[i].do \in LoopNames
                    /\ r[i].skip = 0 \/ (r[i].skip = 1 /\ i + 1 \in 1..Len(r) /\ r[i + 1].do = "discover")
  BY Zenon DEF Tame
<1>1. j \in Nat /\ i + j \in 1..Len(p) /\ r[i] = p[i + j] /\ Len(r) \in Nat
  BY Zenon DEF Drops
<1>2. (i + j) + 1 \in 1..Len(p) => i + 1 \in 1..Len(r) /\ r[i + 1] = p[(i + j) + 1]
  <2>1. (i + j) + 1 = (i + 1) + j /\ ((i + 1) + j) - j = i + 1 /\ ~((i + 1) + j \in 1..j)
    BY <1>1
  <2>2. ASSUME (i + j) + 1 \in 1..Len(p)
        PROVE  i + 1 \in 1..Len(r) /\ r[i + 1] = p[(i + j) + 1]
    <3>1. (i + 1) + j \in 1..Len(p)
      BY <2>1, <2>2, Zenon
    <3>2. ((i + 1) + j) - j \in 1..Len(r)
      BY <2>1, <3>1, Zenon DEF Drops
    <3>3. i + 1 \in 1..Len(r)
      BY <2>1, <3>2, Zenon
    <3>4. r[i + 1] = p[(i + 1) + j]
      BY <3>3, Zenon DEF Drops
    <3> QED
      BY <2>1, <3>3, <3>4, Zenon
  <2> QED
    BY <2>2, Zenon
<1> QED
  BY <1>1, <1>2, Zenon DEF Tame

\* So is one program after another.
LEMMA PairedJoined ==
    ASSUME NEW r, NEW u, NEW v, Joins(r, u, v), Len(u) \in Nat, Len(v) \in Nat, Paired(u), Paired(v)
    PROVE  Paired(r)
<1> SUFFICES ASSUME NEW i \in 1..Len(r), r[i].do = "initialize"
             PROVE  Leads(r, i + 1, r[i].onu)
  BY Zenon DEF Paired
<1>1. CASE i \in 1..Len(u)
  <2>1. r[i] = u[i] /\ Leads(u, i + 1, r[i].onu)
    BY <1>1, Zenon DEF Joins, Paired
  <2> QED
    BY <2>1, Zenon DEF Joins, Leads
<1>2. CASE i - Len(u) \in 1..Len(v)
  <2> DEFINE k == i - Len(u)
  <2>1. k \in 1..Len(v) /\ Len(u) + k = i /\ Len(u) + (k + 1) = i + 1 /\ Len(u) + ((k + 1) + 1) = (i + 1) + 1
    BY <1>2
  <2> HIDE DEF k
  <2>2. r[i] = v[k] /\ Leads(v, k + 1, r[i].onu)
    BY <2>1, ZenonT(30) DEF Joins, Paired
  <2>3. \A n \in 1..Len(v) : Len(u) + n \in 1..Len(r) /\ r[Len(u) + n] = v[n]
    BY Zenon DEF Joins
  <2> QED
    BY <2>1, <2>2, <2>3, Zenon DEF Leads
<1> QED
  BY <1>1, <1>2, Zenon DEF Joins

LEMMA TameJoined ==
    ASSUME NEW r, NEW u, NEW v, Joins(r, u, v), Len(u) \in Nat, Len(v) \in Nat, Tame(u), Tame(v)
    PROVE  Tame(r)
<1> SUFFICES ASSUME NEW i \in 1..Len(r)
             PROVE  /\ r[i].do \in LoopNames
                    /\ r[i].skip = 0 \/ (r[i].skip = 1 /\ i + 1 \in 1..Len(r) /\ r[i + 1].do = "discover")
  BY Zenon DEF Tame
<1>1. CASE i \in 1..Len(u)
  BY <1>1, Zenon DEF Tame, Joins
<1>2. CASE i - Len(u) \in 1..Len(v)
  <2> DEFINE k == i - Len(u)
  <2>1. k \in 1..Len(v) /\ Len(u) + k = i /\ Len(u) + (k + 1) = i + 1
    BY <1>2
  <2> HIDE DEF k
  <2>2. \A n \in 1..Len(v) : Len(u) + n \in 1..Len(r) /\ r[Len(u) + n] = v[n]
    BY Zenon DEF Joins
  <2>3. r[i] = v[k] /\ (k + 1 \in 1..Len(v) => i + 1 \in 1..Len(r) /\ r[i + 1] = v[k + 1])
    BY <2>1, <2>2, Zenon
  <2>4. /\ v[k].do \in LoopNames
        /\ v[k].skip = 0 \/ (v[k].skip = 1 /\ k + 1 \in 1..Len(v) /\ v[k + 1].do = "discover")
    BY <2>1, Zenon DEF Tame
  <2> QED
    BY <2>3, <2>4, Zenon
<1> QED
  BY <1>1, <1>2, Zenon DEF Joins

-----------------------------------------------------------------------------
\* Programs without suspensions and initializations, and the loops over the ONUs.
Plain == {s \in Step : s.do \notin {"suspend", "pon_disable", "initialize"}}

\* A program without an initialization pairs nothing.
LEMMA PlainPrograms ==
    ASSUME NEW q \in Seq(Plain)
    PROVE  q \in Seq(Mild) /\ Paired(q)
<1>1. Plain \subseteq Mild /\ \A s \in Plain : s.do # "initialize"
  BY Zenon DEF Plain, Mild
<1>2. q \in Seq(Mild)
  BY <1>1, MorePrograms, Zenon
<1>3. \A i \in 1..Len(q) : q[i] \in Plain
  OBVIOUS
<1> QED
  BY <1>1, <1>2, <1>3, Zenon DEF Paired

\* Most steps are plain.
LEMMA PlainSteps ==
    \A name \in StepNames \ {"suspend", "pon_disable", "initialize"}, o \in Onu \cup {NoOnu}, k \in 0..3 :
        Do(name, o, k) \in Plain
BY Zenon DEF Plain, Step, Do

\* The loops of the PON port's callbacks visit every ONU.
LEMMA Loops ==
    ASSUME NEW name \in {"activate", "resume", "suspend"}
    PROVE  /\ ForEachOnu(name) \in Seq(Step) /\ Paired(ForEachOnu(name)) /\ Tame(ForEachOnu(name))
           /\ name # "suspend" => ForEachOnu(name) \in Seq(Mild)
           /\ \A o \in Onu : \E i \in 1..Len(ForEachOnu(name)) :
                 ForEachOnu(name)[i].do = name /\ ForEachOnu(name)[i].onu = o
<1> DEFINE q == ForEachOnu(name)
<1>1. name \in StepNames
  BY Zenon DEF StepNames
<1>2. /\ \A o \in Onu : Do(name, o, 0) \in Step
      /\ name # "suspend" => \A o \in Onu : Do(name, o, 0) \in Mild
  BY <1>1, GoodSteps DEF Mild, Do, Step
<1>3. q \in Seq(Step) /\ (name # "suspend" => q \in Seq(Mild))
  BY <1>2, LoopProgram, Zenon
<1>4. Len(Onus) \in Nat
  BY OnuAssumption
<1>5. Len(q) = Len(Onus)
  BY <1>4 DEF ForEachOnu
<1>6. \A i \in 1..Len(q) : q[i].do = name /\ q[i].onu = Onus[i] /\ q[i].skip = 0
  BY <1>5 DEF ForEachOnu, Do
<1> HIDE DEF q
<1>7. Paired(q) /\ Tame(q)
  BY <1>6, Zenon DEF Paired, Tame, LoopNames
<1>8. \A o \in Onu : \E i \in 1..Len(q) : q[i].do = name /\ q[i].onu = o
  BY <1>5, <1>6, OnusAssumption, Zenon
<1> QED
  BY <1>3, <1>7, <1>8, Zenon DEF q

-----------------------------------------------------------------------------
(***************************************************************************)
(* The steps by what they do to the programs.                              *)
(***************************************************************************)

\* No ONU becomes initialized or pon_disabled, and the PON port stays as it is.
Steady ==
    /\ pon' = pon
    /\ \A o \in Onu : state'[o] \in {"initialized", "pon_disabled"} => state'[o] = state[o]

\* An idle handler is given a program.
Starts(t, q) == q \in Seq(Plain) /\ prog[t] = <<>> /\ prog' = [prog EXCEPT ![t] = q] /\ Steady

\* Every request gives an idle handler a plain program (onu.go, olt.go, api/onus_handler.go).
LEMMA RequestForm ==
    ASSUME TypeOK, NEW t \in Handler, (\E o \in Onu : OnuRequest(t, o)) \/ OltRequest(t)
    PROVE  \E q : Starts(t, q)
<1> DEFINE N == StepNames \ {"suspend", "pon_disable", "initialize"}
<1>n. {"enable", "disable", "delete_done", "pon_down", "pon_up", "olt_up", "olt_down",
       "pon_down_if_enabled", "pon_up_if_disabled", "rediscover", "olt_init",
       "alarm", "shutdown", "poweron"} \subseteq N
  BY TableTypes, Zenon DEF StepNames
<1>d. \A name \in N : /\ \A o \in Onu : /\ Do(name, o, 0) \in Plain
                                        /\ Do(name, o, 1) \in Plain
                      /\ OltDo(name) \in Plain
  BY PlainSteps DEF OltDo
<1>l. \A name \in N : ForEachOnu(name) \in Seq(Plain)
  BY <1>d, LoopProgram, Zenon
<1>q. /\ \A name \in N : /\ \A o \in Onu : <<Do(name, o, 0)>> \in Seq(Plain)
                          /\ <<OltDo(name)>> \in Seq(Plain)
      /\ \A f, g \in N : <<OltDo(f), OltDo(g)>> \in Seq(Plain)
      /\ <<>> \in Seq(Plain)
  BY <1>d
<1>c. \A p, q \in Seq(Plain) : p \o q \in Seq(Plain)
  OBVIOUS
<1>s. \A o \in Onu : /\ ShutdownSteps(o, 0) \in Seq(Plain)
                     /\ ShutdownSteps(o, 1) \in Seq(Plain)
  BY <1>n, <1>d DEF ShutdownSteps
<1> HIDE DEF N
<1>1. ASSUME NEW q \in Seq(Plain), NEW r, Start(t, r, q), UNCHANGED <<pon, state>>
      PROVE  \E s : Starts(t, s)
  BY <1>1, Zenon DEF Starts, Start, Steady
<1>2. ASSUME NEW o \in Onu, OnuRequest(t, o)
      PROVE  \E q : Starts(t, q)
  <2>1. ASSUME NEW id \in OnuId, ActivateOnu(t, o, id)
        PROVE  \E q : Starts(t, q)
    BY <2>1, <1>1, <1>n, <1>q, Zenon DEF ActivateOnu
  <2>2. CASE DeleteOnu(t, o)
    <3> DEFINE q == (IF state[o] # "disabled" THEN <<Do("disable", o, 0)>> ELSE <<>>)
                    \o <<Do("delete_done", o, 0)>>
    <3>1. q \in Seq(Plain)
      BY <1>n, <1>q, <1>c, Zenon
    <3> QED
      BY <2>2, <3>1, <1>1, Zenon DEF DeleteOnu, deviceVars
  <2>3. CASE ShutdownONU(t, o)
    BY <2>3, <1>1, <1>s, Zenon DEF ShutdownONU, deviceVars
  <2>4. CASE PoweronONU(t, o)
    BY <2>4, <1>1, <1>n, <1>q, Zenon DEF PoweronONU, deviceVars
  <2>5. ShutdownSteps(o, 1) \o <<Do("poweron", o, 0)>> \in Seq(Plain)
    BY <1>n, <1>q, <1>c, <1>s, Zenon
  <2>6. CASE OmciReboot(t, o)
    BY <2>5, <2>6, <1>1, Zenon DEF OmciReboot, deviceVars
  <2>7. CASE OmciActivateSoftware(t, o)
    <3>1. /\ prog[t] = <<>> /\ prog' = [prog EXCEPT ![t] = ShutdownSteps(o, 1) \o <<Do("poweron", o, 0)>>]
          /\ pon' = pon /\ state' = [state EXCEPT ![o] = After(OnuTx, "activate_image", state[o])]
      BY <2>7, Zenon DEF OmciActivateSoftware, Start
    <3>2. /\ state[o] \in OnuStates /\ state \in [Onu -> OnuStates]
          /\ \A s \in ActiveStates : s \notin {"initialized", "pon_disabled"}
      BY Zenon DEF TypeOK, ActiveStates
    <3>3. \/ After(OnuTx, "activate_image", state[o]) = state[o]
          \/ After(OnuTx, "activate_image", state[o]) \in ActiveStates
      BY <3>2, ImageTransitions, Zenon DEF After
    <3> QED
      BY <2>5, <3>1, <3>2, <3>3, Zenon DEF Starts, Steady
  <2> QED
    BY <1>2, <2>1, <2>2, <2>3, <2>4, <2>6, <2>7, Zenon DEF OnuRequest
<1>3. CASE Enable(t)
  <2> DEFINE q == IF everEnabled
                  THEN <<OltDo("pon_up_if_disabled")>> \o
                       (IF Mode # "only-onu" THEN ForEachOnu("rediscover") ELSE <<>>)
                  ELSE IF Mode \in {"default", "only-onu"}
                       THEN <<OltDo("pon_up")>> ELSE <<>>
  <2>1. q \in Seq(Plain)
    BY <1>n, <1>l, <1>q, <1>c
  <2>2. Start(t, "Enable", <<OltDo("olt_up")>> \o q) /\ UNCHANGED <<pon, state>>
    BY <1>3, Zenon DEF Enable
  <2> HIDE DEF q
  <2>3. <<OltDo("olt_up")>> \o q \in Seq(Plain)
    BY <2>1, <1>n, <1>q, <1>c
  <2> QED
    BY <1>1, <2>2, <2>3, Zenon
<1>4. CASE DisableOlt(t) \/ ReenableOlt(t) \/ DisablePonIf(t) \/ EnablePonIf(t)
  <2>1. /\ <<OltDo("pon_down")>> \in Seq(Plain) /\ <<OltDo("pon_up")>> \in Seq(Plain)
        /\ <<OltDo("pon_down_if_enabled"), OltDo("olt_down")>> \in Seq(Plain)
        /\ <<OltDo("olt_up"), OltDo("pon_up_if_disabled")>> \in Seq(Plain)
    BY <1>n, <1>q
  <2> QED
    BY <1>1, <1>4, <2>1, Zenon DEF DisableOlt, ReenableOlt, DisablePonIf, EnablePonIf, deviceVars
<1>5. CASE RestartOLT(t)
  <2>1. ForEachOnu("disable") \o <<OltDo("olt_init")>> \in Seq(Plain)
    BY <1>n, <1>l, <1>q, <1>c
  <2> QED
    BY <1>1, <1>5, <2>1, Zenon DEF RestartOLT
<1>6. CASE ShutdownONUsOnPON(t) \/ PoweronONUsOnPON(t)
  BY <1>6, <1>1, <1>n, <1>l, Zenon DEF ShutdownONUsOnPON, PoweronONUsOnPON, deviceVars
<1> QED
  BY <1>2, <1>3, <1>4, <1>5, <1>6, Zenon DEF OltRequest

\* A step that fires no event of an ONU replaces the first step of a program by q.  Alarms
\* only go on; the loop of the OLT resumes an ONU in pon_disabled by enabling it.
Unfolds(t, q) ==
    /\ prog[t] # <<>> /\ q \in Seq(Step) /\ Paired(q)
    /\ prog' = [prog EXCEPT ![t] = q \o Tail(prog[t])] /\ UNCHANGED <<pon, state>>
    /\ Head(prog[t]).do \notin {"discover", "enable"}
    /\ Head(prog[t]).do = "alarm" => q = <<>>
    /\ Head(prog[t]).do # "suspend" => q \in Seq(Mild)
    /\ Head(prog[t]).do \in LoopNames => Tame(q)
    /\ Head(prog[t]).do = "resume" /\ state[Head(prog[t]).onu] = "pon_disabled" =>
          1 \in 1..Len(q) /\ q[1].do = "enable" /\ q[1].onu = Head(prog[t]).onu

\* HandlePowerOnONU, ReDiscoverOnu, DeleteOnu, the loops and the messages to the OLT unfold.
LEMMA UnfoldForm ==
    ASSUME TypeOK, NEW t \in Thread,
           \/ \E o \in Onu : \/ PowerOn(t, o) \/ ShutdownOne(t, o) \/ ReDiscoverOnu(t, o)
                             \/ DeleteDone(t, o) \/ PonLoop(t, o)
           \/ CheckPon(t) \/ SendOltIndication(t) \/ SendAlarm(t) \/ OltInitialize(t)
    PROVE  \E q : Unfolds(t, q)
<1> DEFINE N == StepNames \ {"suspend", "pon_disable", "initialize"}
<1>n. {"discover", "rediscover", "alarm", "disable", "enable", "pon_up", "pon_down"} \subseteq N
  BY TableTypes, Zenon DEF StepNames
<1>d. \A name \in N, o \in Onu \cup {NoOnu}, k \in 0..3 : Do(name, o, k) \in Plain
  BY PlainSteps, Zenon
<1>m. Mild \subseteq Step /\ Plain \subseteq Mild
  BY Zenon DEF Mild, Plain
<1>i. /\ \A o \in Onu, k \in 0..3 : Do("initialize", o, k) \in Mild
      /\ \A o \in Onu : Do("pon_disable", o, 0) \in Step
  BY TableTypes DEF Mild, Step, Do, StepNames
<1> HIDE DEF N
<1>1. ASSUME NEW name \in StepNames \ (LoopNames \cup {"alarm"}), NEW q \in Seq(Mild), Paired(q),
             At(t, name), Continue(t, q), UNCHANGED <<pon, state>>
      PROVE  \E r : Unfolds(t, r)
  <2>1. q \in Seq(Step)
    BY <1>1, <1>m, MorePrograms, Zenon
  <2> QED
    BY <1>1, <2>1, Zenon DEF Unfolds, At, Continue, LoopNames
<1>2. ASSUME NEW name \in StepNames \ (LoopNames \cup {"alarm"}), NEW q \in Seq(Plain),
             At(t, name), Continue(t, q), UNCHANGED <<pon, state>>
      PROVE  \E r : Unfolds(t, r)
  BY <1>1, <1>2, PlainPrograms, Zenon
<1>e. <<>> \in Seq(Plain) /\ <<>> \in Seq(Step) /\ Len(<<>>) = 0 /\ \A i \in 1..0 : FALSE
  OBVIOUS
<1>3. CASE SendOltIndication(t) \/ OltInitialize(t)
  <2>1. {"olt_up", "olt_down", "olt_init"} \subseteq StepNames \ (LoopNames \cup {"alarm"})
    BY Zenon DEF StepNames, LoopNames
  <2> QED
    BY <1>2, <1>3, <1>e, <2>1, Zenon DEF SendOltIndication, OltInitialize
<1>4. CASE SendAlarm(t)
  <2>1. Paired(<<>>) /\ <<>> \in Seq(Mild)
    BY <1>e, PlainPrograms, Zenon
  <2>2. "alarm" \notin LoopNames
    BY Zenon DEF LoopNames
  <2> QED
    BY <1>4, <1>e, <2>1, <2>2, Zenon DEF SendAlarm, Unfolds, At, Continue, deviceVars
<1>5. CASE CheckPon(t)
  <2>1. {"pon_up_if_disabled", "pon_down_if_enabled"} \subseteq StepNames \ (LoopNames \cup {"alarm"})
    BY Zenon DEF StepNames, LoopNames
  <2>2. <<OltDo("pon_up")>> \in Seq(Plain) /\ <<OltDo("pon_down")>> \in Seq(Plain)
    BY <1>n, <1>d DEF OltDo
  <2> QED
    BY <1>2, <1>5, <1>e, <2>1, <2>2, Zenon DEF CheckPon, deviceVars
<1>6. ASSUME NEW o \in Onu, ShutdownOne(t, o) \/ DeleteDone(t, o)
      PROVE  \E q : Unfolds(t, q)
  <2>1. {"shutdown", "delete_done"} \subseteq StepNames \ (LoopNames \cup {"alarm"})
    BY Zenon DEF StepNames, LoopNames
  <2>2. ShutdownSteps(o, 0) \in Seq(Plain) /\ <<Do("rediscover", o, 0)>> \in Seq(Plain)
    BY <1>n, <1>d DEF ShutdownSteps
  <2> QED
    BY <1>2, <1>6, <1>e, <2>1, <2>2, Zenon DEF ShutdownOne, DeleteDone, deviceVars
<1>7. ASSUME NEW o \in Onu, NEW k \in 0..3
      PROVE  /\ <<Do("initialize", o, k), Do("discover", o, 0)>> \in Seq(Mild)
             /\ Paired(<<Do("initialize", o, k), Do("discover", o, 0)>>)
  <2> DEFINE q == <<Do("initialize", o, k), Do("discover", o, 0)>>
  <2>1. Do("initialize", o, k) \in Mild /\ Do("discover", o, 0) \in Mild
    BY <1>i, <1>d, <1>n, <1>m
  <2>2. q \in Seq(Mild)
    BY <2>1
  <2>3. Len(q) = 2 /\ q[2].do = "discover" /\ q[2].onu = o /\ q[1].onu = o
    BY DEF Do
  <2>4. 1 + 1 \in 1..2 /\ 1 + 1 = 2 /\ \A i \in 1..2 : i = 1 \/ i = 2
    OBVIOUS
  <2> HIDE DEF q
  <2>5. Paired(q)
    BY <2>3, <2>4, Zenon DEF Paired, Leads
  <2> QED
    BY <2>2, <2>5, Zenon DEF q
<1>8. ASSUME NEW o \in Onu, ReDiscoverOnu(t, o)
      PROVE  \E q : Unfolds(t, q)
  <2>1. "rediscover" \in StepNames \ (LoopNames \cup {"alarm"}) /\ 0 \in 0..3
    BY DEF StepNames, LoopNames
  <2>2. CASE Continue(t, <<>>)
    BY <1>8, <1>2, <1>e, <2>1, <2>2, Zenon DEF ReDiscoverOnu, deviceVars
  <2>3. CASE Continue(t, <<Do("initialize", o, 0), Do("discover", o, 0)>>)
    BY <1>8, <1>1, <1>7, <2>1, <2>3, Zenon DEF ReDiscoverOnu, deviceVars
  <2> QED
    BY <1>8, <2>2, <2>3, Zenon DEF ReDiscoverOnu
<1>9. ASSUME NEW o \in Onu, PowerOn(t, o)
      PROVE  \E q : Unfolds(t, q)
  <2> DEFINE cycle == IF state[o] = "disabled" THEN 1 ELSE 0
             init == <<Do("initialize", o, 2 + cycle)>>
             mid == <<Do("alarm", o, 0), Do("discover", o, cycle)>>
             last == IF cycle = 1 THEN <<Do("enable", o, 0)>> ELSE <<>>
  <2>1. cycle \in 0..3 /\ 2 + cycle \in 0..3 /\ 0 \in 0..3
    OBVIOUS
  <2>2. Do("initialize", o, 2 + cycle) \in Mild /\ Do("alarm", o, 0) \in Plain /\ Do("discover", o, cycle) \in Plain /\ Do("enable", o, 0) \in Plain
    BY <2>1, <1>n, <1>i, <1>d, Zenon
  <2> HIDE DEF cycle
  <2>3. mid \in Seq(Plain) /\ last \in Seq(Plain) /\ init \in Seq(Mild)
    BY <2>2
  <2>4. Len(init) = 1 /\ Len(mid) = 2 /\ init[1].onu = o /\ mid[1].do = "alarm" /\ mid[2].do = "discover" /\ mid[2].onu = o
    BY DEF Do
  <2> HIDE DEF init, mid, last
  <2>5. /\ mid \in Seq(Mild) /\ last \in Seq(Mild) /\ Paired(mid) /\ Paired(last)
        /\ Len(mid) \in Nat /\ Len(last) \in Nat
    BY <2>3, PlainPrograms
  <2>6. init \o mid \in Seq(Mild) /\ Paired(init \o mid)
    <3>1. init \o mid \in Seq(Mild) /\ Joins(init \o mid, init, mid)
      BY <2>3, <2>5, Joining, Zenon
    <3> DEFINE r == init \o mid
    <3>2. 1 \in 1..1 /\ 1 \in 1..2 /\ 2 \in 1..2 /\ (1 + 1) + 1 = 1 + 2 /\ Len(r) \in Nat
      BY <3>1
    <3> HIDE DEF r
    <3>3. /\ 1 + 1 \in 1..Len(r) /\ 1 + 2 \in 1..Len(r)
          /\ r[1] = init[1] /\ r[1 + 1] = mid[1] /\ r[1 + 2] = mid[2]
      BY <2>4, <3>1, <3>2, Zenon DEF Joins, r
    <3>4. \A i \in 1..Len(r) : i = 1 \/ i = 1 + 1 \/ i = 1 + 2
      <4>1. \A i \in 1..Len(r) : i \in 1..1 \/ i - 1 \in 1..2
        BY <2>4, <3>1, Zenon DEF Joins, r
      <4> QED
        BY <3>2, <4>1
    <3>5. Paired(r)
      BY <2>4, <3>2, <3>3, <3>4, ZenonT(30) DEF Paired, Leads
    <3> QED
      BY <3>1, <3>5, Zenon DEF r
  <2>7. ASSUME NEW r \in Seq(Mild), Paired(r)
        PROVE  r \o last \in Seq(Mild) /\ Paired(r \o last)
    <3>1. r \o last \in Seq(Mild) /\ Joins(r \o last, r, last)
      BY <2>5, Joining, Zenon
    <3>2. Len(r) \in Nat
      OBVIOUS
    <3> QED
      BY <2>5, <2>7, <3>1, <3>2, PairedJoined, Zenon
  <2>8. "poweron" \in StepNames \ (LoopNames \cup {"alarm"})
    BY Zenon DEF StepNames, LoopNames
  <2>9. /\ At(t, "poweron") /\ UNCHANGED <<pon, state>>
        /\ Continue(t, IF olt = "deleted" THEN <<>>
                       ELSE (IF state[o] \in {"created", "disabled"} THEN init ELSE <<>>) \o mid \o last)
    BY <1>9, Zenon DEF PowerOn, init, mid, last, cycle, deviceVars
  <2>10. <<>> \o mid = mid
    BY <2>5
  <2> QED
    BY <1>1, <1>2, <1>e, <2>5, <2>6, <2>7, <2>8, <2>9, <2>10, Zenon
<1>10. ASSUME NEW o \in Onu, PonLoop(t, o)
       PROVE  \E q : Unfolds(t, q)
  <2> DEFINE again == <<Do("initialize", o, 1), Do("discover", o, 0)>>
             one(name) == <<Do(name, o, 0)>>
  <2>1. again \in Seq(Mild) /\ again \in Seq(Step) /\ Paired(again)
    <3>1. 1 \in 0..3
      OBVIOUS
    <3> QED
      BY <1>7, <1>m, <3>1, MorePrograms, Zenon
  <2>2. Tame(again)
    <3>1. /\ Len(again) = 2 /\ again[1].do = "initialize" /\ again[1].skip = 1
          /\ again[2].do = "discover" /\ again[2].skip = 0
      BY DEF Do
    <3>2. 1 + 1 \in 1..2 /\ 1 + 1 = 2 /\ \A i \in 1..2 : i = 1 \/ i = 2
      OBVIOUS
    <3> HIDE DEF again
    <3> QED
      BY <3>1, <3>2, Zenon DEF Tame, LoopNames
  <2>3. ASSUME NEW name \in {"discover", "enable", "pon_disable"}
        PROVE  /\ one(name) \in Seq(Step) /\ Paired(one(name)) /\ Tame(one(name))
               /\ name # "pon_disable" => one(name) \in Seq(Mild)
               /\ 1 \in 1..Len(one(name)) /\ one(name)[1].do = name /\ one(name)[1].onu = o
    <3>1. Do(name, o, 0) \in Step /\ (name # "pon_disable" => Do(name, o, 0) \in Mild)
      BY <2>3, <1>n, <1>i, <1>d, <1>m
    <3>2. one(name) \in Seq(Step) /\ (name # "pon_disable" => one(name) \in Seq(Mild))
      BY <3>1
    <3>3. Len(one(name)) = 1 /\ one(name)[1].do = name /\ one(name)[1].onu = o /\ one(name)[1].skip = 0
      BY DEF Do
    <3>4. 1 \in 1..1 /\ \A i \in 1..1 : i = 1
      OBVIOUS
    <3> HIDE DEF one
    <3> QED
      BY <2>3, <3>2, <3>3, <3>4, Zenon DEF Paired, Tame, LoopNames
  <2>4. <<>> \in Seq(Mild) /\ Paired(<<>>) /\ Tame(<<>>)
    BY <1>e, PlainPrograms, Zenon DEF Tame
  <2>5. prog[t] # <<>> /\ o = Head(prog[t]).onu /\ UNCHANGED <<pon, state>>
    BY <1>10, Zenon DEF PonLoop, TheOnu, deviceVars
  <2> HIDE DEF again, one
  <2>6. CASE At(t, "activate") /\ Continue(t, again)
    <3>1. Unfolds(t, again)
      BY <2>1, <2>2, <2>5, <2>6, Zenon DEF Unfolds, At, Continue
    <3> QED
      BY <3>1, Zenon
  <2>7. CASE /\ At(t, "resume")
             /\ Continue(t, CASE state[o] = "pon_disabled" -> one("enable")
                              [] state[o] = "disabled" -> again
                              [] state[o] = "initialized" -> one("discover")
                              [] OTHER -> <<>>)
    <3> DEFINE q == CASE state[o] = "pon_disabled" -> one("enable")
                      [] state[o] = "disabled" -> again
                      [] state[o] = "initialized" -> one("discover")
                      [] OTHER -> <<>>
    <3>1. /\ q \in Seq(Mild) /\ q \in Seq(Step) /\ Paired(q) /\ Tame(q)
          /\ state[o] = "pon_disabled" => q = one("enable")
      BY <1>e, <2>1, <2>2, <2>3, <2>4, Zenon
    <3> HIDE DEF q
    <3>2. state[o] = "pon_disabled" => 1 \in 1..Len(q) /\ q[1].do = "enable" /\ q[1].onu = o
      BY <2>3, <3>1, Zenon
    <3>3. At(t, "resume") /\ Continue(t, q)
      BY <2>7, Zenon DEF q
    <3>4. Unfolds(t, q)
      BY <2>5, <3>1, <3>2, <3>3, Zenon DEF Unfolds, At, Continue
    <3> QED
      BY <3>4, Zenon
  <2>8. CASE /\ At(t, "suspend")
             /\ Continue(t, IF state[o] \in {"initialized", "disabled"} THEN <<>> ELSE one("pon_disable"))
    <3> DEFINE q == IF state[o] \in {"initialized", "disabled"} THEN <<>> ELSE one("pon_disable")
    <3>1. q \in Seq(Step) /\ Paired(q) /\ Tame(q)
      BY <1>e, <2>3, <2>4, Zenon
    <3>2. At(t, "suspend") /\ Continue(t, q)
      BY <2>8, Zenon
    <3> HIDE DEF q
    <3>3. Unfolds(t, q)
      BY <2>5, <3>1, <3>2, Zenon DEF Unfolds, At, Continue
    <3> QED
      BY <3>3, Zenon
  <2> QED
    BY <1>10, <2>6, <2>7, <2>8, Zenon DEF PonLoop, again, one
<1> QED
  BY <1>3, <1>4, <1>5, <1>6, <1>8, <1>9, <1>10, Zenon

\* An event of an ONU fires or is refused; a message makes the PON port move.
Fired(t, e, o) ==
    /\ prog[t] # <<>> /\ Head(prog[t]).do = e /\ Head(prog[t]).onu = o /\ pon' = pon
    /\ prog' = [prog EXCEPT ![t] = Tail(prog[t])]
    /\ Fires(OnuTx, e, state[o]) /\ state' = [state EXCEPT ![o] = After(OnuTx, e, state[o])]
Refused(t, e, o) ==
    /\ prog[t] # <<>> /\ Head(prog[t]).do = e /\ Head(prog[t]).onu = o /\ UNCHANGED <<pon, state>>
    /\ prog' = [prog EXCEPT ![t] = SubSeq(prog[t], Head(prog[t]).skip + 2, Len(prog[t]))]
    /\ ~Fires(OnuTx, e, state[o])
Moved(t, q) ==
    /\ prog[t] # <<>> /\ Head(prog[t]).do \in {"pon_up", "pon_down"} /\ prog[OltLoop] = <<>>
    /\ state' = state /\ prog' = [[prog EXCEPT ![t] = Tail(prog[t])] EXCEPT ![OltLoop] = q]
    /\ q \in Seq(Step) /\ Paired(q) /\ Tame(q)
    /\ \/ pon' = "disabled"
       \/ /\ pon' = "enabled" /\ q \in Seq(Mild)
          /\ pon = "created" \/ \A o \in Onu : Resumes(q, o)

FiredEvents == {"initialize", "discover", "enable", "disable", "pon_disable"}

\* These are all the steps of a goroutine.
LEMMA StepForm ==
    ASSUME TypeOK, Automatic, NEW t \in Thread, ThreadStep(t)
    PROVE  \/ \E q : Unfolds(t, q)
           \/ \E e \in FiredEvents, o \in Onu : Fired(t, e, o)
           \/ \E e \in OnuEvents : \E o : Refused(t, e, o)
           \/ \E q : Moved(t, q)
<1>p. prog \in [Thread -> Seq(Step)] /\ OltLoop \in Thread
  BY Zenon DEF TypeOK, Thread
<1>1. ASSUME NEW o \in Onu, NEW e \in FiredEvents, EventFires(t, o, e), pon' = pon
      PROVE  Fired(t, e, o)
  <2>1. prog[t] # <<>> /\ prog' = [prog EXCEPT ![t] = <<>> \o Tail(prog[t])]
    BY <1>1, <1>p, Zenon DEF EventFires, At, Continue
  <2>2. <<>> \o Tail(prog[t]) = Tail(prog[t])
    BY <1>p, <2>1, Dropping, Zenon
  <2> QED
    BY <1>1, <2>1, <2>2, Zenon DEF EventFires, At, Fired, TheOnu
<1>2. ASSUME NEW o \in Onu, OnuStep(t, o)
      PROVE  (\E q : Unfolds(t, q)) \/ \E e \in FiredEvents : Fired(t, e, o)
  <2>1. CASE PowerOn(t, o) \/ ShutdownOne(t, o) \/ ReDiscoverOnu(t, o) \/ DeleteDone(t, o) \/ PonLoop(t, o)
    BY <2>1, UnfoldForm, Zenon
  <2>2. CASE Initialize(t, o) \/ Discover(t, o) \/ EnterEnabled(t, o) \/ Disable(t, o) \/ PonDisable(t, o)
    BY <2>2, <1>1, Zenon DEF Initialize, Discover, EnterEnabled, Disable, PonDisable, FiredEvents
  <2> QED
    BY <1>2, <2>1, <2>2, Zenon DEF OnuStep
<1>3. ASSUME NEW e \in OnuEvents, EventRefused(t, e)
      PROVE  Refused(t, e, TheOnu(t))
  BY <1>3, <1>p, Zenon DEF EventRefused, Refused, At, TheOnu, Failed, deviceVars
<1>4. CASE CheckPon(t) \/ SendOltIndication(t) \/ SendAlarm(t) \/ OltInitialize(t)
  BY <1>4, UnfoldForm, Zenon
<1>5. ASSUME NEW e \in {"enable", "disable"}, SendPon(t, e), prog[t] # <<>>,
             Head(prog[t]).do \in {"pon_up", "pon_down"}
      PROVE  \E q : Unfolds(t, q) \/ Moved(t, q)
  <2>1. CASE ~Fires(PonTx, e, pon)
    <3>1. prog' = [prog EXCEPT ![t] = <<>> \o Tail(prog[t])] /\ UNCHANGED <<pon, state>>
      BY <1>5, <1>p, <2>1, Zenon DEF SendPon, Continue
    <3>2. <<>> \in Seq(Plain) /\ <<>> \in Seq(Step)
      OBVIOUS
    <3>3. Paired(<<>>) /\ <<>> \in Seq(Mild) /\ "pon_up" \notin LoopNames /\ "pon_down" \notin LoopNames
      BY <3>2, PlainPrograms, Zenon DEF LoopNames
    <3>4. Unfolds(t, <<>>)
      BY <1>5, <3>1, <3>2, <3>3, Zenon DEF Unfolds
    <3> QED
      BY <3>4, Zenon
  <2>2. CASE Fires(PonTx, e, pon)
    <3> DEFINE q == IF e = "enable" THEN PonEnableLoop ELSE ForEachOnu("suspend")
    <3>1. /\ prog' = [[prog EXCEPT ![t] = Tail(prog[t])] EXCEPT ![OltLoop] = q]
          /\ prog[OltLoop] = <<>> /\ state' = state /\ pon' = After(PonTx, e, pon)
      BY <1>5, <1>p, <2>2, Zenon DEF SendPon
    <3>2. CASE e = "disable"
      <4>1. pon' = "disabled" /\ q = ForEachOnu("suspend")
        BY <2>2, <3>1, <3>2, Zenon DEF After, PonTx, Tx
      <4>2. Moved(t, q)
        BY <1>5, <3>1, <4>1, Loops, Zenon DEF Moved
      <4> QED
        BY <4>2, Zenon
    <3>3. CASE e = "enable"
      <4>1. pon' = "enabled" /\ q = ForEachOnu(IF pon = "created" THEN "activate" ELSE "resume")
        BY <2>2, <3>1, <3>3, Zenon DEF After, PonTx, Tx, PonEnableLoop, Automatic
      <4> DEFINE name == IF pon = "created" THEN "activate" ELSE "resume"
      <4>2. name \in {"activate", "resume", "suspend"} /\ name # "suspend" /\ (pon # "created" => name = "resume")
        BY Zenon
      <4>3. q = ForEachOnu(name)
        BY <4>1, Zenon
      <4> HIDE DEF q, name
      <4>4. q \in Seq(Step) /\ Paired(q) /\ Tame(q) /\ q \in Seq(Mild)
        BY <4>2, <4>3, Loops, Zenon
      <4>5. pon = "created" \/ \A o \in Onu : Resumes(q, o)
        <5>1. CASE pon # "created"
          <6>1. "resume" \in {"activate", "resume", "suspend"} /\ q = ForEachOnu("resume")
            BY <4>2, <4>3, <5>1, Zenon
          <6>2. \A o \in Onu : \E i \in 1..Len(q) : q[i].do = "resume" /\ q[i].onu = o
            BY <6>1, Loops, Zenon
          <6> QED
            BY <6>2, Zenon DEF Resumes
        <5> QED
          BY <5>1, Zenon
      <4>6. Moved(t, q)
        BY <1>5, <3>1, <4>1, <4>4, <4>5, Zenon DEF Moved
      <4> QED
        BY <4>6, Zenon
    <3> QED
      BY <1>5, <3>2, <3>3, Zenon
  <2> QED
    BY <2>1, <2>2, Zenon
<1>6. CASE SendPonIndication(t)
  BY <1>5, <1>6, Zenon DEF SendPonIndication, At
<1> QED
  BY <1>2, <1>3, <1>4, <1>6, Zenon DEF ThreadStep

-----------------------------------------------------------------------------
\* A handler without a program leads nowhere.
LEMMA Empty == \A o : ~Leads(<<>>, 1, o) /\ ~Resumes(<<>>, o)
<1>1. \A i \in 1..Len(<<>>) : FALSE
  OBVIOUS
<1> QED
  BY <1>1, Zenon DEF Leads, Resumes

\* A request that arrives.
LEMMA LeftStart ==
    ASSUME TypeOK, LeftInv, NEW t \in Handler, NEW q, Starts(t, q)
    PROVE  LeftInv'
<1>p. prog \in [Thread -> Seq(Step)] /\ OltLoop \in Thread /\ t \in Thread /\ t # OltLoop
  BY ThreadAssumption, Zenon DEF TypeOK, Thread
<1>q. q \in Seq(Mild) /\ Paired(q)
  BY PlainPrograms, Zenon DEF Starts
<1>1. /\ prog'[t] = q /\ \A u \in Thread : u # t => prog'[u] = prog[u]
      /\ prog'[OltLoop] = prog[OltLoop] /\ prog[t] = <<>> /\ pon' = pon
  BY <1>p, Zenon DEF Starts, Steady
<1>2. \A o \in Onu : state'[o] \in {"initialized", "pon_disabled"} => state'[o] = state[o]
  BY Zenon DEF Starts, Steady
<1>3. PairedInv'
  BY <1>q, <1>1, Zenon DEF LeftInv, PairedInv
<1>4. DiscoverInv'
  <2> SUFFICES ASSUME NEW o \in Onu, state'[o] = "initialized"
               PROVE  \E u \in Thread : Leads(prog'[u], 1, o)
    BY Zenon DEF DiscoverInv
  <2>1. PICK u \in Thread : Leads(prog[u], 1, o)
    BY <1>2, Zenon DEF LeftInv, DiscoverInv
  <2>2. u # t
    BY <1>1, <2>1, Empty, Zenon
  <2> QED
    BY <1>1, <2>1, <2>2, Zenon
<1>5. SuspendInv'
  BY <1>q, <1>1, Zenon DEF LeftInv, SuspendInv
<1>6. Tame(prog[OltLoop])'
  BY <1>1, Zenon DEF LeftInv
<1>7. ResumeInv'
  BY <1>1, <1>2, Zenon DEF LeftInv, ResumeInv
<1> QED
  BY <1>3, <1>4, <1>5, <1>6, <1>7, Zenon DEF LeftInv

\* The first step of a program.
LEMMA First ==
    ASSUME NEW p \in Seq(Step), p # <<>>
    PROVE  /\ 1 \in 1..Len(p) /\ Head(p) = p[1] /\ Head(p) \in Step /\ Len(p) \in Nat
           /\ Tail(p) \in Seq(Step) /\ Len(Tail(p)) \in Nat /\ Drops(p, Tail(p), 1)
           /\ \A o : Leads(p, 1 + 1, o) <=> Leads(Tail(p), 1, o)
           /\ \A o : Leads(p, 1, o) =>
                 \/ Head(p).do = "discover" /\ Head(p).onu = o
                 \/ Head(p).do = "alarm" /\ Leads(p, 1 + 1, o)
           /\ p \in Seq(Mild) => Head(p) \in Mild /\ Tail(p) \in Seq(Mild)
<1>1. /\ 1 \in 1..Len(p) /\ Head(p) = p[1] /\ Head(p) \in Step /\ Len(p) \in Nat
      /\ Tail(p) \in Seq(Step) /\ Len(Tail(p)) \in Nat
  OBVIOUS
<1>2. Drops(p, Tail(p), 1)
  BY Dropping, Zenon
<1>3. 1 \in Nat \ {0}
  OBVIOUS
<1>4. \A o : Leads(p, 1 + 1, o) <=> Leads(Tail(p), 1, o)
  BY <1>1, <1>2, <1>3, LeadsDropped, Zenon
<1>5. \A o : Leads(p, 1, o) =>
         \/ Head(p).do = "discover" /\ Head(p).onu = o
         \/ Head(p).do = "alarm" /\ Leads(p, 1 + 1, o)
  BY <1>1, Zenon DEF Leads
<1>6. p \in Seq(Mild) => Head(p) \in Mild /\ Tail(p) \in Seq(Mild)
  BY TailOfProgram, Zenon
<1> QED
  BY <1>1, <1>2, <1>4, <1>5, <1>6, Zenon

\* A step that is replaced by others: an alarm is followed by the discovery it was sent before.
LEMMA LeftUnfold ==
    ASSUME TypeOK, LeftInv, NEW t \in Thread, NEW q, Unfolds(t, q)
    PROVE  LeftInv'
<1> DEFINE p == prog[t]
           r == q \o Tail(p)
<1>p. prog \in [Thread -> Seq(Step)] /\ OltLoop \in Thread /\ p \in Seq(Step) /\ p # <<>>
  BY Zenon DEF TypeOK, Thread, Unfolds
<1>q. /\ q \in Seq(Step) /\ Paired(q) /\ Head(p).do \notin {"discover", "enable"}
      /\ Head(p).do = "alarm" => q = <<>>
      /\ Head(p).do # "suspend" => q \in Seq(Mild)
      /\ Head(p).do \in LoopNames => Tame(q)
      /\ Head(p).do = "resume" /\ state[Head(p).onu] = "pon_disabled" =>
            1 \in 1..Len(q) /\ q[1].do = "enable" /\ q[1].onu = Head(p).onu
  BY Zenon DEF Unfolds
<1>l. Len(q) \in Nat
  BY <1>q
<1>1. prog' = [prog EXCEPT ![t] = r] /\ UNCHANGED <<pon, state>>
  BY Zenon DEF Unfolds
<1>2. prog'[t] = r /\ \A u \in Thread : u # t => prog'[u] = prog[u]
  BY <1>1, <1>p, Zenon
<1>f. /\ 1 \in 1..Len(p) /\ Head(p) = p[1] /\ Len(p) \in Nat
      /\ Tail(p) \in Seq(Step) /\ Len(Tail(p)) \in Nat /\ Drops(p, Tail(p), 1)
  BY <1>p, First, Zenon
<1>j. r \in Seq(Step) /\ Joins(r, q, Tail(p))
  BY <1>q, <1>f, Joining, Zenon
<1>e. q = <<>> => r = Tail(p)
  BY <1>p, Dropping, Zenon
<1> HIDE DEF p, r
<1>3. PairedInv'
  <2>1. Paired(p)
    BY Zenon DEF LeftInv, PairedInv, p
  <2>2. Paired(Tail(p))
    BY <1>f, <2>1, PairedDropped, Zenon
  <2>3. Paired(r)
    BY <1>q, <1>l, <1>f, <1>j, <2>2, PairedJoined, Zenon
  <2> QED
    BY <1>2, <2>3, Zenon DEF LeftInv, PairedInv
<1>4. DiscoverInv'
  <2> SUFFICES ASSUME NEW o \in Onu, state[o] = "initialized"
               PROVE  \E u \in Thread : Leads(prog'[u], 1, o)
    BY <1>1, Zenon DEF DiscoverInv
  <2>1. PICK u \in Thread : Leads(prog[u], 1, o)
    BY Zenon DEF LeftInv, DiscoverInv
  <2>2. CASE u = t
    <3>1. Leads(p, 1, o)
      BY <2>1, <2>2, Zenon DEF p
    <3>2. Head(p).do = "alarm" /\ Leads(Tail(p), 1, o)
      BY <1>p, <1>q, <3>1, First, Zenon
    <3>3. prog'[t] = Tail(p)
      BY <1>q, <1>e, <1>2, <3>2, Zenon
    <3> QED
      BY <3>2, <3>3, Zenon
  <2> QED
    BY <1>2, <2>1, <2>2, Zenon
<1>5. SuspendInv'
  <2>1. ASSUME p \in Seq(Mild) PROVE r \in Seq(Mild)
    <3>1. Head(p) \in Mild /\ Tail(p) \in Seq(Mild)
      BY <1>p, <2>1, First, Zenon
    <3>2. q \in Seq(Mild)
      BY <1>q, <3>1, Zenon DEF Mild
    <3> QED
      BY <3>1, <3>2, Joining, Zenon DEF r
  <2>2. p \in Seq(Mild) \/ (t = OltLoop /\ pon = "disabled")
    BY Zenon DEF LeftInv, SuspendInv, p
  <2> QED
    BY <1>1, <1>2, <2>1, <2>2, Zenon DEF LeftInv, SuspendInv
<1>6. Tame(prog[OltLoop])'
  <2>1. CASE t # OltLoop
    BY <1>p, <1>2, <2>1, Zenon DEF LeftInv
  <2>2. CASE t = OltLoop
    <3>1. Tame(p)
      BY <2>2, Zenon DEF LeftInv, p
    <3>2. Tame(Tail(p))
      BY <1>f, <3>1, TameDropped, Zenon
    <3>3. Head(p).do \in LoopNames
      BY <1>f, <3>1, Zenon DEF Tame
    <3>4. Tame(r)
      BY <1>q, <1>l, <1>f, <1>j, <3>2, <3>3, TameJoined, Zenon
    <3> QED
      BY <1>2, <2>2, <3>4, Zenon
  <2> QED
    BY <2>1, <2>2, Zenon
<1>7. ResumeInv'
  <2>1. CASE t # OltLoop
    BY <1>p, <1>1, <1>2, <2>1, Zenon DEF LeftInv, ResumeInv
  <2>2. CASE t = OltLoop
    <3> SUFFICES ASSUME NEW o \in Onu, state[o] = "pon_disabled", Resumes(p, o)
                 PROVE  Resumes(r, o)
      BY <1>1, <1>2, <2>2, Zenon DEF LeftInv, ResumeInv, p
    <3>1. PICK i \in 1..Len(p) : p[i].do = "resume" /\ p[i].onu = o
      BY <1>q, <1>f, Zenon DEF Resumes
    <3>2. CASE i = 1
      <4>1. 1 \in 1..Len(q) /\ q[1].do = "enable" /\ q[1].onu = o
        BY <1>q, <1>f, <3>1, <3>2, Zenon
      <4>2. 1 \in 1..Len(r) /\ r[1] = q[1]
        BY <1>j, <4>1, Zenon DEF Joins
      <4>3. r # <<>>
        BY <1>j, <4>2
      <4> QED
        BY <4>1, <4>2, <4>3, Zenon DEF Resumes
    <3>3. CASE i # 1
      <4>1. i - 1 \in 1..Len(Tail(p)) /\ (i - 1) + 1 = i
        BY <1>f, <3>1, <3>3 DEF Drops
      <4>2. Tail(p)[i - 1] = p[i]
        BY <1>f, <4>1, Zenon DEF Drops
      <4>3. Len(q) + (i - 1) \in 1..Len(r) /\ r[Len(q) + (i - 1)] = p[i]
        BY <1>j, <4>1, <4>2, Zenon DEF Joins
      <4> QED
        BY <3>1, <4>3, Zenon DEF Resumes
    <3> QED
      BY <3>2, <3>3, Zenon
  <2> QED
    BY <2>1, <2>2, Zenon
<1> QED
  BY <1>3, <1>4, <1>5, <1>6, <1>7, Zenon DEF LeftInv

\* Where the events lead.
LEMMA Leading ==
    ASSUME NEW s \in OnuStates, NEW e \in FiredEvents, Fires(OnuTx, e, s)
    PROVE  /\ After(OnuTx, e, s) = "initialized" => e = "initialize"
           /\ After(OnuTx, e, s) = "pon_disabled" => e = "pon_disable"
<1>1. CASE e = "initialize"
  BY <1>1, OnuTransitions, Zenon
<1>2. CASE e = "discover"
  BY <1>2, OnuTransitions, Zenon
<1>3. CASE e = "enable"
  BY <1>3, OnuTransitions, Zenon
<1>4. CASE e = "disable"
  BY <1>4, OnuTransitions, Zenon
<1>5. CASE e = "pon_disable"
  BY <1>5, OnuTransitions, Zenon
<1> QED
  BY <1>1, <1>2, <1>3, <1>4, <1>5, Zenon DEF FiredEvents

\* An event that fires: the handler that initialized an ONU has its discovery next, and only the
\* loop of a disabled PON port suspends.
LEMMA LeftFired ==
    ASSUME TypeOK, LeftInv, NEW t \in Thread, NEW e \in FiredEvents, NEW o \in Onu, Fired(t, e, o)
    PROVE  LeftInv'
<1> DEFINE p == prog[t]
<1>p. prog \in [Thread -> Seq(Step)] /\ OltLoop \in Thread /\ p \in Seq(Step) /\ p # <<>>
  BY Zenon DEF TypeOK, Thread, Fired
<1>h. Head(p).do = e /\ Head(p).onu = o
  BY Zenon DEF Fired
<1>1. prog' = [prog EXCEPT ![t] = Tail(p)] /\ pon' = pon
  BY Zenon DEF Fired
<1>2. prog'[t] = Tail(p) /\ \A u \in Thread : u # t => prog'[u] = prog[u]
  BY <1>1, <1>p, Zenon
<1>s. /\ state'[o] = After(OnuTx, e, state[o]) /\ \A a \in Onu : a # o => state'[a] = state[a]
      /\ state[o] \in OnuStates /\ Fires(OnuTx, e, state[o])
  BY Zenon DEF Fired, TypeOK
<1>f. /\ 1 \in 1..Len(p) /\ Head(p) = p[1] /\ Len(p) \in Nat /\ Drops(p, Tail(p), 1)
  BY <1>p, First, Zenon
<1> HIDE DEF p
<1>l. Paired(p)
  BY Zenon DEF LeftInv, PairedInv, p
<1>3. PairedInv'
  <2>1. Paired(Tail(p))
    BY <1>f, <1>l, PairedDropped, Zenon
  <2> QED
    BY <1>2, <2>1, Zenon DEF LeftInv, PairedInv
<1>4. DiscoverInv'
  <2> SUFFICES ASSUME NEW a \in Onu, state'[a] = "initialized"
               PROVE  \E u \in Thread : Leads(prog'[u], 1, a)
    BY Zenon DEF DiscoverInv
  <2>1. CASE a = o
    <3>1. e = "initialize"
      BY <1>s, <2>1, Leading, Zenon
    <3>2. Leads(p, 1 + 1, o)
      BY <1>f, <1>h, <1>l, <3>1, Zenon DEF Paired
    <3>3. Leads(Tail(p), 1, o)
      BY <1>p, <3>2, First, Zenon
    <3> QED
      BY <1>2, <2>1, <3>3, Zenon
  <2>2. CASE a # o
    <3>1. PICK u \in Thread : Leads(prog[u], 1, a)
      BY <1>s, <2>2, Zenon DEF LeftInv, DiscoverInv
    <3>2. e # "alarm"
      BY Zenon DEF FiredEvents
    <3>3. u # t
      BY <1>p, <1>h, <2>2, <3>1, <3>2, First, Zenon DEF p
    <3> QED
      BY <1>2, <3>1, <3>3, Zenon
  <2> QED
    BY <2>1, <2>2, Zenon
<1>5. SuspendInv'
  <2>1. p \in Seq(Mild) => Tail(p) \in Seq(Mild)
    BY <1>p, First, Zenon
  <2>2. p \in Seq(Mild) \/ (t = OltLoop /\ pon = "disabled")
    BY Zenon DEF LeftInv, SuspendInv, p
  <2> QED
    BY <1>1, <1>2, <2>1, <2>2, Zenon DEF LeftInv, SuspendInv
<1>6. Tame(prog[OltLoop])'
  <2>1. CASE t # OltLoop
    BY <1>p, <1>2, <2>1, Zenon DEF LeftInv
  <2>2. CASE t = OltLoop
    <3>1. Tame(p)
      BY <2>2, Zenon DEF LeftInv, p
    <3>2. Tame(Tail(p))
      BY <1>f, <3>1, TameDropped, Zenon
    <3> QED
      BY <1>2, <2>2, <3>2, Zenon
  <2> QED
    BY <2>1, <2>2, Zenon
<1>7. ResumeInv'
  <2> SUFFICES ASSUME NEW a \in Onu, state'[a] = "pon_disabled"
               PROVE  pon # "created" /\ (pon = "enabled" => Resumes(prog'[OltLoop], a))
    BY <1>1, Zenon DEF ResumeInv
  <2>1. CASE a = o
    <3>1. e = "pon_disable"
      BY <1>s, <2>1, Leading, Zenon
    <3>2. Head(p) \notin Mild
      BY <1>h, <3>1, Zenon DEF Mild
    <3>3. p \notin Seq(Mild)
      BY <1>p, <3>2, First, Zenon
    <3>4. pon = "disabled"
      BY <3>3, Zenon DEF LeftInv, SuspendInv, p
    <3> QED
      BY <3>4, Zenon
  <2>2. CASE a # o
    <3>1. state[a] = "pon_disabled" /\ pon # "created" /\ (pon = "enabled" => Resumes(prog[OltLoop], a))
      BY <1>s, <2>2, Zenon DEF LeftInv, ResumeInv
    <3>2. CASE t # OltLoop
      BY <1>p, <1>2, <3>1, <3>2, Zenon
    <3>3. CASE t = OltLoop
      <4> SUFFICES ASSUME Resumes(p, a) PROVE Resumes(Tail(p), a)
        BY <1>2, <3>1, <3>3, Zenon DEF p
      <4>1. PICK i \in 1..Len(p) : p[i].do = "resume" /\ p[i].onu = a
        BY <1>f, <1>h, <2>2, Zenon DEF Resumes
      <4>2. i # 1
        BY <1>f, <1>h, <4>1, Zenon DEF FiredEvents
      <4>3. i - 1 \in 1..Len(Tail(p)) /\ (i - 1) + 1 = i
        BY <1>f, <4>1, <4>2 DEF Drops
      <4>4. Tail(p)[i - 1] = p[i]
        BY <1>f, <4>3, Zenon DEF Drops
      <4> QED
        BY <4>1, <4>3, <4>4, Zenon DEF Resumes
    <3> QED
      BY <3>2, <3>3, Zenon
  <2> QED
    BY <2>1, <2>2, Zenon
<1> QED
  BY <1>3, <1>4, <1>5, <1>6, <1>7, Zenon DEF LeftInv

\* An event that is refused: a discovery is not while the ONU is initialized, nor an enabling while
\* it is in pon_disabled, and no ONU that is yet to be resumed is dropped.
LEMMA LeftRefused ==
    ASSUME TypeOK, LeftInv, NEW t \in Thread, NEW e \in OnuEvents, NEW o, Refused(t, e, o)
    PROVE  LeftInv'
<1> DEFINE p == prog[t]
           k == Head(p).skip
           r == SubSeq(p, k + 2, Len(p))
<1>p. prog \in [Thread -> Seq(Step)] /\ OltLoop \in Thread /\ p \in Seq(Step) /\ p # <<>>
  BY Zenon DEF TypeOK, Thread, Refused
<1>h. Head(p).do = e /\ Head(p).onu = o /\ ~Fires(OnuTx, e, state[o])
  BY Zenon DEF Refused
<1>1. prog' = [prog EXCEPT ![t] = r] /\ UNCHANGED <<pon, state>>
  BY Zenon DEF Refused
<1>2. prog'[t] = r /\ \A u \in Thread : u # t => prog'[u] = prog[u]
  BY <1>1, <1>p, Zenon
<1>f. /\ 1 \in 1..Len(p) /\ Head(p) = p[1] /\ Len(p) \in Nat /\ Head(p) \in Step
  BY <1>p, First, Zenon
<1>k. k \in Nat
  BY <1>f DEF Step
<1>r. Drops(p, r, k + 1)
  BY <1>p, <1>k, Dropping, Zenon
<1>m. p \in Seq(Mild) => r \in Seq(Mild)
  BY <1>p, <1>k, RestOfProgram, Zenon
<1> HIDE DEF p, k, r
<1>3. PairedInv'
  <2>1. Paired(p)
    BY Zenon DEF LeftInv, PairedInv, p
  <2>2. Paired(r)
    BY <1>f, <1>r, <2>1, PairedDropped, Zenon
  <2> QED
    BY <1>2, <2>2, Zenon DEF LeftInv, PairedInv
<1>4. DiscoverInv'
  <2> SUFFICES ASSUME NEW a \in Onu, state[a] = "initialized"
               PROVE  \E u \in Thread : Leads(prog'[u], 1, a)
    BY <1>1, Zenon DEF DiscoverInv
  <2>1. PICK u \in Thread : Leads(prog[u], 1, a)
    BY Zenon DEF LeftInv, DiscoverInv
  <2>2. Fires(OnuTx, "discover", "initialized") /\ e # "alarm"
    BY TableTypes, Zenon DEF Fires, OnuTx, Tx
  <2>3. u # t
    BY <1>p, <1>h, <2>1, <2>2, First, Zenon DEF p
  <2> QED
    BY <1>2, <2>1, <2>3, Zenon
<1>5. SuspendInv'
  <2>2. p \in Seq(Mild) \/ (t = OltLoop /\ pon = "disabled")
    BY Zenon DEF LeftInv, SuspendInv, p
  <2> QED
    BY <1>1, <1>2, <1>m, <2>2, Zenon DEF LeftInv, SuspendInv
<1>6. Tame(prog[OltLoop])'
  <2>1. CASE t # OltLoop
    BY <1>p, <1>2, <2>1, Zenon DEF LeftInv
  <2>2. CASE t = OltLoop
    <3>1. Tame(p)
      BY <2>2, Zenon DEF LeftInv, p
    <3>2. Tame(r)
      BY <1>f, <1>r, <3>1, TameDropped, Zenon
    <3> QED
      BY <1>2, <2>2, <3>2, Zenon
  <2> QED
    BY <2>1, <2>2, Zenon
<1>7. ResumeInv'
  <2>1. CASE t # OltLoop
    BY <1>p, <1>1, <1>2, <2>1, Zenon DEF LeftInv, ResumeInv
  <2>2. CASE t = OltLoop
    <3> SUFFICES ASSUME NEW a \in Onu, state[a] = "pon_disabled", Resumes(p, a)
                 PROVE  Resumes(r, a)
      BY <1>1, <1>2, <2>2, Zenon DEF LeftInv, ResumeInv, p
    <3>1. Fires(OnuTx, "enable", "pon_disabled") /\ e # "resume"
      BY TableTypes, Zenon DEF Fires, OnuTx, Tx
    <3>2. PICK i \in 1..Len(p) : p[i].do = "resume" /\ p[i].onu = a
      BY <1>f, <1>h, <3>1, Zenon DEF Resumes
    <3>3. k = 0 \/ (k = 1 /\ p[1 + 1].do = "discover")
      BY <1>f, <2>2, Zenon DEF LeftInv, Tame, p, k
    <3>4. i # 1 /\ (k = 0 \/ (k = 1 /\ i # 1 + 1))
      BY <1>f, <1>h, <3>1, <3>2, <3>3, Zenon
    <3>5. i \notin 1..(k + 1) /\ (i - (k + 1)) + (k + 1) = i
      BY <1>f, <1>k, <3>2, <3>3, <3>4
    <3>6. i - (k + 1) \in 1..Len(r)
      BY <1>r, <3>2, <3>5, Zenon DEF Drops
    <3>7. r[i - (k + 1)] = p[i]
      BY <1>r, <3>5, <3>6, Zenon DEF Drops
    <3> QED
      BY <3>2, <3>6, <3>7, Zenon DEF Resumes
  <2> QED
    BY <2>1, <2>2, Zenon
<1> QED
  BY <1>3, <1>4, <1>5, <1>6, <1>7, Zenon DEF LeftInv

\* A message that the PON port follows: enabling it resumes every ONU.
LEMMA LeftMoved ==
    ASSUME TypeOK, LeftInv, NEW t \in Thread, NEW q, Moved(t, q)
    PROVE  LeftInv'
<1> DEFINE p == prog[t]
<1>p. prog \in [Thread -> Seq(Step)] /\ OltLoop \in Thread /\ p \in Seq(Step) /\ p # <<>>
  BY Zenon DEF TypeOK, Thread, Moved
<1>t. t # OltLoop /\ prog[OltLoop] = <<>> /\ Head(p).do \in {"pon_up", "pon_down"} /\ state' = state
  BY Zenon DEF Moved
<1>1. /\ prog'[t] = Tail(p) /\ prog'[OltLoop] = q
      /\ \A u \in Thread : u # t /\ u # OltLoop => prog'[u] = prog[u]
  BY <1>p, <1>t, Zenon DEF Moved
<1>q. Paired(q) /\ Tame(q)
  BY Zenon DEF Moved
<1>2. \/ pon' = "disabled"
      \/ pon' = "enabled" /\ q \in Seq(Mild) /\ (pon = "created" \/ \A o \in Onu : Resumes(q, o))
  BY Zenon DEF Moved
<1>f. Len(p) \in Nat /\ Drops(p, Tail(p), 1) /\ (p \in Seq(Mild) => Tail(p) \in Seq(Mild))
  BY <1>p, First, Zenon
<1> HIDE DEF p
<1>3. PairedInv'
  <2>1. Paired(p)
    BY Zenon DEF LeftInv, PairedInv, p
  <2>2. Paired(Tail(p))
    BY <1>f, <2>1, PairedDropped, Zenon
  <2>3. \A u \in Thread : Paired(prog'[u])
    BY <1>1, <1>q, <2>2, Zenon DEF LeftInv, PairedInv
  <2> QED
    BY <2>3, Zenon DEF PairedInv
<1>4. DiscoverInv'
  <2> SUFFICES ASSUME NEW a \in Onu, state[a] = "initialized"
               PROVE  \E u \in Thread : Leads(prog'[u], 1, a)
    BY <1>t, Zenon DEF DiscoverInv
  <2>1. PICK u \in Thread : Leads(prog[u], 1, a)
    BY Zenon DEF LeftInv, DiscoverInv
  <2>2. u # OltLoop
    BY <1>t, <2>1, Empty, Zenon
  <2>3. u # t
    BY <1>p, <1>t, <2>1, First, Zenon DEF p
  <2> QED
    BY <1>1, <2>1, <2>2, <2>3, Zenon
<1>5. SuspendInv'
  BY <1>1, <1>2, <1>t, <1>f, Zenon DEF LeftInv, SuspendInv, p
<1>6. Tame(prog[OltLoop])'
  BY <1>1, <1>q, Zenon
<1>7. ResumeInv'
  BY <1>1, <1>2, <1>t, Zenon DEF LeftInv, ResumeInv
<1> QED
  BY <1>3, <1>4, <1>5, <1>6, <1>7, Zenon DEF LeftInv

-----------------------------------------------------------------------------
\* At the start no ONU is initialized and nobody is running.
LEMMA LeftInit == Init => LeftInv
<1> SUFFICES ASSUME Init PROVE LeftInv
  BY Zenon
<1>1. \A t \in Thread : prog[t] = <<>>
  BY Zenon DEF Init
<1>2. OltLoop \in Thread
  BY Zenon DEF Thread
<1>3. <<>> \in Seq(Mild) /\ \A i \in 1..Len(<<>>) : FALSE
  OBVIOUS
<1>4. \A o \in Onu : state[o] = "created"
  BY Zenon DEF Init
<1>5. PairedInv /\ Tame(prog[OltLoop]) /\ SuspendInv
  BY <1>1, <1>2, <1>3, Zenon DEF PairedInv, Paired, Tame, SuspendInv
<1>6. DiscoverInv /\ ResumeInv
  BY <1>4, Zenon DEF DiscoverInv, ResumeInv
<1> QED
  BY <1>5, <1>6, Zenon DEF LeftInv

\* Every step keeps the invariant.
LEMMA LeftStep ==
    ASSUME TypeOK, Automatic, LeftInv, [Next]_vars
    PROVE  LeftInv'
<1>0. ASSUME prog' = prog, Steady
      PROVE  LeftInv'
  <2>1. \A o \in Onu : state'[o] \in {"initialized", "pon_disabled"} => state'[o] = state[o]
    BY <1>0, Zenon DEF Steady
  <2>2. PairedInv' /\ SuspendInv' /\ Tame(prog[OltLoop])'
    BY <1>0, Zenon DEF Steady, LeftInv, PairedInv, SuspendInv
  <2>3. DiscoverInv' /\ ResumeInv'
    BY <1>0, <2>1, Zenon DEF Steady, LeftInv, DiscoverInv, ResumeInv
  <2> QED
    BY <2>2, <2>3, Zenon DEF LeftInv
<1>1. ASSUME NEW t \in Handler, (\E o \in Onu : OnuRequest(t, o)) \/ OltRequest(t)
      PROVE  LeftInv'
  BY <1>1, RequestForm, LeftStart, Zenon
<1>2. ASSUME NEW t \in Thread, ThreadStep(t)
      PROVE  LeftInv'
  BY <1>2, StepForm, LeftUnfold, LeftFired, LeftRefused, LeftMoved, Zenon
<1>3. ASSUME NEW o \in Onu, StoreOnuId(o)
      PROVE  LeftInv'
  BY <1>0, <1>3, Zenon DEF StoreOnuId, Steady
<1>4. ASSUME NEW o \in Onu, NEW e \in ImageEvents, OmciImage(o, e)
      PROVE  LeftInv'
  <2>1. /\ prog' = prog /\ pon' = pon /\ Fires(OnuTx, e, state[o])
        /\ state' = [state EXCEPT ![o] = After(OnuTx, e, state[o])]
        /\ state[o] \in OnuStates /\ state \in [Onu -> OnuStates]
    BY <1>4, Zenon DEF OmciImage, TypeOK
  <2>2. After(OnuTx, e, state[o]) \in ActiveStates
    BY <2>1, ImageTransitions, Zenon
  <2>3. \A s \in ActiveStates : s \notin {"initialized", "pon_disabled"}
    BY Zenon DEF ActiveStates
  <2>4. Steady
    BY <2>1, <2>2, <2>3, Zenon DEF Steady
  <2> QED
    BY <1>0, <2>1, <2>4, Zenon
<1>5. CASE UNCHANGED vars
  BY <1>0, <1>5, Zenon DEF vars, Steady
<1> QED
  BY <1>1, <1>2, <1>3, <1>4, <1>5, Zenon DEF Next

\* When no handler is running no automatically activated ONU is half way between initialize
\* and discover, and none is in pon_disabled under an enabled PON port, for any number of ONUs
\* and goroutines (HandlePowerOnONU, ReDiscoverOnu, the callbacks of the PON port).
THEOREM OnusNotLeftBehind == Spec => []NoOnuLeftBehind
<1> DEFINE I == Automatic => LeftInv
<1>1. Init => I
  BY LeftInit, Zenon
<1>2. TypeOK /\ I /\ [Next]_vars => I'
  BY LeftStep, Zenon DEF Automatic
<1>3. I => NoOnuLeftBehind
  <2> SUFFICES ASSUME I, Quiet, Automatic, NEW o \in Onu
               PROVE  state[o] # "initialized" /\ (pon = "enabled" => state[o] # "pon_disabled")
    BY Zenon DEF NoOnuLeftBehind, Automatic
  <2>1. \A t \in Thread : prog[t] = <<>>
    BY Zenon DEF Quiet
  <2>2. OltLoop \in Thread /\ DiscoverInv /\ ResumeInv
    BY Zenon DEF Thread, LeftInv
  <2>3. state[o] # "initialized"
    BY <2>1, <2>2, Empty, Zenon DEF DiscoverInv
  <2>4. pon = "enabled" => state[o] # "pon_disabled"
    BY <2>1, <2>2, Empty, Zenon DEF ResumeInv
  <2> QED
    BY <2>3, <2>4, Zenon
<1> HIDE DEF I
<1> QED
  BY <1>1, <1>2, <1>3, TypeCorrect, PTL DEF Spec
=============================================================================
