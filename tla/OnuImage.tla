------------------------------- MODULE OnuImage -------------------------------
(***************************************************************************)
(* The download, activation and commit of a software image on one ONU.     *)
(*                                                                         *)
(* VOLTHA sends an image as a row of sections.  The last section of every  *)
(* window asks for an answer; without one VOLTHA sends the window again.   *)
(* Requests and answers may be lost.  The ONU counts the sections, keeps   *)
(* their data, and takes the version of the image from the first of them.  *)
(* After an activation a goroutine power cycles the ONU; the API may do so *)
(* at any time, and the PON port may go down and up.                           *)
(***************************************************************************)
EXTENDS Naturals, Sequences, DeviceFsm

CONSTANTS
    Image,      \* versions VOLTHA downloads
    Img0, Img1, \* BBSM_IMG_00000 and BBSM_IMG_00001
    Unset,      \* a version that is no version of an image
    Size,       \* sections of an image
    Window,     \* sections of a window
    MaxLost     \* bound on requests and answers lost

ASSUME SizeAssumption == Size \in Nat \ {0} /\ Window \in Nat \ {0}
ASSUME LostAssumption == MaxLost \in Nat
ASSUME ImageAssumption == Unset \notin Image \cup {Img0, Img1}

VARIABLES
    state,                         \* InternalState of the ONU
    ImageSoftwareReceivedSections,
    ImageSoftwareExpectedSections,
    ImageSectionData,              \* the sections received
    InDownloadImageVersion,
    StandbyImageVersion, ActiveImageVersion, CommittedImageVersion,
    ActiveImageEntityId, CommittedImageEntityId,
    reboot,  \* what the goroutine that reboots the ONU does next
    phase,   \* what VOLTHA does
    image,   \* the image it downloads
    target,  \* the slot it downloads it to
    next,    \* the section to send
    lost     \* requests and answers lost so far

download == <<ImageSoftwareReceivedSections, ImageSoftwareExpectedSections,
              ImageSectionData, InDownloadImageVersion>>
versions == <<StandbyImageVersion, ActiveImageVersion, CommittedImageVersion>>
entities == <<ActiveImageEntityId, CommittedImageEntityId>>
voltha == <<phase, image, target, next, lost>>
vars == <<state, download, versions, entities, reboot, voltha>>

Slots == {0, 1}
Versions == Image \cup {Img0, Img1}
Phases == {"idle", "start", "send", "end", "activate", "booting", "rollback",
           "commit"}

Section(v, i) == [image |-> v, number |-> i]
Sections == {Section(v, i) : v \in Image, i \in 1..Size}

\* the first 14 bytes of a section
VersionOf(s) == IF s.number = 1 THEN s.image ELSE Unset

\* The types: slots hold versions and the entity ids are 0 or 1, also when sections
\* are lost and repeated (the software requests of handleOmciRequest).
TypeOK ==
    /\ state \in OnuStates
    /\ ImageSoftwareReceivedSections \in Nat
    /\ ImageSoftwareExpectedSections \in Nat
    /\ ImageSectionData \in Seq(Sections)
    /\ InDownloadImageVersion \in Versions \cup {Unset}
    /\ StandbyImageVersion \in Versions \cup {Unset}
    /\ ActiveImageVersion \in Versions \cup {Unset}
    /\ CommittedImageVersion \in Versions \cup {Unset}
    /\ ActiveImageEntityId \in Slots /\ CommittedImageEntityId \in Slots
    /\ reboot \in {"none", "off", "on"}
    /\ phase \in Phases /\ image \in Image /\ target \in Slots
    /\ next \in 1..(Size + 1) /\ lost \in 0..MaxLost

Init ==
    /\ state = "enabled"
    /\ ImageSoftwareReceivedSections = 0
    /\ ImageSoftwareExpectedSections = 0
    /\ ImageSectionData = <<>>
    /\ InDownloadImageVersion = Unset
    /\ StandbyImageVersion = Img0
    /\ ActiveImageVersion = Img1
    /\ CommittedImageVersion = Img1
    /\ ActiveImageEntityId = 0
    /\ CommittedImageEntityId = 0
    /\ reboot = "none"
    /\ phase = "idle" /\ image \in Image /\ target = 1
    /\ next = 1 /\ lost = 0

EventButActivate(e) ==
    state' = IF e = "activate_image" THEN state ELSE After(OnuTx, e, state)

Event(e) == state' = After(OnuTx, e, state)

-----------------------------------------------------------------------------
(***************************************************************************)
(* VOLTHA.                                                                 *)
(***************************************************************************)

\* an image is downloaded to the slot that is not in use
WantImage(v, i) ==
    /\ phase = "idle" /\ state # "disabled"
    /\ i \notin {ActiveImageEntityId, CommittedImageEntityId}
    /\ phase' = "start" /\ image' = v /\ target' = i /\ next' = 1
    /\ UNCHANGED <<state, download, versions, entities, reboot, lost>>

\* the last section of a window and of the image
WithResponse(i) == i % Window = 0 \/ i = Size

WindowStart(i) == i - ((i - 1) % Window)

\* a request is handled; its answer, if there is one, may be lost
Handled(at) == phase = at /\ state # "disabled"
Goto(at) == phase' = at /\ UNCHANGED <<image, target, next, lost>>
MayLose == lost < MaxLost /\ lost' = lost + 1
AnswerLost == MayLose /\ UNCHANGED <<phase, image, target, next>>

\* a section that the ONU never sees
LoseSection ==
    /\ phase = "send"
    /\ MayLose
    /\ next' = IF WithResponse(next) THEN WindowStart(next) ELSE next + 1
    /\ UNCHANGED <<state, download, versions, entities, reboot, phase, image,
                   target>>

-----------------------------------------------------------------------------
(***************************************************************************)
(* handleOmciRequest.  The MIB data sync is in OnuMib.                     *)
(***************************************************************************)

StartSoftwareDownload ==
    /\ Handled("start")
    /\ ImageSoftwareReceivedSections' = 0
    /\ ImageSectionData' = <<>>
    /\ ImageSoftwareExpectedSections' = Size
    /\ Event("start_image")
    /\ Goto("send") \/ AnswerLost
    /\ UNCHANGED <<InDownloadImageVersion, versions, entities, reboot>>

AppendSection ==
    /\ ImageSectionData' = Append(ImageSectionData, Section(image, next))
    /\ ImageSoftwareReceivedSections' = ImageSoftwareReceivedSections + 1
    /\ UNCHANGED ImageSoftwareExpectedSections

ExtractLate(s) ==
    InDownloadImageVersion' = IF ImageSoftwareReceivedSections = 1
                              THEN VersionOf(s) ELSE InDownloadImageVersion

ExtractVersion(s) ==
    InDownloadImageVersion' = IF ImageSoftwareReceivedSections = 0
                              THEN VersionOf(s) ELSE InDownloadImageVersion

DownloadSection ==
    /\ Handled("send") /\ ~WithResponse(next)
    /\ ExtractVersion(Section(image, next))
    /\ AppendSection
    /\ Event("progress_image")
    /\ next' = next + 1
    /\ UNCHANGED <<versions, entities, reboot, phase, image, target, lost>>

\* neither the version nor the state of the ONU is touched
DownloadSectionWithResponse ==
    /\ Handled("send") /\ WithResponse(next)
    /\ AppendSection
    /\ \/ /\ next' = next + 1
          /\ phase' = IF next = Size THEN "end" ELSE phase
          /\ UNCHANGED lost
       \/ /\ MayLose
          /\ next' = WindowStart(next)
          /\ UNCHANGED phase
    /\ UNCHANGED <<state, InDownloadImageVersion, versions, entities, reboot,
                   image, target>>

\* the checksum is that of the image
CrcMatches ==
    SubSeq(ImageSectionData, 1, Size) = [i \in 1..Size |-> Section(image, i)]

AllReceived ==
    ImageSoftwareExpectedSections = ImageSoftwareReceivedSections

handleEndSoftwareDownloadRequest == AllReceived /\ CrcMatches

EndSoftwareDownload ==
    /\ Handled("end")
    /\ IF handleEndSoftwareDownloadRequest
       THEN /\ StandbyImageVersion' = InDownloadImageVersion
            /\ Event("complete_image")
            /\ Goto("activate") \/ AnswerLost
       ELSE /\ UNCHANGED StandbyImageVersion
            /\ Event("fail_image")
            /\ Goto("idle") \/ AnswerLost
    /\ UNCHANGED <<download, ActiveImageVersion, CommittedImageVersion, entities,
                   reboot>>

\* an end with no size and no checksum
AbortDownload ==
    /\ phase \in {"send", "end"} /\ state # "disabled"
    /\ IF ImageSoftwareReceivedSections > 0
       THEN /\ ImageSoftwareReceivedSections' = 0
            /\ Event("complete_image")
       ELSE /\ UNCHANGED ImageSoftwareReceivedSections
            /\ Event("fail_image")
    /\ Goto("idle")
    /\ UNCHANGED <<ImageSoftwareExpectedSections, ImageSectionData,
                   InDownloadImageVersion, versions, entities, reboot>>

SwapVersions ==
    /\ ActiveImageVersion' = StandbyImageVersion
    /\ StandbyImageVersion' = ActiveImageVersion

\* whatever the state machine says, the images are swapped; VOLTHA activates
\* the image it downloaded, or goes back to the one that is not active
ActivateSoftware(i) ==
    /\ \/ Handled("activate") /\ i = target /\ Goto("booting")
       \/ Handled("idle") /\ i # ActiveImageEntityId /\ Goto("rollback")
    /\ reboot = "none"
    /\ Event("activate_image")
    /\ ActiveImageEntityId' = i
    /\ SwapVersions
    /\ reboot' = "off"
    /\ UNCHANGED <<download, CommittedImageVersion, CommittedImageEntityId>>

CommitEntityOnly == UNCHANGED <<StandbyImageVersion, CommittedImageVersion>>

CommitVersions ==
    /\ StandbyImageVersion' = CommittedImageVersion
    /\ CommittedImageVersion' = ActiveImageVersion

CommitSoftware ==
    /\ Handled("commit")
    /\ CommittedImageEntityId' = ActiveImageEntityId
    /\ CommitVersions
    /\ Event("commit_image")
    /\ Goto("idle")
    /\ UNCHANGED <<download, ActiveImageVersion, ActiveImageEntityId, reboot>>

-----------------------------------------------------------------------------
(***************************************************************************)
(* The life of the ONU.                                                    *)
(***************************************************************************)

\* VOLTHA drops what it was doing with an ONU that goes down
Down ==
    /\ Event("disable")
    /\ phase' = IF state' = "disabled" /\ phase \notin {"booting", "rollback"}
                THEN "idle" ELSE phase
    /\ UNCHANGED <<download, versions, entities, image, target, next, lost>>

\* from any other state one of the events on the way to enabled is refused
Up == state' = IF state = "disabled" THEN "enabled" ELSE state

RebootOff ==
    /\ reboot = "off"
    /\ Down
    /\ reboot' = IF Fires(OnuTx, "disable", state) THEN "on" ELSE "none"

RebootOn ==
    /\ reboot = "on"
    /\ Up
    /\ reboot' = "none"
    /\ UNCHANGED <<download, versions, entities, voltha>>

ShutdownONU == Down /\ state' # state /\ UNCHANGED reboot

PoweronONU ==
    /\ state = "disabled"
    /\ Up
    /\ UNCHANGED <<download, versions, entities, reboot, voltha>>

\* VOLTHA sees the ONU come up again and commits the image unless it is the
\* committed one (the ONU does not check that, devices/onu.go:1248), or gives up
Booted ==
    /\ phase \in {"booting", "rollback"} /\ reboot = "none"
    /\ \/ /\ state = "enabled"
          /\ ActiveImageEntityId # CommittedImageEntityId
          /\ Goto("commit")
       \/ Goto("idle")
    /\ UNCHANGED <<state, download, versions, entities, reboot>>

DisablePonIf ==
    /\ Event("pon_disable") /\ state' # state
    /\ UNCHANGED <<download, versions, entities, reboot, voltha>>

EnablePonIf ==
    /\ state = "pon_disabled"
    /\ Event("enable")
    /\ UNCHANGED <<download, versions, entities, reboot, voltha>>

Next ==
    \/ \E v \in Image, i \in Slots : WantImage(v, i)
    \/ LoseSection \/ StartSoftwareDownload \/ DownloadSection
    \/ DownloadSectionWithResponse \/ EndSoftwareDownload \/ AbortDownload
    \/ \E i \in Slots : ActivateSoftware(i)
    \/ CommitSoftware
    \/ RebootOff \/ RebootOn \/ ShutdownONU \/ PoweronONU \/ Booted
    \/ DisablePonIf \/ EnablePonIf

Spec == Init /\ [][Next]_vars

\* the goroutine that reboots the ONU runs
FairSpec == Spec /\ WF_vars(RebootOff) /\ WF_vars(RebootOn)

-----------------------------------------------------------------------------
(***************************************************************************)
(* Properties.                                                             *)
(***************************************************************************)

\* createSoftwareImageResponse: the version VOLTHA reads from a slot
ReportedVersion(i) ==
    IF i = CommittedImageEntityId THEN CommittedImageVersion
    ELSE IF i = ActiveImageEntityId THEN ActiveImageVersion
    ELSE StandbyImageVersion

\* The two slots as VOLTHA reads them.
Flash == INSTANCE TwoImages WITH
    Image <- Versions,
    slot <- [i \in Slots |-> ReportedVersion(i)],
    active <- ActiveImageEntityId,
    committed <- CommittedImageEntityId,
    wanted <- image

\* What a Get of the two software images says follows the two slots that
\* VOLTHA downloads to, activates and commits, through lost sections, windows
\* sent again, aborted downloads, reboots and power cycles.
ReportsTwoImages == Flash!Spec

\* "Extracting the first 14 bytes to use as a version for this image"
\* (devices/onu.go:1125): after a download that succeeded, the standby image
\* has the version of the image that was sent.
VersionOfImage == phase = "activate" => StandbyImageVersion = image

\* "powercycle the ONU" (devices/onu.go:1229): after the image that was
\* downloaded is activated, the ONU goes down.  A rollback of an ONU whose
\* download was aborted before its first section does not get that far: its
\* state machine refuses to be disabled.
ActivationReboots == phase = "booting" /\ reboot = "off" ~> state = "disabled"
===============================================================================
