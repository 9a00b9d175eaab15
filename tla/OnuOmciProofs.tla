----------------------------- MODULE OnuOmciProofs -----------------------------
(***************************************************************************)
(* Proofs about two parts of the OMCI stack of an ONU: its software images *)
(* and its alarms.                                                         *)
(***************************************************************************)
EXTENDS OnuImage, OnuAlarms, FiniteSetTheorems, TLAPS

-----------------------------------------------------------------------------
(***************************************************************************)
(* OnuImage implements TwoImages, for images and windows of any size of at *)
(* least two sections, any number of losses and any set of images.         *)
(***************************************************************************)

\* the first section does not ask for an answer
FirstIsPlain == Size > 1 /\ Window > 1

Downloading == phase \in {"start", "send", "end", "activate"}

\* The strengthening.  While VOLTHA downloads an image its target is the slot
\* that is not in use; the counter is the number of sections kept; if the
\* first of them is the first of the image the version was taken from it.
TargetFree == Downloading => target \notin {ActiveImageEntityId, CommittedImageEntityId}
SectionsCounted ==
    phase \in {"send", "end"} =>
        ImageSoftwareReceivedSections = Len(ImageSectionData)
VersionTaken ==
    phase \in {"send", "end"} /\ Len(ImageSectionData) > 0 =>
        (ImageSectionData[1] = Section(image, 1) => InDownloadImageVersion = image)
SendsSections == phase \in {"start", "send"} => next <= Size
ExpectedSize == phase \in {"send", "end"} => ImageSoftwareExpectedSections = Size

\* The images: the active one is the committed one, or else the committed one
\* is what the swap left as standby.
ImagesPaired ==
    IF ActiveImageEntityId = CommittedImageEntityId
    THEN ActiveImageVersion = CommittedImageVersion
    ELSE StandbyImageVersion = CommittedImageVersion
CommitChanges == phase = "commit" => ActiveImageEntityId # CommittedImageEntityId
VersionsKnown ==
    /\ StandbyImageVersion \in Versions
    /\ ActiveImageVersion \in Versions
    /\ CommittedImageVersion \in Versions

DownloadInv ==
    /\ TargetFree /\ SectionsCounted /\ VersionTaken /\ SendsSections
    /\ ExpectedSize
VersionsInv == ImagesPaired /\ CommitChanges /\ VersionsKnown /\ VersionOfImage
ImageInv == TypeOK /\ DownloadInv /\ VersionsInv

LEMMA EventType == ASSUME TypeOK, NEW e \in OnuEvents, Event(e) PROVE state' \in OnuStates
BY DEF TypeOK, Event, After, Fires, OnuEvents, OnuTx, OnuStates, Tx

LEMMA EventNames ==
    {"start_image", "progress_image", "complete_image", "fail_image",
     "activate_image", "commit_image", "disable", "pon_disable", "enable"}
        \subseteq OnuEvents
BY Zenon DEF OnuEvents, OnuTx

LEMMA ImageInit == FirstIsPlain /\ Init => ImageInv
BY SizeAssumption, LostAssumption
DEF Init, ImageInv, DownloadInv, VersionsInv, TypeOK, OnuStates, Versions, Slots, Phases, TargetFree,
    Downloading, SectionsCounted, VersionTaken, SendsSections, ExpectedSize, ImagesPaired,
    CommitChanges, VersionsKnown, VersionOfImage

LEMMA WindowStartRange ==
    ASSUME NEW i \in Nat, i >= 1 PROVE WindowStart(i) \in 1..i
<1>1. /\ Window \in Nat /\ Window > 0 /\ i - 1 \in Nat
  BY SizeAssumption
<1>2. (i - 1) % Window \in Nat
  BY <1>1
<1>3. (i - 1) % Window <= i - 1
  <2> DEFINE x == i - 1
             q == x \div Window
  <2>1. x = Window * q + (x % Window)
    BY <1>1
  <2>2. q \in Nat
    BY <1>1
  <2>3. Window * q >= 0
    BY <1>1, <2>2
  <2>4. Window * q \in Int /\ x \in Int /\ x % Window \in Int
    BY <1>1, <2>2
  <2> QED BY <2>1, <2>3, <2>4
<1> QED BY <1>2, <1>3 DEF WindowStart

\* The end of a download succeeds only for the image that was sent.
LEMMA SuccessIsWanted ==
    ASSUME FirstIsPlain, ImageInv, phase = "end", handleEndSoftwareDownloadRequest
    PROVE  InDownloadImageVersion = image
<1>1. /\ ImageSectionData \in Seq(Sections)
      /\ ImageSoftwareReceivedSections = Len(ImageSectionData)
      /\ ImageSoftwareExpectedSections = Size
  BY Zenon DEF ImageInv, DownloadInv, TypeOK, SectionsCounted, ExpectedSize
<1>2. Len(ImageSectionData) = Size /\ Size \in Nat /\ Size > 1
  BY <1>1, SizeAssumption, Zenon DEF handleEndSoftwareDownloadRequest, AllReceived, FirstIsPlain
<1>3. SubSeq(ImageSectionData, 1, Size) = [i \in 1..Size |-> Section(image, i)]
  BY Zenon DEF handleEndSoftwareDownloadRequest, CrcMatches
<1>4. SubSeq(ImageSectionData, 1, Size)[1] = ImageSectionData[1]
  BY <1>1, <1>2
<1>5. [i \in 1..Size |-> Section(image, i)][1] = Section(image, 1)
  BY <1>2
<1>6. ImageSectionData[1] = Section(image, 1)
  BY <1>3, <1>4, <1>5, Zenon
<1> QED BY <1>2, <1>6 DEF ImageInv, DownloadInv, VersionTaken

LEMMA ImageStep ==
    ASSUME FirstIsPlain, ImageInv, [Next]_vars
    PROVE  ImageInv'
<1> USE SizeAssumption, LostAssumption, EventNames
<1>0. TypeOK /\ DownloadInv /\ VersionsInv
  BY Zenon DEF ImageInv
<1> USE DEF Slots, Versions
\* a step that changes only the state of the ONU
<1>a. ASSUME state' \in OnuStates, UNCHANGED <<download, versions, entities, voltha>>,
             reboot' \in {"none", "off", "on"}
      PROVE  ImageInv'
  <2>1. TypeOK'
    BY <1>0, <1>a DEF TypeOK, download, versions, entities, voltha
  <2>2. DownloadInv'
    BY <1>0, <1>a, Zenon DEF DownloadInv, TargetFree, Downloading, SectionsCounted,
       VersionTaken, SendsSections, ExpectedSize, download, versions, entities, voltha
  <2>3. VersionsInv'
    BY <1>0, <1>a, Zenon DEF VersionsInv, ImagesPaired, CommitChanges, VersionsKnown,
       VersionOfImage, versions, entities, voltha
  <2> QED BY <2>1, <2>2, <2>3, Zenon DEF ImageInv
\* VOLTHA stops downloading
<1>b. ASSUME state' \in OnuStates, UNCHANGED <<versions, entities, image, target, next, lost>>,
             ImageSoftwareReceivedSections' \in Nat,
             UNCHANGED <<ImageSoftwareExpectedSections, ImageSectionData,
                         InDownloadImageVersion>>,
             reboot' \in {"none", "off", "on"},
             \/ phase' = "idle"
             \/ phase' = "commit" /\ ActiveImageEntityId # CommittedImageEntityId
      PROVE  ImageInv'
  <2>1. TypeOK'
    BY <1>0, <1>b DEF TypeOK, versions, entities, Phases
  <2>2. DownloadInv'
    BY <1>0, <1>b, Zenon DEF DownloadInv, TargetFree, Downloading, SectionsCounted,
       VersionTaken, SendsSections, ExpectedSize
  <2>3. VersionsInv'
    BY <1>0, <1>b, Zenon DEF VersionsInv, ImagesPaired, CommitChanges, VersionsKnown,
       VersionOfImage, versions, entities
  <2> QED BY <2>1, <2>2, <2>3, Zenon DEF ImageInv
<1>1. ASSUME NEW v \in Image, NEW i \in Slots, WantImage(v, i) PROVE ImageInv'
  <2>1. TypeOK'
    BY <1>0, <1>1 DEF WantImage, TypeOK, Phases, download, versions, entities
  <2>2. DownloadInv'
    BY <1>0, <1>1 DEF WantImage, DownloadInv, TargetFree, Downloading,
       SectionsCounted, VersionTaken, SendsSections, ExpectedSize, entities
  <2>3. VersionsInv'
    BY <1>0, <1>1, Zenon DEF WantImage, VersionsInv, ImagesPaired, CommitChanges,
       VersionsKnown, VersionOfImage, versions, entities
  <2> QED BY <2>1, <2>2, <2>3, Zenon DEF ImageInv
<1>2. ASSUME LoseSection PROVE ImageInv'
  <2>0. next \in 1..Size /\ phase = "send" /\ lost' \in 0..MaxLost
    BY <1>0, <1>2 DEF LoseSection, MayLose, TypeOK, DownloadInv, SendsSections
  <2>1. next' \in 1..Size
    <3>1. CASE WithResponse(next)
      BY <1>2, <2>0, <3>1, WindowStartRange DEF LoseSection
    <3>2. CASE ~WithResponse(next)
      BY <1>2, <2>0, <3>2 DEF LoseSection, WithResponse
    <3> QED BY <3>1, <3>2, Zenon
  <2>2. TypeOK'
    BY <1>0, <1>2, <2>0, <2>1 DEF LoseSection, TypeOK, download, versions, entities
  <2>3. DownloadInv'
    BY <1>0, <1>2, <2>1 DEF LoseSection, DownloadInv, TargetFree, Downloading,
       SectionsCounted, VersionTaken, SendsSections, ExpectedSize, download, entities
  <2>4. VersionsInv'
    BY <1>0, <1>2, Zenon DEF LoseSection, VersionsInv, ImagesPaired, CommitChanges,
       VersionsKnown, VersionOfImage, versions, entities
  <2> QED BY <2>2, <2>3, <2>4, Zenon DEF ImageInv
<1>3. ASSUME StartSoftwareDownload PROVE ImageInv'
  <2>0. state' \in OnuStates
    BY <1>0, <1>3, EventType, Zenon DEF StartSoftwareDownload
  <2>1. /\ phase = "start" /\ phase' \in {"start", "send"}
        /\ lost' \in 0..MaxLost
        /\ UNCHANGED <<image, target, next>>
    BY <1>0, <1>3 DEF StartSoftwareDownload, Handled, Goto, AnswerLost, MayLose, TypeOK
  <2>2. TypeOK'
    BY <1>0, <1>3, <2>0, <2>1 DEF StartSoftwareDownload, TypeOK, Phases, versions, entities
  <2>3. DownloadInv'
    BY <1>0, <1>3, <2>1 DEF StartSoftwareDownload, DownloadInv, TargetFree,
       Downloading, SectionsCounted, VersionTaken, SendsSections, ExpectedSize, entities
  <2>4. VersionsInv'
    BY <1>0, <1>3, <2>1, Zenon DEF StartSoftwareDownload, VersionsInv, ImagesPaired,
       CommitChanges, VersionsKnown, VersionOfImage, versions, entities
  <2> QED BY <2>2, <2>3, <2>4, Zenon DEF ImageInv
\* a section is kept and counted
<1>c. ASSUME AppendSection, phase = "send"
      PROVE  /\ ImageSectionData' \in Seq(Sections)
             /\ Len(ImageSectionData') = Len(ImageSectionData) + 1
             /\ ImageSoftwareReceivedSections' = Len(ImageSectionData')
             /\ ImageSectionData'[1] = IF Len(ImageSectionData) = 0
                                       THEN Section(image, next)
                                       ELSE ImageSectionData[1]
             /\ next \in 1..Size
  <2>1. next \in 1..Size /\ image \in Image
    BY <1>0, <1>c DEF TypeOK, DownloadInv, SendsSections
  <2>2. Section(image, next) \in Sections
    BY <2>1 DEF Sections
  <2>3. /\ ImageSectionData \in Seq(Sections)
        /\ ImageSoftwareReceivedSections = Len(ImageSectionData)
    BY <1>0, <1>c, Zenon DEF TypeOK, DownloadInv, SectionsCounted
  <2>4. /\ ImageSectionData' = Append(ImageSectionData, Section(image, next))
        /\ ImageSoftwareReceivedSections' = ImageSoftwareReceivedSections + 1
    BY <1>c, Zenon DEF AppendSection
  <2> DEFINE s == Section(image, next)
  <2> HIDE DEF s
  <2> QED BY <2>1, <2>2, <2>3, <2>4 DEF s
<1>4. ASSUME DownloadSection PROVE ImageInv'
  <2>0. state' \in OnuStates
    BY <1>0, <1>4, EventType, Zenon DEF DownloadSection
  <2>1. /\ phase = "send" /\ AppendSection /\ ~WithResponse(next)
        /\ next' = next + 1 /\ UNCHANGED <<phase, image, target, lost, reboot>>
        /\ UNCHANGED ImageSoftwareExpectedSections
        /\ UNCHANGED <<versions, entities>>
    BY <1>4, Zenon DEF DownloadSection, Handled, AppendSection
  <2>2. /\ ImageSectionData' \in Seq(Sections)
        /\ Len(ImageSectionData') = Len(ImageSectionData) + 1
        /\ ImageSoftwareReceivedSections' = Len(ImageSectionData')
        /\ ImageSectionData'[1] = IF Len(ImageSectionData) = 0
                                  THEN Section(image, next)
                                  ELSE ImageSectionData[1]
        /\ next \in 1..Size
    BY <1>c, <2>1, Zenon
  <2>3. next' \in 1..Size
    BY <2>1, <2>2 DEF WithResponse
  <2>4. /\ Len(ImageSectionData) \in Nat
        /\ ImageSoftwareReceivedSections = Len(ImageSectionData)
    BY <1>0, <2>1, Zenon DEF TypeOK, DownloadInv, SectionsCounted
  <2>5. InDownloadImageVersion' = IF Len(ImageSectionData) = 0
                                  THEN VersionOf(Section(image, next))
                                  ELSE InDownloadImageVersion
    BY <1>4, <2>4, Zenon DEF DownloadSection, ExtractVersion
  <2>6. VersionOf(Section(image, next)) = IF next = 1 THEN image ELSE Unset
    BY Zenon DEF VersionOf, Section
  <2>7. Section(image, next) = Section(image, 1) => next = 1
    BY Zenon DEF Section
  <2>8. TypeOK'
    <3>1. /\ InDownloadImageVersion' \in Versions \cup {Unset}
          /\ ImageSoftwareReceivedSections' \in Nat
          /\ next' \in 1..(Size + 1)
      BY <1>0, <2>2, <2>3, <2>4, <2>5, <2>6 DEF TypeOK
    <3> QED BY <1>0, <2>0, <2>1, <2>2, <3>1 DEF TypeOK, versions, entities
  <2>9. VersionTaken'
    <3> SUFFICES ASSUME ImageSectionData'[1] = Section(image, 1)
                 PROVE  InDownloadImageVersion' = image
        BY <2>1, Zenon DEF VersionTaken
    <3>1. CASE Len(ImageSectionData) = 0
      BY <2>2, <2>5, <2>6, <2>7, <3>1, Zenon
    <3>2. CASE Len(ImageSectionData) > 0
      BY <1>0, <2>1, <2>2, <2>5, <3>2 DEF DownloadInv, VersionTaken
    <3> QED BY <2>4, <3>1, <3>2
  <2>10. DownloadInv'
    BY <1>0, <2>1, <2>2, <2>3, <2>9 DEF DownloadInv, TargetFree, Downloading,
       SectionsCounted, SendsSections, ExpectedSize, entities
  <2>11. VersionsInv'
    BY <1>0, <2>1, Zenon DEF VersionsInv, ImagesPaired, CommitChanges, VersionsKnown,
       VersionOfImage, versions, entities
  <2> QED BY <2>8, <2>10, <2>11, Zenon DEF ImageInv
<1>5. ASSUME DownloadSectionWithResponse PROVE ImageInv'
  <2>1. /\ phase = "send" /\ AppendSection /\ WithResponse(next)
        /\ UNCHANGED <<state, InDownloadImageVersion, versions, entities, reboot,
                       image, target>>
        /\ UNCHANGED ImageSoftwareExpectedSections
    BY <1>5, Zenon DEF DownloadSectionWithResponse, Handled, AppendSection
  <2>2. /\ ImageSectionData' \in Seq(Sections)
        /\ Len(ImageSectionData') = Len(ImageSectionData) + 1
        /\ ImageSoftwareReceivedSections' = Len(ImageSectionData')
        /\ ImageSectionData'[1] = IF Len(ImageSectionData) = 0
                                  THEN Section(image, next)
                                  ELSE ImageSectionData[1]
        /\ next \in 1..Size
    BY <1>c, <2>1, Zenon
  <2>3. Len(ImageSectionData) \in Nat /\ lost \in 0..MaxLost
    BY <1>0 DEF TypeOK
  <2>4. /\ phase' \in {"send", "end"}
        /\ next' \in 1..(Size + 1)
        /\ phase' = "send" => next' <= Size
        /\ lost' \in 0..MaxLost
    <3>1. CASE /\ next' = next + 1
               /\ phase' = IF next = Size THEN "end" ELSE phase
               /\ UNCHANGED lost
      BY <2>1, <2>2, <2>3, <3>1
    <3>2. CASE MayLose /\ next' = WindowStart(next) /\ UNCHANGED phase
      BY <2>1, <2>2, <2>3, <3>2, WindowStartRange DEF MayLose
    <3> QED BY <1>5, <3>1, <3>2, Zenon DEF DownloadSectionWithResponse
  <2>5. TypeOK'
    BY <1>0, <2>1, <2>2, <2>3, <2>4 DEF TypeOK, Phases, versions, entities
  <2>6. next # 1
    <3>1. 1 % Window = 1
      BY DEF FirstIsPlain
    <3> QED BY <2>1, <3>1 DEF WithResponse, FirstIsPlain
  <2>7. Section(image, next) # Section(image, 1)
    BY <2>6, Zenon DEF Section
  <2>8. VersionTaken'
    BY <1>0, <2>1, <2>2, <2>3, <2>7 DEF DownloadInv, VersionTaken
  <2>9. DownloadInv'
    BY <1>0, <2>1, <2>2, <2>4, <2>8, Zenon DEF DownloadInv, TargetFree, Downloading,
       SectionsCounted, SendsSections, ExpectedSize, entities
  <2>10. VersionsInv'
    BY <1>0, <2>1, <2>4, Zenon DEF VersionsInv, ImagesPaired, CommitChanges, VersionsKnown,
       VersionOfImage, versions, entities
  <2> QED BY <2>5, <2>9, <2>10, Zenon DEF ImageInv
<1>6. ASSUME EndSoftwareDownload PROVE ImageInv'
  <2>0. state' \in OnuStates
    BY <1>0, <1>6, EventType, Zenon DEF EndSoftwareDownload
  <2>1. /\ phase = "end"
        /\ UNCHANGED <<download, ActiveImageVersion, CommittedImageVersion, entities,
                       reboot, image, target, next>>
        /\ lost' \in 0..MaxLost
    BY <1>0, <1>6
    DEF EndSoftwareDownload, Handled, Goto, AnswerLost, MayLose, TypeOK
  <2>2. CASE handleEndSoftwareDownloadRequest
    <3>1. StandbyImageVersion' = image /\ phase' \in {"end", "activate"}
      BY <1>6, <2>1, <2>2, SuccessIsWanted, Zenon
      DEF EndSoftwareDownload, Goto, AnswerLost
    <3>2. TypeOK'
      BY <1>0, <2>0, <2>1, <3>1 DEF TypeOK, Phases, download, entities
    <3>3. DownloadInv'
      BY <1>0, <2>1, <3>1, Zenon DEF DownloadInv, TargetFree, Downloading,
         SectionsCounted, VersionTaken, SendsSections, ExpectedSize, download, entities
    <3>4. ActiveImageEntityId = CommittedImageEntityId
      BY <1>0, <2>1, Zenon DEF TypeOK, DownloadInv, TargetFree, Downloading
    <3>5. VersionsInv'
      BY <1>0, <2>1, <3>1, <3>4, Zenon DEF VersionsInv, ImagesPaired, CommitChanges,
         VersionsKnown, VersionOfImage, entities, TypeOK
    <3> QED BY <3>2, <3>3, <3>5, Zenon DEF ImageInv
  <2>3. CASE ~handleEndSoftwareDownloadRequest
    <3>1. UNCHANGED StandbyImageVersion /\ phase' \in {"end", "idle"}
      BY <1>6, <2>1, <2>3, Zenon DEF EndSoftwareDownload, Goto, AnswerLost
    <3>2. TypeOK'
      BY <1>0, <2>0, <2>1, <3>1 DEF TypeOK, Phases, download, entities
    <3>3. DownloadInv'
      BY <1>0, <2>1, <3>1, Zenon DEF DownloadInv, TargetFree, Downloading,
         SectionsCounted, VersionTaken, SendsSections, ExpectedSize, download, entities
    <3>4. VersionsInv'
      BY <1>0, <2>1, <3>1, Zenon DEF VersionsInv, ImagesPaired, CommitChanges,
         VersionsKnown, VersionOfImage, entities
    <3> QED BY <3>2, <3>3, <3>4, Zenon DEF ImageInv
  <2> QED BY <2>2, <2>3, Zenon
<1>7. ASSUME AbortDownload PROVE ImageInv'
  <2>1. state' \in OnuStates /\ ImageSoftwareReceivedSections' \in Nat
    BY <1>0, <1>7, EventType DEF AbortDownload, TypeOK
  <2> QED BY <1>0, <1>b, <1>7, <2>1, Zenon DEF AbortDownload, Goto, TypeOK
<1>8. ASSUME NEW i \in Slots, ActivateSoftware(i) PROVE ImageInv'
  <2>0. state' \in OnuStates
    BY <1>0, <1>8, EventType, Zenon DEF ActivateSoftware
  <2>1. i # ActiveImageEntityId
    BY <1>0, <1>8, Zenon DEF ActivateSoftware, Handled, DownloadInv, TargetFree, Downloading
  <2>2. /\ ActiveImageEntityId' = i
        /\ ActiveImageVersion' = StandbyImageVersion
        /\ StandbyImageVersion' = ActiveImageVersion
        /\ phase' \in {"booting", "rollback"} /\ reboot' = "off"
        /\ UNCHANGED <<download, CommittedImageVersion, CommittedImageEntityId,
                       image, target, next, lost>>
    BY <1>8, Zenon DEF ActivateSoftware, SwapVersions, Goto
  <2>3. TypeOK'
    BY <1>0, <2>0, <2>2 DEF TypeOK, Phases, download
  <2>4. DownloadInv'
    BY <2>2, Zenon DEF DownloadInv, TargetFree, Downloading, SectionsCounted,
       VersionTaken, SendsSections, ExpectedSize
  <2>5. VersionsInv'
    BY <1>0, <2>1, <2>2 DEF TypeOK, VersionsInv, ImagesPaired, CommitChanges,
       VersionsKnown, VersionOfImage
  <2> QED BY <2>3, <2>4, <2>5, Zenon DEF ImageInv
<1>9. ASSUME CommitSoftware PROVE ImageInv'
  <2>0. state' \in OnuStates
    BY <1>0, <1>9, EventType, Zenon DEF CommitSoftware
  <2>1. /\ CommittedImageEntityId' = ActiveImageEntityId
        /\ StandbyImageVersion' = CommittedImageVersion
        /\ CommittedImageVersion' = ActiveImageVersion
        /\ phase' = "idle"
        /\ UNCHANGED <<download, ActiveImageVersion, ActiveImageEntityId, reboot,
                       image, target, next, lost>>
    BY <1>9, Zenon DEF CommitSoftware, CommitVersions, Goto
  <2>2. TypeOK'
    BY <1>0, <2>0, <2>1 DEF TypeOK, Phases, download
  <2>3. DownloadInv'
    BY <2>1, Zenon DEF DownloadInv, TargetFree, Downloading, SectionsCounted,
       VersionTaken, SendsSections, ExpectedSize
  <2>4. VersionsInv'
    BY <1>0, <2>1, Zenon DEF VersionsInv, ImagesPaired, CommitChanges, VersionsKnown,
       VersionOfImage
  <2> QED BY <2>2, <2>3, <2>4, Zenon DEF ImageInv
<1>10. ASSUME Down, reboot' \in {"none", "off", "on"} PROVE ImageInv'
  <2>1. state' \in OnuStates
    BY <1>0, <1>10, EventType, Zenon DEF Down
  <2>2. CASE phase' = "idle"
    BY <1>0, <1>b, <1>10, <2>1, <2>2, Zenon DEF Down, download, TypeOK
  <2>3. CASE phase' = phase
    BY <1>a, <1>10, <2>1, <2>3, Zenon DEF Down, voltha
  <2> QED BY <1>10, <2>2, <2>3, Zenon DEF Down
<1>11. ASSUME RebootOff \/ ShutdownONU PROVE ImageInv'
  BY <1>0, <1>10, <1>11, Zenon DEF RebootOff, ShutdownONU, TypeOK
<1>12. ASSUME RebootOn \/ PoweronONU PROVE ImageInv'
  <2>1. state' \in OnuStates
    BY <1>0, <1>12, Zenon DEF RebootOn, PoweronONU, Up, TypeOK, OnuStates
  <2> QED BY <1>0, <1>a, <1>12, <2>1, Zenon DEF RebootOn, PoweronONU, TypeOK
<1>13. ASSUME Booted PROVE ImageInv'
  BY <1>0, <1>b, <1>13, Zenon DEF Booted, Goto, TypeOK, download
<1>14. ASSUME DisablePonIf \/ EnablePonIf PROVE ImageInv'
  <2>1. state' \in OnuStates
    BY <1>0, <1>14, EventType, Zenon DEF DisablePonIf, EnablePonIf
  <2> QED BY <1>0, <1>a, <1>14, <2>1, Zenon DEF DisablePonIf, EnablePonIf, TypeOK
<1>15. ASSUME UNCHANGED vars PROVE ImageInv'
  BY <1>0, <1>a, <1>15, Zenon DEF vars, TypeOK
<1> QED
  BY <1>1, <1>2, <1>3, <1>4, <1>5, <1>6, <1>7, <1>8, <1>9, <1>11, <1>12, <1>13,
     <1>14, <1>15, Zenon DEF Next

LEMMA ImageAlways == FirstIsPlain => (Spec => []ImageInv)
<1> SUFFICES ASSUME FirstIsPlain PROVE Spec => []ImageInv
    BY Zenon
<1>1. Init => ImageInv
  BY ImageInit, Zenon
<1>2. ImageInv /\ [Next]_vars => ImageInv'
  BY ImageStep, Zenon
<1> QED BY <1>1, <1>2, PTL DEF Spec

\* The counters, the sections, the images and what VOLTHA does keep their types.
THEOREM TypeCorrect == FirstIsPlain => (Spec => []TypeOK)
<1> SUFFICES ASSUME FirstIsPlain PROVE Spec => []TypeOK
    BY Zenon
<1>1. ImageInv => TypeOK
  BY Zenon DEF ImageInv
<1> QED BY ImageAlways, <1>1, PTL

\* A download that succeeds leaves the version of the image that was sent in
\* StandbyImageVersion, whatever sections were lost or sent twice.
THEOREM VersionIsOfImage == FirstIsPlain => (Spec => []VersionOfImage)
<1> SUFFICES ASSUME FirstIsPlain PROVE Spec => []VersionOfImage
    BY Zenon
<1>1. ImageInv => VersionOfImage
  BY Zenon DEF ImageInv, VersionsInv
<1> QED BY ImageAlways, <1>1, PTL

-----------------------------------------------------------------------------
(***************************************************************************)
(* The refinement.                                                         *)
(***************************************************************************)

LEMMA FlashInit == Init => Flash!Init
<1> SUFFICES ASSUME Init PROVE Flash!Init
    BY Zenon
<1>1. [i \in Slots |-> ReportedVersion(i)] \in [Slots -> Versions]
  BY Zenon DEF Init, ReportedVersion, Versions
<1> QED BY <1>1, Zenon DEF Init, Flash!Init, Flash!Slots, Slots, Versions

LEMMA FlashStep ==
    ASSUME FirstIsPlain, ImageInv, ImageInv', [Next]_vars
    PROVE  [Flash!Next]_(Flash!vars)
<1> DEFINE slot == [i \in Slots |-> ReportedVersion(i)]
           Abstract == [Flash!Next]_(Flash!vars)
<1>0. TypeOK /\ DownloadInv /\ VersionsInv
  BY Zenon DEF ImageInv
<1>a. ASSUME UNCHANGED <<versions, entities, image>> PROVE Abstract
  BY <1>a, Zenon DEF Flash!vars, ReportedVersion, versions, entities
<1> HIDE DEF Abstract
<1>1. ASSUME NEW v \in Image, NEW i \in Slots, WantImage(v, i) PROVE Abstract
  <2>1. slot' = slot
    BY <1>1, Zenon DEF WantImage, ReportedVersion, versions, entities
  <2>2. Flash!Want
    BY <1>1, <2>1, Zenon DEF WantImage, Flash!Want, Versions, entities
  <2> QED BY <2>2, Zenon DEF Abstract, Flash!Next
<1>2. ASSUME \/ LoseSection \/ StartSoftwareDownload \/ DownloadSection
             \/ DownloadSectionWithResponse \/ AbortDownload
             \/ RebootOff \/ RebootOn \/ ShutdownONU \/ PoweronONU \/ Booted
             \/ DisablePonIf \/ EnablePonIf
      PROVE  Abstract
  <2>1. UNCHANGED <<versions, entities, image>>
    BY <1>2, Zenon DEF LoseSection, StartSoftwareDownload, Goto, AnswerLost, DownloadSection,
       DownloadSectionWithResponse, AbortDownload, RebootOff, Down, RebootOn,
       ShutdownONU, PoweronONU, Booted, DisablePonIf, EnablePonIf, voltha
  <2> QED BY <1>a, <2>1, Zenon
<1>3. ASSUME EndSoftwareDownload PROVE Abstract
  <2>1. /\ phase = "end" /\ UNCHANGED <<image, entities>>
        /\ UNCHANGED <<ActiveImageVersion, CommittedImageVersion>>
    BY <1>3, Zenon DEF EndSoftwareDownload, Handled, Goto, AnswerLost
  <2>2. CASE handleEndSoftwareDownloadRequest
    <3>1. StandbyImageVersion' = image
      BY <1>3, <2>1, <2>2, SuccessIsWanted, Zenon DEF EndSoftwareDownload
    <3>2. target \in Slots /\ target \notin {ActiveImageEntityId, CommittedImageEntityId}
      BY <1>0, <2>1, Zenon DEF TypeOK, DownloadInv, TargetFree, Downloading
    <3>3. slot' = [slot EXCEPT ![target] = image]
      BY <1>0, <2>1, <3>1, <3>2, Zenon DEF TypeOK, Slots, ReportedVersion, entities
    <3>4. Flash!Download(target)
      BY <2>1, <3>2, <3>3, Zenon DEF Flash!Download, entities
    <3> QED BY <3>2, <3>4, Zenon DEF Abstract, Flash!Next, Flash!Slots, Slots
  <2>3. CASE ~handleEndSoftwareDownloadRequest
    <3>1. UNCHANGED StandbyImageVersion
      BY <1>3, <2>3, Zenon DEF EndSoftwareDownload
    <3> QED BY <1>a, <2>1, <3>1, Zenon DEF versions
  <2> QED BY <2>2, <2>3, Zenon
<1>4. ASSUME NEW i \in Slots, ActivateSoftware(i) PROVE Abstract
  <2>1. i # ActiveImageEntityId
    BY <1>0, <1>4, Zenon DEF ActivateSoftware, Handled, DownloadInv, TargetFree, Downloading
  <2>2. /\ ActiveImageEntityId' = i
        /\ ActiveImageVersion' = StandbyImageVersion
        /\ StandbyImageVersion' = ActiveImageVersion
        /\ UNCHANGED <<CommittedImageVersion, CommittedImageEntityId, image>>
    BY <1>4, Zenon DEF ActivateSoftware, SwapVersions, Goto
  <2>3. \A j \in Slots : ReportedVersion(j)' = ReportedVersion(j)
    BY <1>0, <2>1, <2>2, Zenon DEF TypeOK, Slots, ReportedVersion
  <2>4. slot' = slot
    BY <2>3, Zenon
  <2>5. Flash!Activate(i)
    BY <2>2, <2>4, Zenon DEF Flash!Activate
  <2> QED BY <2>5, Zenon DEF Abstract, Flash!Next, Flash!Slots, Slots
<1>5. ASSUME CommitSoftware PROVE Abstract
  <2>1. /\ CommittedImageEntityId' = ActiveImageEntityId
        /\ StandbyImageVersion' = CommittedImageVersion
        /\ CommittedImageVersion' = ActiveImageVersion
        /\ UNCHANGED <<ActiveImageVersion, ActiveImageEntityId, image>>
        /\ phase = "commit"
    BY <1>5, Zenon DEF CommitSoftware, CommitVersions, Goto, Handled
  <2>2. ActiveImageEntityId # CommittedImageEntityId
    BY <1>0, <2>1, Zenon DEF VersionsInv, CommitChanges
  <2>3. \A j \in Slots : ReportedVersion(j)' = ReportedVersion(j)
    BY <1>0, <2>1, <2>2, Zenon DEF TypeOK, Slots, ReportedVersion
  <2>4. slot' = slot
    BY <2>3, Zenon
  <2>5. Flash!Commit
    BY <2>1, <2>4, Zenon DEF Flash!Commit
  <2> QED BY <2>5, Zenon DEF Abstract, Flash!Next
<1>6. ASSUME UNCHANGED vars PROVE Abstract
  BY <1>a, <1>6, Zenon DEF vars, voltha
<1>7. Abstract
  BY <1>1, <1>2, <1>3, <1>4, <1>5, <1>6, Zenon DEF Next
<1> QED BY <1>7, Zenon DEF Abstract

\* What a Get of the two software images says is a behaviour of TwoImages: the
\* ONU implements the two slots VOLTHA relies on.
THEOREM ImplementsTwoImages == FirstIsPlain => (Spec => ReportsTwoImages)
<1> SUFFICES ASSUME FirstIsPlain PROVE Spec => Flash!Spec
    BY Zenon DEF ReportsTwoImages
<1>1. ImageInv /\ ImageInv' /\ [Next]_vars => [Flash!Next]_(Flash!vars)
  BY FlashStep, Zenon
<1> QED BY FlashInit, ImageAlways, <1>1, PTL DEF Spec, Flash!Spec

-----------------------------------------------------------------------------
(***************************************************************************)
(* Proofs about OnuAlarms, for any ports and any width of the numbers.     *)
(***************************************************************************)

\* An ONU that went down with no alarm under way has none until it is up again.
DownInv ==
  /\ \A p \in Ports : info[p].raised => info[p].known
  /\ onu # "enabled" /\ "down" \notin overtaken =>
       /\ queue = <<>> /\ Idle
       /\ \A p \in Ports : ~info[p].known
       /\ onu = "disabling" => up = {}
       /\ client.raised = {}

\* The client knows the alarms also while the loop handles the next one.
RaisedInv == onu = "enabled" /\ overtaken = {} => client.raised = Raised

\* An entry has the number that was sent last, or 0 from which the numbers start
\* again; the alarm that is being handled has the number after it.
NumberInv ==
  onu = "enabled" /\ "down" \notin overtaken =>
    /\ \A p \in Ports : info[p].known /\ (Idle \/ handling.port # p) =>
         info[p].seq \in {0, client.last[p]}
    /\ ~Idle => /\ info[handling.port].seq = handling.seq
                /\ handling.seq \in {1, NextNumber(client.last[handling.port])}

\* An audit has found the alarms of the instances before the next one, and one in
\* the extended format all of them with the first.
AuditInv ==
  audit.format \in {"baseline", "extended"} /\ audit.exact =>
    /\ audit.number = Cardinality(Known \cap Audited)
    /\ audit.next <= audit.number
    /\ 0..(audit.next - 1) \subseteq Known
    /\ audit.found = IF audit.format = "extended" /\ audit.next > 0
                     THEN Raised \cap Audited
                     ELSE Raised \cap 0..(audit.next - 1)

AlarmInv == AlarmTypeOK /\ DownInv /\ RaisedInv /\ NumberInv /\ AuditInv

----------------------------------------------------------------------------
(* The operators.                                                            *)

LEMMA NextNumberType ==
  ASSUME PortsAssumption, NEW n \in 0..Top
  PROVE  NextNumber(n) \in 1..Top
BY DEF NextNumber, PortsAssumption

LEMMA KeptType ==
  ASSUME PortsAssumption, NEW entry \in Infos, NEW sent \in BOOLEAN
  PROVE  /\ Kept(entry, sent) \in 0..Top
         /\ sent => Kept(entry, sent) = entry.seq
         /\ ~sent /\ entry.seq > 0 => Kept(entry, sent) = entry.seq - 1
<1>1. entry.seq \in 0..Top
  BY Zenon DEF Infos
<1>2. CASE entry.seq = 0
  <2>1. (0 - 1) % (Top + 1) \in 0..Top
    BY DEF PortsAssumption
  <2> QED
    BY <1>1, <1>2, <2>1 DEF Kept
<1>3. CASE entry.seq > 0
  <2>1. (entry.seq - 1) % (Top + 1) = entry.seq - 1
    BY <1>1, <1>3 DEF PortsAssumption
  <2> QED
    BY <1>1, <1>3, <2>1 DEF Kept, PortsAssumption
<1> QED
  BY <1>1, <1>2, <1>3 DEF PortsAssumption

\* What TakeAlarm and NumbersReset do to an entry.
LEMMA EntryNumbered ==
  ASSUME NEW entry \in Infos, NEW n \in 0..Top
  PROVE  /\ [entry EXCEPT !.seq = n] \in Infos
         /\ [entry EXCEPT !.seq = n].seq = n
         /\ [entry EXCEPT !.seq = n].known = entry.known
         /\ [entry EXCEPT !.seq = n].raised = entry.raised
         /\ [entry EXCEPT !.known = TRUE, !.seq = n] \in Infos
         /\ [entry EXCEPT !.known = TRUE, !.seq = n].seq = n
         /\ [entry EXCEPT !.known = TRUE, !.seq = n].known
         /\ [entry EXCEPT !.known = TRUE, !.seq = n].raised = entry.raised
BY Zenon DEF Infos

LEMMA AuditedIsFinite ==
  ASSUME NEW S
  PROVE  IsFiniteSet(S \cap Audited) /\ Cardinality(S \cap Audited) \in 0..4
<1>1. IsFiniteSet(Audited) /\ Cardinality(Audited) = 4
  <2>1. 0 \in Int /\ 3 \in Int
    OBVIOUS
  <2>2. IsFiniteSet(0..3) /\ Cardinality(0..3) = IF 0 > 3 THEN 0 ELSE 3 - 0 + 1
    BY <2>1, FS_Interval, Zenon
  <2> QED
    BY <2>2 DEF Audited
<1>2. S \cap Audited \in SUBSET Audited
  BY Zenon
<1>3. IsFiniteSet(S \cap Audited) /\ Cardinality(S \cap Audited) <= 4
  BY <1>1, <1>2, FS_Subset
<1> QED
  BY <1>3, FS_CardinalityType

----------------------------------------------------------------------------
(* Types.                                                                    *)

Audits == [format : {"none", "baseline", "extended", "failed"}, number : 0..4,
           next : 0..4, found : SUBSET Ports, exact : BOOLEAN]

LEMMA TypeStep ==
  ASSUME PortsAssumption, AlarmTypeOK, [AlarmNext]_alarmVars
  PROVE  AlarmTypeOK'
<1> USE DEF AlarmTypeOK
<1>1. ASSUME NEW p \in Ports, Enable(p) \/ Disable(p) PROVE AlarmTypeOK'
  <2>1. \A raise \in BOOLEAN : Append(queue, [port |-> p, raise |-> raise]) \in Seq(Alarms)
    BY DEF Alarms
  <2> QED
    BY <1>1, <2>1, Zenon DEF Enable, Disable, kept
<1>2. ASSUME NEW p \in Ports, DisableUni(p) PROVE AlarmTypeOK'
  BY <1>2 DEF DisableUni, Alarms, kept
<1>3. ASSUME NEW raise \in BOOLEAN, SetAlarm(raise) PROVE AlarmTypeOK'
  BY <1>3 DEF SetAlarm, Alarms, kept, PortsAssumption
<1>4. ASSUME TakeAlarm PROVE AlarmTypeOK'
  <2> DEFINE alarm == Head(queue)
             seq == IF info[alarm.port].known THEN NextNumber(info[alarm.port].seq) ELSE 1
  <2>1. alarm \in Alarms /\ Tail(queue) \in Seq(Alarms)
    BY <1>4 DEF TakeAlarm
  <2>2. alarm.port \in Ports /\ alarm.raise \in BOOLEAN /\ info[alarm.port] \in Infos
    BY <2>1, Zenon DEF Alarms
  <2>3. seq \in 1..Top
    <3>1. info[alarm.port].seq \in 0..Top
      BY <2>2, Zenon DEF Infos
    <3>2. NextNumber(info[alarm.port].seq) \in 1..Top
      BY <3>1, NextNumberType, Zenon
    <3> QED
      BY <3>2 DEF PortsAssumption
  <2> DEFINE entry == [info[alarm.port] EXCEPT !.known = TRUE, !.seq = seq]
  <2>4. entry \in Infos
    <3> HIDE DEF seq
    <3>1. seq \in 0..Top
      BY <2>3
    <3> QED
      BY <2>2, <3>1, EntryNumbered, Zenon
  <2>5. info' \in [Ports -> Infos]
    <3>1. info' = [info EXCEPT ![alarm.port] = entry]
      BY <1>4, Zenon DEF TakeAlarm
    <3> HIDE DEF entry
    <3> QED
      BY <2>2, <2>4, <3>1, Zenon
  <2>6. handling' \in [port : Ports, raise : BOOLEAN, seq : 1..Top]
    BY <1>4, <2>2, <2>3, Zenon DEF TakeAlarm
  <2>7. audit' \in Audits
    BY <1>4, Zenon DEF TakeAlarm, Changed, Audits
  <2> QED
    BY <1>4, <2>1, <2>5, <2>6, <2>7, Zenon DEF TakeAlarm, kept, Audits
<1>5. ASSUME NEW sent \in BOOLEAN, SendAlarm(sent) PROVE AlarmTypeOK'
  <2>1. handling \in [port : Ports, raise : BOOLEAN, seq : 1..Top]
    BY <1>5, Zenon DEF SendAlarm, Idle
  <2>2. EntryOf(handling, info[handling.port], sent) \in Infos
    <3>1. info[handling.port] \in Infos
      BY <2>1, Zenon
    <3>2. Kept(info[handling.port], sent) \in 0..Top
      BY <3>1, KeptType, Zenon
    <3> QED
      BY <3>2 DEF EntryOf, Infos, Absent, PortsAssumption
  <2>3. info' \in [Ports -> Infos]
    BY <1>5, <2>1, <2>2, Zenon DEF SendAlarm
  <2>4. client' \in [raised : SUBSET Ports, last : [Ports -> 0..Top]]
    BY <1>5, <2>1 DEF SendAlarm, Notified, PortsAssumption
  <2>5. audit' \in Audits
    BY <1>5, Zenon DEF SendAlarm, Changed, Audits
  <2> QED
    BY <1>5, <2>3, <2>4, <2>5, Zenon DEF SendAlarm, Audits
<1>6. ASSUME NEW format \in {"baseline", "extended"}, GetAllAlarms(format) PROVE AlarmTypeOK'
  <2>1. info' \in [Ports -> Infos]
    <3>1. ASSUME NEW p \in Ports PROVE [info[p] EXCEPT !.seq = 0] \in Infos
      <4>1. info[p] \in Infos
        BY Zenon
      <4>2. 0 \in 0..Top
        BY DEF PortsAssumption
      <4> QED
        BY <4>1, <4>2, EntryNumbered, Zenon
    <3> QED
      BY <1>6, <3>1, Zenon DEF GetAllAlarms, NumbersReset
  <2>2. audit' \in Audits
    <3> DEFINE n == Cardinality(Known \cap Audited)
    <3>1. n \in 0..4
      BY AuditedIsFinite, Zenon
    <3>2. audit' = [format |-> format, number |-> n, next |-> 0, found |-> {}, exact |-> TRUE]
      BY <1>6, Zenon DEF GetAllAlarms
    <3> HIDE DEF n
    <3> QED
      BY <3>1, <3>2 DEF Audits
  <2>3. client' \in [raised : SUBSET Ports, last : [Ports -> 0..Top]]
    <3> DEFINE zero == [p \in Ports |-> 0]
    <3>1. zero \in [Ports -> 0..Top]
      BY DEF PortsAssumption
    <3>2. client' = [client EXCEPT !.last = zero]
      BY <1>6, Zenon DEF GetAllAlarms
    <3> HIDE DEF zero
    <3> QED
      BY <3>1, <3>2, Zenon
  <2> QED
    BY <1>6, <2>1, <2>2, <2>3, Zenon DEF GetAllAlarms, kept, Audits
<1>7. ASSUME GetAllAlarmsNext PROVE AlarmTypeOK'
  <2>1. Reported(audit.next) \cap Raised \subseteq Ports
    BY Zenon DEF Raised
  <2>2. audit.next \in 0..3
    BY <1>7 DEF GetAllAlarmsNext
  <2>3. audit' \in Audits
    <3> DEFINE more == Reported(audit.next) \cap Raised
    <3>1. CASE audit.next \in Known
      <4>1. audit' = [audit EXCEPT !.next = audit.next + 1, !.found = audit.found \cup more]
        BY <1>7, <3>1, Zenon DEF GetAllAlarmsNext
      <4>2. audit.next + 1 \in 0..4 /\ audit.found \cup more \subseteq Ports
        BY <2>1, <2>2
      <4> QED
        BY <4>1, <4>2, Zenon DEF Audits
    <3>2. CASE audit.next \notin Known
      <4>1. audit' = [audit EXCEPT !.format = "failed", !.number = audit.next]
        BY <1>7, <3>2, Zenon DEF GetAllAlarmsNext
      <4> QED
        BY <4>1, Zenon DEF Audits
    <3> QED
      BY <3>1, <3>2, Zenon
  <2> QED
    BY <1>7, <2>3, Zenon DEF GetAllAlarmsNext, kept, Audits
<1>8. ASSUME DisableOnu \/ DisablePon PROVE AlarmTypeOK'
  <2>1. \E coming : Cleanup(coming)
    BY <1>8, Zenon DEF DisableOnu, DisablePon
  <2>2. info' \in [Ports -> Infos]
    BY <2>1 DEF Cleanup, Absent, Infos, PortsAssumption
  <2>3. client' \in [raised : SUBSET Ports, last : [Ports -> 0..Top]]
    BY <2>1 DEF Cleanup, Fresh, PortsAssumption
  <2>4. audit' \in Audits
    BY <2>1 DEF Cleanup, NoAudit, Audits
  <2>5. downs' \in 0..MaxDown /\ overtaken' \subseteq {"lost", "down"}
    BY <2>1 DEF Cleanup, PortsAssumption
  <2> QED
    BY <1>8, <2>1, <2>2, <2>3, <2>4, <2>5, Zenon DEF DisableOnu, DisablePon, Cleanup, Audits
<1>9. ASSUME CloseChannel \/ EnableOnu PROVE AlarmTypeOK'
  BY <1>9, Zenon DEF CloseChannel, EnableOnu, kept
<1>10. ASSUME UNCHANGED alarmVars PROVE AlarmTypeOK'
  BY <1>10, Zenon DEF alarmVars, kept
<1> QED
  BY <1>1, <1>2, <1>3, <1>4, <1>5, <1>6, <1>7, <1>8, <1>9, <1>10, Zenon DEF AlarmNext

----------------------------------------------------------------------------
(* What the steps of the loop do to the map.                                 *)

LEMMA AlarmTaken ==
  ASSUME PortsAssumption, AlarmTypeOK, TakeAlarm
  PROVE  /\ Idle /\ ~Idle' /\ handling'.port \in Ports /\ queue # <<>>
         /\ UNCHANGED <<onu, up, client, overtaken>>
         /\ info'[handling'.port].known
         /\ info'[handling'.port].seq = handling'.seq
         /\ handling'.seq = IF info[handling'.port].known
                            THEN NextNumber(info[handling'.port].seq) ELSE 1
         /\ \A p \in Ports : info'[p].raised = info[p].raised
         /\ \A p \in Ports : p # handling'.port => info'[p] = info[p]
<1> DEFINE alarm == Head(queue)
           seq == IF info[alarm.port].known THEN NextNumber(info[alarm.port].seq) ELSE 1
           entry == [info[alarm.port] EXCEPT !.known = TRUE, !.seq = seq]
<1>1. /\ Idle /\ queue # <<>>
      /\ UNCHANGED <<onu, up, client, overtaken>>
      /\ handling' = [port |-> alarm.port, raise |-> alarm.raise, seq |-> seq]
      /\ info' = [info EXCEPT ![alarm.port] = entry]
  BY Zenon DEF TakeAlarm, kept
<1>2. alarm.port \in Ports
  <2>1. alarm \in Alarms
    BY <1>1 DEF AlarmTypeOK
  <2> QED
    BY <2>1, Zenon DEF Alarms
<1>3. info[alarm.port] \in Infos
  BY <1>2, Zenon DEF AlarmTypeOK
<1>4. seq \in 1..Top
  <2>1. info[alarm.port].seq \in 0..Top
    BY <1>3, Zenon DEF Infos
  <2>2. NextNumber(info[alarm.port].seq) \in 1..Top
    BY <2>1, NextNumberType, Zenon
  <2> QED
    BY <2>2 DEF PortsAssumption
<1> HIDE DEF seq
<1>5. entry.known /\ entry.seq = seq /\ entry.raised = info[alarm.port].raised
  <2>1. seq \in 0..Top
    BY <1>4
  <2> QED
    BY <1>3, <2>1, EntryNumbered, Zenon
<1> HIDE DEF entry
<1>6. info'[alarm.port] = entry /\ \A p \in Ports : p # alarm.port => info'[p] = info[p]
  BY <1>1, <1>2, Zenon DEF AlarmTypeOK
<1>7. handling'.port = alarm.port /\ handling'.seq = seq
  BY <1>1, Zenon
<1>8. ~Idle'
  BY <1>4, <1>7 DEF Idle, None
<1> QED
  BY <1>1, <1>2, <1>5, <1>6, <1>7, <1>8 DEF seq

LEMMA AlarmSent ==
  ASSUME PortsAssumption, AlarmTypeOK, NEW sent \in BOOLEAN, SendAlarm(sent)
  PROVE  /\ ~Idle /\ Idle' /\ handling.port \in Ports
         /\ UNCHANGED <<onu, up, queue>>
         /\ overtaken' = IF sent THEN overtaken ELSE overtaken \cup {"lost"}
         /\ info'[handling.port] = EntryOf(handling, info[handling.port], sent)
         /\ info'[handling.port].raised = handling.raise
         /\ info'[handling.port].known = handling.raise
         /\ \A p \in Ports : p # handling.port => info'[p] = info[p]
<1>1. handling \in [port : Ports, raise : BOOLEAN, seq : 1..Top]
  BY Zenon DEF SendAlarm, Idle, AlarmTypeOK
<1>2. info'[handling.port] = EntryOf(handling, info[handling.port], sent)
      /\ \A p \in Ports : p # handling.port => info'[p] = info[p]
  BY <1>1, Zenon DEF SendAlarm, AlarmTypeOK
<1>3. EntryOf(handling, info[handling.port], sent).raised = handling.raise
      /\ EntryOf(handling, info[handling.port], sent).known = handling.raise
  BY <1>1, Zenon DEF EntryOf, Absent
<1> QED
  BY <1>1, <1>2, <1>3, Zenon DEF SendAlarm, Idle

LEMMA AuditStarted ==
  ASSUME PortsAssumption, AlarmTypeOK, NEW format \in {"baseline", "extended"}, GetAllAlarms(format)
  PROVE  /\ onu = "enabled" /\ Idle
         /\ UNCHANGED <<onu, up, queue, handling, overtaken>>
         /\ \A p \in Ports : /\ info'[p].seq = 0
                              /\ info'[p].known = info[p].known
                              /\ info'[p].raised = info[p].raised
         /\ client'.raised = client.raised
         /\ \A p \in Ports : client'.last[p] = 0
<1>1. /\ onu = "enabled" /\ Idle
      /\ UNCHANGED <<onu, up, queue, handling, overtaken>>
      /\ info' = [p \in Ports |-> [info[p] EXCEPT !.seq = 0]]
      /\ client' = [client EXCEPT !.last = [p \in Ports |-> 0]]
  BY Zenon DEF GetAllAlarms, NumbersReset, kept
<1>2. ASSUME NEW p \in Ports
      PROVE  info'[p].seq = 0 /\ info'[p].known = info[p].known /\ info'[p].raised = info[p].raised
  <2>1. info[p] \in Infos /\ 0 \in 0..Top
    BY DEF AlarmTypeOK, PortsAssumption
  <2>2. info'[p] = [info[p] EXCEPT !.seq = 0]
    BY <1>1, Zenon
  <2>3. /\ [info[p] EXCEPT !.seq = 0].seq = 0
        /\ [info[p] EXCEPT !.seq = 0].known = info[p].known
        /\ [info[p] EXCEPT !.seq = 0].raised = info[p].raised
    BY <2>1, EntryNumbered, Zenon
  <2> QED
    BY <2>2, <2>3, Zenon
<1>3. client'.raised = client.raised /\ \A p \in Ports : client'.last[p] = 0
  BY <1>1, Zenon DEF AlarmTypeOK
<1> QED
  BY <1>1, <1>2, <1>3, Zenon

LEMMA CleanedUp ==
  ASSUME PortsAssumption, AlarmTypeOK, NEW coming, Cleanup(coming)
  PROVE  /\ UNCHANGED <<up, queue, handling>>
         /\ \A p \in Ports : ~info'[p].known /\ ~info'[p].raised
         /\ client'.raised = {} /\ \A p \in Ports : client'.last[p] = 0
         /\ audit'.format = "none"
         /\ "down" \notin overtaken' => queue = <<>> /\ Idle /\ coming = {}
BY Zenon DEF Cleanup, Absent, Fresh, NoAudit

----------------------------------------------------------------------------
(* The invariant.                                                            *)

LEMMA DownStep ==
  ASSUME PortsAssumption, AlarmTypeOK, DownInv, [AlarmNext]_alarmVars
  PROVE  DownInv'
<1>1. ASSUME NEW p \in Ports, Enable(p) \/ Disable(p) PROVE DownInv'
  BY <1>1, Zenon DEF Enable, Disable, DownInv, Idle
<1>2. ASSUME NEW p \in Ports, DisableUni(p) PROVE DownInv'
  BY <1>2, Zenon DEF DisableUni, DownInv, kept
<1>3. ASSUME NEW raise \in BOOLEAN, SetAlarm(raise) PROVE DownInv'
  BY <1>3, Zenon DEF SetAlarm, DownInv
<1>4. ASSUME TakeAlarm PROVE DownInv'
  BY <1>4, AlarmTaken, Zenon DEF DownInv
<1>5. ASSUME NEW sent \in BOOLEAN, SendAlarm(sent) PROVE DownInv'
  BY <1>5, AlarmSent, Zenon DEF DownInv
<1>6. ASSUME NEW format \in {"baseline", "extended"}, GetAllAlarms(format) PROVE DownInv'
  BY <1>6, AuditStarted, Zenon DEF DownInv
<1>7. ASSUME GetAllAlarmsNext PROVE DownInv'
  BY <1>7, Zenon DEF GetAllAlarmsNext, DownInv
<1>8. ASSUME DisableOnu PROVE DownInv'
  BY <1>8, CleanedUp, Zenon DEF DisableOnu, DownInv, Idle
<1>9. ASSUME DisablePon PROVE DownInv'
  BY <1>9, CleanedUp, Zenon DEF DisablePon, DownInv, Idle
<1>10. ASSUME CloseChannel \/ EnableOnu PROVE DownInv'
  BY <1>10, Zenon DEF CloseChannel, EnableOnu, DownInv, Idle, kept
<1>11. ASSUME UNCHANGED alarmVars PROVE DownInv'
  BY <1>11, Zenon DEF alarmVars, DownInv, Idle, kept
<1> QED
  BY <1>1, <1>2, <1>3, <1>4, <1>5, <1>6, <1>7, <1>8, <1>9, <1>10, <1>11, Zenon DEF AlarmNext

LEMMA RaisedStep ==
  ASSUME PortsAssumption, AlarmTypeOK, DownInv, RaisedInv, [AlarmNext]_alarmVars
  PROVE  RaisedInv'
<1>1. ASSUME NEW p \in Ports, Enable(p) \/ Disable(p) \/ DisableUni(p) PROVE RaisedInv'
  BY <1>1, Zenon DEF Enable, Disable, DisableUni, RaisedInv, Raised, kept
<1>2. ASSUME NEW raise \in BOOLEAN, SetAlarm(raise) PROVE RaisedInv'
  BY <1>2, Zenon DEF SetAlarm, RaisedInv, Raised, kept
<1>3. ASSUME TakeAlarm PROVE RaisedInv'
  BY <1>3, AlarmTaken, Zenon DEF RaisedInv, Raised
<1>4. ASSUME NEW sent \in BOOLEAN, SendAlarm(sent) PROVE RaisedInv'
  <2> SUFFICES ASSUME onu' = "enabled", overtaken' = {} PROVE client'.raised = Raised'
    BY Zenon DEF RaisedInv
  <2>1. sent /\ onu = "enabled" /\ overtaken = {}
    BY <1>4, AlarmSent, Zenon
  <2>2. client'.raised = IF handling.raise THEN client.raised \cup {handling.port}
                         ELSE client.raised \ {handling.port}
    BY <1>4, <2>1, Zenon DEF SendAlarm, Notified
  <2>3. client.raised = Raised
    BY <2>1, Zenon DEF RaisedInv
  <2> QED
    BY <1>4, <2>2, <2>3, AlarmSent, Zenon DEF Raised
<1>5. ASSUME NEW format \in {"baseline", "extended"}, GetAllAlarms(format) PROVE RaisedInv'
  BY <1>5, AuditStarted, Zenon DEF RaisedInv, Raised
<1>6. ASSUME GetAllAlarmsNext PROVE RaisedInv'
  BY <1>6, Zenon DEF GetAllAlarmsNext, RaisedInv, Raised, kept
<1>7. ASSUME DisableOnu \/ DisablePon \/ CloseChannel PROVE RaisedInv'
  BY <1>7, Zenon DEF DisableOnu, DisablePon, CloseChannel, RaisedInv
<1>8. ASSUME EnableOnu PROVE RaisedInv'
  BY <1>8, Zenon DEF EnableOnu, RaisedInv, Raised, DownInv, kept
<1>9. ASSUME UNCHANGED alarmVars PROVE RaisedInv'
  BY <1>9, Zenon DEF alarmVars, RaisedInv, Raised, kept
<1> QED
  BY <1>1, <1>2, <1>3, <1>4, <1>5, <1>6, <1>7, <1>8, <1>9, Zenon DEF AlarmNext

LEMMA NumberStep ==
  ASSUME PortsAssumption, AlarmTypeOK, DownInv, NumberInv, [AlarmNext]_alarmVars
  PROVE  NumberInv'
<1>1. ASSUME NEW p \in Ports, Enable(p) \/ Disable(p) \/ DisableUni(p) PROVE NumberInv'
  BY <1>1, Zenon DEF Enable, Disable, DisableUni, NumberInv, Idle, kept
<1>2. ASSUME NEW raise \in BOOLEAN, SetAlarm(raise) PROVE NumberInv'
  BY <1>2, Zenon DEF SetAlarm, NumberInv, Idle, kept
<1>3. ASSUME TakeAlarm PROVE NumberInv'
  <2> SUFFICES ASSUME onu' = "enabled", "down" \notin overtaken' PROVE NumberInv'
    BY Zenon DEF NumberInv
  <2>1. \A p \in Ports : info[p].known => info[p].seq \in {0, client.last[p]}
    BY <1>3, AlarmTaken, Zenon DEF NumberInv
  <2>2. handling'.seq \in {1, NextNumber(client.last[handling'.port])}
    <3>1. NextNumber(0) = 1
      BY DEF NextNumber, PortsAssumption
    <3> QED
      BY <1>3, <2>1, <3>1, AlarmTaken, Zenon
  <2> QED
    BY <1>3, <2>1, <2>2, AlarmTaken, Zenon DEF NumberInv
<1>4. ASSUME NEW sent \in BOOLEAN, SendAlarm(sent) PROVE NumberInv'
  <2> SUFFICES ASSUME onu' = "enabled", "down" \notin overtaken' PROVE NumberInv'
    BY Zenon DEF NumberInv
  <2>1. /\ \A p \in Ports : info[p].known /\ handling.port # p => info[p].seq \in {0, client.last[p]}
        /\ info[handling.port].seq = handling.seq
        /\ handling.seq \in {1, NextNumber(client.last[handling.port])}
    BY <1>4, AlarmSent, Zenon DEF NumberInv
  <2>2. handling \in [port : Ports, raise : BOOLEAN, seq : 1..Top]
    BY <1>4, Zenon DEF SendAlarm, Idle, AlarmTypeOK
  <2>3. /\ \A p \in Ports : p # handling.port => client'.last[p] = client.last[p]
        /\ client'.last[handling.port] = IF sent THEN handling.seq ELSE client.last[handling.port]
    BY <1>4, <2>2, AlarmSent DEF SendAlarm, Notified, AlarmTypeOK
  <2>4. ASSUME handling.raise PROVE info'[handling.port].seq \in {0, client'.last[handling.port]}
    <3>1. info'[handling.port].seq = Kept(info[handling.port], sent)
      <4>1. info'[handling.port] = EntryOf(handling, info[handling.port], sent)
        BY <1>4, AlarmSent, Zenon
      <4> QED
        BY <2>4, <4>1 DEF EntryOf
    <3>2. info[handling.port] \in Infos /\ client.last[handling.port] \in 0..Top
      BY <2>2, Zenon DEF AlarmTypeOK
    <3>3. Kept(info[handling.port], sent) = IF sent THEN handling.seq ELSE handling.seq - 1
      <4>1. info[handling.port].seq = handling.seq /\ handling.seq > 0
        BY <2>1, <2>2
      <4> QED
        BY <3>2, <4>1, KeptType, Zenon
    <3>4. ~sent => handling.seq - 1 \in {0, client.last[handling.port]}
      BY <2>1, <3>2 DEF NextNumber, PortsAssumption
    <3> QED
      BY <2>3, <3>1, <3>3, <3>4, Zenon
  <2> QED
    BY <1>4, <2>1, <2>3, <2>4, AlarmSent, Zenon DEF NumberInv
<1>5. ASSUME NEW format \in {"baseline", "extended"}, GetAllAlarms(format) PROVE NumberInv'
  BY <1>5, AuditStarted, Zenon DEF NumberInv, Idle
<1>6. ASSUME GetAllAlarmsNext PROVE NumberInv'
  BY <1>6, Zenon DEF GetAllAlarmsNext, NumberInv, Idle, kept
<1>7. ASSUME DisableOnu \/ DisablePon \/ CloseChannel PROVE NumberInv'
  BY <1>7, Zenon DEF DisableOnu, DisablePon, CloseChannel, NumberInv
<1>8. ASSUME EnableOnu PROVE NumberInv'
  BY <1>8, Zenon DEF EnableOnu, NumberInv, DownInv, Idle, kept
<1>9. ASSUME UNCHANGED alarmVars PROVE NumberInv'
  BY <1>9, Zenon DEF alarmVars, NumberInv, Idle, kept
<1> QED
  BY <1>1, <1>2, <1>3, <1>4, <1>5, <1>6, <1>7, <1>8, <1>9, Zenon DEF AlarmNext

LEMMA AuditStep ==
  ASSUME PortsAssumption, AlarmTypeOK, DownInv, AuditInv, [AlarmNext]_alarmVars
  PROVE  AuditInv'
<1>1. ASSUME UNCHANGED <<info, audit>> PROVE AuditInv'
  BY <1>1, Zenon DEF AuditInv, Known, Raised
<1>2. ASSUME Changed PROVE AuditInv'
  <2> SUFFICES ASSUME audit'.format \in {"baseline", "extended"}, audit'.exact PROVE AuditInv'
    BY Zenon DEF AuditInv
  <2>1. info' = info /\ audit.exact
    BY <1>2, Zenon DEF Changed, AlarmTypeOK
  <2>2. /\ audit'.format = audit.format /\ audit'.number = audit.number
        /\ audit'.next = audit.next /\ audit'.found = audit.found
    BY <1>2, Zenon DEF Changed, AlarmTypeOK
  <2> QED
    BY <2>1, <2>2, Zenon DEF AuditInv, Known, Raised
<1>3. ASSUME NEW format \in {"baseline", "extended"}, GetAllAlarms(format) PROVE AuditInv'
  <2> DEFINE n == Cardinality(Known \cap Audited)
  <2>1. Known' = Known
    BY <1>3, AuditStarted, Zenon DEF Known
  <2>2. n \in 0..4
    BY AuditedIsFinite, Zenon
  <2>3. audit' = [format |-> format, number |-> n, next |-> 0, found |-> {}, exact |-> TRUE]
    BY <1>3, Zenon DEF GetAllAlarms
  <2>4. audit'.number = Cardinality(Known' \cap Audited)
    BY <2>1, <2>3, Zenon
  <2> HIDE DEF n
  <2> QED
    BY <2>2, <2>3, <2>4 DEF AuditInv
<1>4. ASSUME GetAllAlarmsNext PROVE AuditInv'
  <2> SUFFICES ASSUME audit'.format \in {"baseline", "extended"}, audit'.exact PROVE AuditInv'
    BY Zenon DEF AuditInv
  <2>1. audit \in Audits
    BY Zenon DEF AlarmTypeOK, Audits
  <2>2. audit.next \in Known
    BY <1>4, <2>1, Zenon DEF GetAllAlarmsNext, Audits
  <2> DEFINE more == Reported(audit.next) \cap Raised
  <2>3. audit' = [audit EXCEPT !.next = audit.next + 1, !.found = audit.found \cup more]
    BY <1>4, <2>2, Zenon DEF GetAllAlarmsNext
  <2> HIDE DEF more
  <2>4. /\ audit'.format = audit.format /\ audit'.number = audit.number /\ audit.exact
        /\ audit'.next = audit.next + 1 /\ audit'.found = audit.found \cup more
    BY <2>1, <2>3, Zenon DEF Audits
  <2>5. audit.next \in 0..3 /\ audit.next < audit.number /\ audit.number \in 0..4
    BY <1>4, <2>1 DEF GetAllAlarmsNext, Audits
  <2>6. /\ audit.number = Cardinality(Known \cap Audited)
        /\ 0..(audit.next - 1) \subseteq Known
        /\ audit.found = IF audit.format = "extended" /\ audit.next > 0
                         THEN Raised \cap Audited
                         ELSE Raised \cap 0..(audit.next - 1)
    BY <2>4, Zenon DEF AuditInv
  <2>7. UNCHANGED info
    BY <1>4, Zenon DEF GetAllAlarmsNext
  <2>8. 0..(audit'.next - 1) \subseteq Known
    BY <2>2, <2>4, <2>5, <2>6
  <2>9. audit'.found = IF audit'.format = "extended" THEN Raised \cap Audited
                       ELSE Raised \cap 0..(audit'.next - 1)
    <3>1. CASE audit.format = "extended" /\ audit.next = 0
      <4>1. more = Known \cap Audited \cap Raised
        BY <3>1, Zenon DEF more, Reported
      <4>2. Raised \subseteq Known
        BY Zenon DEF Raised, Known, DownInv
      <4>3. audit.found = {}
        BY <2>6, <3>1
      <4> QED
        BY <2>4, <3>1, <4>1, <4>2, <4>3, Zenon
    <3>2. CASE audit.format = "extended" /\ audit.next > 0
      <4>1. more \subseteq Raised \cap Audited
        BY <2>5, <3>2, Zenon DEF more, Reported, Audited
      <4> QED
        BY <2>4, <2>6, <3>2, <4>1, Zenon
    <3>3. CASE audit.format = "baseline"
      <4>1. more = {audit.next} \cap Raised
        BY <3>3, Zenon DEF more, Reported
      <4> QED
        BY <2>4, <2>5, <2>6, <3>3, <4>1
    <3> QED
      BY <2>4, <2>5, <3>1, <3>2, <3>3
  <2> QED
    BY <2>4, <2>5, <2>6, <2>7, <2>8, <2>9 DEF AuditInv, Known, Raised
<1>5. ASSUME NEW coming, Cleanup(coming) PROVE AuditInv'
  BY <1>5, CleanedUp, Zenon DEF AuditInv
<1>6. ASSUME NEW p \in Ports, Enable(p) \/ Disable(p) \/ DisableUni(p) PROVE UNCHANGED <<info, audit>>
  BY <1>6, Zenon DEF Enable, Disable, DisableUni
<1>7. ASSUME CloseChannel \/ EnableOnu \/ \E raise \in BOOLEAN : SetAlarm(raise)
      PROVE  UNCHANGED <<info, audit>>
  BY <1>7, Zenon DEF CloseChannel, EnableOnu, SetAlarm
<1>8. ASSUME TakeAlarm \/ \E sent \in BOOLEAN : SendAlarm(sent) PROVE Changed
  BY <1>8, Zenon DEF TakeAlarm, SendAlarm
<1>9. ASSUME DisableOnu \/ DisablePon PROVE \E coming : Cleanup(coming)
  BY <1>9, Zenon DEF DisableOnu, DisablePon
<1>10. ASSUME UNCHANGED alarmVars PROVE UNCHANGED <<info, audit>>
  BY <1>10, Zenon DEF alarmVars
<1> QED
  BY <1>1, <1>2, <1>3, <1>4, <1>5, <1>6, <1>7, <1>8, <1>9, <1>10, Zenon DEF AlarmNext

LEMMA AlarmInvariant ==
  ASSUME PortsAssumption
  PROVE  AlarmSpec => []AlarmInv
<1>1. AlarmInit => AlarmInv
  <2> SUFFICES ASSUME AlarmInit PROVE AlarmInv
    BY Zenon
  <2>1. AlarmTypeOK
    BY DEF AlarmInit, AlarmTypeOK, Absent, Infos, Fresh, NoAudit, PortsAssumption
  <2>2. DownInv /\ RaisedInv
    BY Zenon DEF AlarmInit, DownInv, RaisedInv, Raised, Absent, Fresh
  <2>3. NumberInv /\ AuditInv
    BY Zenon DEF AlarmInit, NumberInv, AuditInv, Absent, NoAudit, Idle
  <2> QED
    BY <2>1, <2>2, <2>3, Zenon DEF AlarmInv
<1>2. AlarmInv /\ [AlarmNext]_alarmVars => AlarmInv'
  BY TypeStep, DownStep, RaisedStep, NumberStep, AuditStep, Zenon DEF AlarmInv
<1> QED
  BY <1>1, <1>2, PTL DEF AlarmSpec

----------------------------------------------------------------------------
(* The theorems.                                                             *)

\* A client that heard every notification knows the alarms the ONU keeps, and an
\* ONU that went down with no alarm under way keeps none (the UniStatusAlarm case of
\* ProcessOnuMessages, cleanupOnuState), whatever the ports and the length of the
\* queue.
THEOREM ClientAgrees ==
  ASSUME PortsAssumption
  PROVE  AlarmSpec => []Agreement
<1>1. AlarmInv => Agreement
  BY Zenon DEF AlarmInv, DownInv, RaisedInv, Agreement, Known
<1> QED
  BY <1>1, AlarmInvariant, PTL

\* The numbers a client hears have no gap, whatever the width of the number: one
\* that was not sent is taken back (IncrementAlarmSequenceNumber and
\* alarmInfo.SequenceNo--), and an audit starts them again.
THEOREM NumbersHaveNoGap ==
  ASSUME PortsAssumption
  PROVE  AlarmSpec => NoGap
<1> DEFINE Follows ==
      \A p \in Ports : "down" \in overtaken \/
         client'.last[p] \in {client.last[p], 0, 1, NextNumber(client.last[p])}
<1>1. AlarmInv /\ [AlarmNext]_alarmVars => [Follows]_alarmVars
  <2> SUFFICES ASSUME AlarmInv, AlarmNext PROVE Follows
    BY Zenon
  <2>1. AlarmTypeOK /\ NumberInv
    BY Zenon DEF AlarmInv
  <2>2. ASSUME NEW sent \in BOOLEAN, SendAlarm(sent) PROVE Follows
    <3> SUFFICES ASSUME "down" \notin overtaken, NEW p \in Ports
                 PROVE  client'.last[p] \in {client.last[p], 0, 1, NextNumber(client.last[p])}
      BY Zenon
    <3>1. handling.port \in Ports /\ ~Idle
      BY <2>1, <2>2, AlarmSent, Zenon
    <3>2. onu = "enabled" => handling.seq \in {1, NextNumber(client.last[handling.port])}
      BY <2>1, <3>1, Zenon DEF NumberInv
    <3> QED
      BY <2>1, <2>2, <3>1, <3>2, Zenon DEF SendAlarm, Notified, AlarmTypeOK
  <2>3. ASSUME NEW format \in {"baseline", "extended"}, GetAllAlarms(format) PROVE Follows
    BY <2>1, <2>3, AuditStarted, Zenon
  <2>4. ASSUME NEW coming, Cleanup(coming) PROVE Follows
    BY <2>1, <2>4, CleanedUp, Zenon
  <2>5. ASSUME UNCHANGED client PROVE Follows
    BY <2>5, Zenon
  <2>6. ASSUME NEW p \in Ports, Enable(p) \/ Disable(p) \/ DisableUni(p) PROVE UNCHANGED client
    BY <2>6, Zenon DEF Enable, Disable, DisableUni
  <2>7. ASSUME \/ CloseChannel \/ EnableOnu \/ TakeAlarm \/ GetAllAlarmsNext
               \/ \E raise \in BOOLEAN : SetAlarm(raise)
        PROVE  UNCHANGED client
    BY <2>7, Zenon DEF CloseChannel, EnableOnu, TakeAlarm, GetAllAlarmsNext, SetAlarm
  <2>8. ASSUME DisableOnu \/ DisablePon PROVE \E coming : Cleanup(coming)
    BY <2>8, Zenon DEF DisableOnu, DisablePon
  <2> QED
    BY <2>2, <2>3, <2>4, <2>5, <2>6, <2>7, <2>8, Zenon DEF AlarmNext
<1> QED
  BY <1>1, AlarmInvariant, PTL DEF AlarmSpec, NoGap

\* An audit that was answered to its end, with no alarm in between, has found every
\* alarm of the four instances (CreateGetAllAlarmsNextResponse), whatever the ports:
\* the answers that came name as many instances from the first as have an alarm, so
\* those are the ones that have one.
THEOREM AuditsAreExact ==
  ASSUME PortsAssumption
  PROVE  AlarmSpec => []AuditExact
<1>1. AlarmInv => AuditExact
  <2> SUFFICES ASSUME AlarmInv, audit.format \in {"baseline", "extended"},
                      audit.next = audit.number, audit.exact
               PROVE  audit.found = Raised \cap Audited
    BY Zenon DEF AuditExact
  <2> DEFINE S == Known \cap Audited
             n == audit.next
  <2>1. /\ n = Cardinality(S)
        /\ 0..(n - 1) \subseteq Known
        /\ audit.found = IF audit.format = "extended" /\ n > 0
                         THEN Raised \cap Audited ELSE Raised \cap 0..(n - 1)
    BY Zenon DEF AlarmInv, AuditInv
  <2>2. n \in 0..4 /\ IsFiniteSet(S)
    BY <2>1, AuditedIsFinite, Zenon
  <2>3. 0..(n - 1) \subseteq S
    BY <2>1, <2>2 DEF Audited
  <2>4. Cardinality(0..(n - 1)) = n
    <3> HIDE DEF n
    <3>1. 0 \in Int /\ n - 1 \in Int
      BY <2>2
    <3>2. Cardinality(0..(n - 1)) = IF 0 > n - 1 THEN 0 ELSE (n - 1) - 0 + 1
      BY <3>1, FS_Interval, Zenon
    <3> QED
      BY <2>2, <3>2
  <2>5. 0..(n - 1) = S
    BY <2>1, <2>2, <2>3, <2>4, FS_Subset, Zenon
  <2>6. Raised \subseteq Known
    BY Zenon DEF AlarmInv, DownInv, Raised, Known
  <2> QED
    BY <2>1, <2>5, <2>6, Zenon
<1> QED
  BY <1>1, AlarmInvariant, PTL
================================================================================
