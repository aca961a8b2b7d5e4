-------------------------- MODULE OtaClientProofs --------------------------
(***************************************************************************)
(* Theorems about OtaClient, for any number of versions, of power failures *)
(* and either configuration.                                               *)
(***************************************************************************)
EXTENDS OtaClient, TLAPS

(***************************************************************************)
(* Where the thread is says what the flash holds.                          *)
(***************************************************************************)
Updating   == {"erase", "download", "confirm", "mark", "reboot"}
Downloaded == {"confirm", "mark", "reboot"}

SwapIsLast    == swap => pc = "reboot"
UpdateIsNewer == pc \in Updating => manifest.ver > slot0.ver
ImageIsThere  == pc \in Downloaded => slot1.ver = manifest.ver /\ (manifest.sized => slot1.whole)
ConfirmedMark == pc \in {"mark", "reboot"} => confirmed
ConfirmedRun  == AutoConfirm /\ pc \notin {"init", "none"} => confirmed
KeptImage     == AutoConfirm => RevertPossible

IInv == /\ TypeOK
        /\ SwapIsLast /\ UpdateIsNewer /\ ImageIsThere
        /\ ConfirmedMark /\ ConfirmedRun /\ KeptImage

Bootable == [ver : Version, whole : {TRUE}]

\* What the two slots may hold, so that the steps need not open Images.
LEMMA SlotFacts ==
  /\ 1 \in Version
  /\ Erased \in Images /\ ~ Erased.whole
  /\ \A v \in Version, whole \in BOOLEAN :
       Image(v, whole) \in Images /\ Image(v, whole).ver = v /\ Image(v, whole).whole = whole
  /\ \A v \in Version : Image(v, TRUE) \in Bootable
  /\ \A image \in Images :
       /\ image.whole \in BOOLEAN /\ image.ver \in 0..MaxVer
       /\ image.whole => image \in Bootable
  /\ Bootable \subseteq Images
  /\ \A image \in Bootable : image.whole /\ image.ver \in Version
<1>1. 1 \in Version
  BY MaxVerNat DEF Version
<1>2. Erased \in Images /\ ~ Erased.whole
  BY DEF Erased, Images
<1>3. \A v \in Version, whole \in BOOLEAN :
        Image(v, whole) \in Images /\ Image(v, whole).ver = v /\ Image(v, whole).whole = whole
  BY DEF Image, Images
<1>4. \A v \in Version : Image(v, TRUE) \in Bootable
  BY DEF Image, Bootable
<1>5. ASSUME NEW image \in [ver : Version, whole : BOOLEAN]
      PROVE  /\ image.whole \in BOOLEAN /\ image.ver \in 0..MaxVer
             /\ image.whole => image \in Bootable
  <2>1. image = [ver |-> image.ver, whole |-> image.whole]
    OBVIOUS
  <2>2. image.whole \in BOOLEAN /\ image.ver \in 0..MaxVer /\ image.ver \in Version
    BY MaxVerNat DEF Version
  <2> QED BY <2>1, <2>2 DEF Bootable
<1>6. Erased.whole \in BOOLEAN /\ Erased.ver \in 0..MaxVer
  BY MaxVerNat DEF Erased
<1>7. Bootable \subseteq Images
  BY DEF Bootable, Images
<1>8. \A image \in Bootable : image.whole /\ image.ver \in Version
  BY DEF Bootable
<1> QED BY <1>1, <1>2, <1>3, <1>4, <1>5, <1>6, <1>7, <1>8 DEF Images

LEMMA ManifestFacts ==
  /\ NoManifest \in [ver : 0..MaxVer, sized : BOOLEAN]
  /\ \A v \in Version, sized \in BOOLEAN :
       [ver |-> v, sized |-> sized] \in [ver : 0..MaxVer, sized : BOOLEAN]
  BY MaxVerNat DEF NoManifest, Version

LEMMA InitInv == Init => IInv
<1> SUFFICES ASSUME Init PROVE IInv
  OBVIOUS
<1>1. TypeOK
  <2>1. slot0 \in Bootable /\ slot1 \in Images
    BY SlotFacts DEF Init
  <2>2. manifest \in [ver : 0..MaxVer, sized : BOOLEAN] /\ crashes \in 0..Crashes
    BY ManifestFacts, CrashesNat DEF Init
  <2> QED BY <2>1, <2>2 DEF Init, TypeOK, Bootable, Steps
<1>2. SwapIsLast /\ UpdateIsNewer /\ ImageIsThere /\ ConfirmedMark /\ ConfirmedRun /\ KeptImage
  BY DEF Init, SwapIsLast, UpdateIsNewer, ImageIsThere, ConfirmedMark, ConfirmedRun,
         KeptImage, RevertPossible, Updating, Downloaded
<1> QED BY <1>1, <1>2 DEF IInv

\* A reset, wanted or not, keeps an image to run and the one to go back to.
LEMMA BootInv ==
  ASSUME IInv, Boot, Reset, crashes' \in 0..Crashes
  PROVE  IInv'
<1>1. slot0 \in Bootable /\ slot1 \in Images /\ confirmed \in BOOLEAN /\ swap \in BOOLEAN
  BY DEF IInv, TypeOK, Bootable
<1>2. slot0' \in Bootable /\ slot1' \in Images /\ confirmed' \in BOOLEAN /\ swap' \in BOOLEAN
  BY <1>1, SlotFacts DEF Boot, flash
<1>3. TypeOK'
  BY <1>2, ManifestFacts DEF Reset, TypeOK, Bootable, Steps
<1>4. ~ swap'
  BY <1>1 DEF Boot, flash
<1>5. (SwapIsLast /\ UpdateIsNewer /\ ImageIsThere /\ ConfirmedMark /\ ConfirmedRun)'
  BY <1>4 DEF Reset, SwapIsLast, UpdateIsNewer, ImageIsThere, ConfirmedMark,
         ConfirmedRun, Updating, Downloaded
<1>6. KeptImage'
  <2>1. ~ confirmed' => slot1'.whole \/ ~ confirmed
    BY <1>1, SlotFacts DEF Boot, flash
  <2>2. AutoConfirm /\ ~ confirmed /\ ~ confirmed' => slot1'.whole
    BY <1>1, SlotFacts DEF Boot, flash, IInv, KeptImage, RevertPossible
  <2> QED BY <2>1, <2>2 DEF KeptImage, RevertPossible
<1> QED BY <1>3, <1>5, <1>6 DEF IInv

\* The steps between two resets.
LEMMA TypeStep ==
  ASSUME TypeOK, UpdateIsNewer, TriggerCheck \/ OtaThread, ~ Reboot
  PROVE  TypeOK'
<1> USE DEF TypeOK, Steps, flash
<1>1. CASE TriggerCheck
  BY <1>1 DEF TriggerCheck
<1>2. CASE OtaInit
  BY <1>2 DEF OtaInit
<1>3. CASE WaitForCheck
  BY <1>3 DEF WaitForCheck, Enter
<1>4. CASE CheckManifest
  <2>1. manifest' \in [ver : 0..MaxVer, sized : BOOLEAN]
    BY <1>4, ManifestFacts DEF CheckManifest, fetch_manifest_fails
  <2> QED BY <1>4, <2>1 DEF CheckManifest, fetch_manifest_fails, Enter, Fail
<1>5. CASE EraseSlot1
  BY <1>5, SlotFacts DEF EraseSlot1, Enter, Fail
<1>6. CASE Download
  <2>1. slot1' \in Images
    <3>1. manifest.ver \in Version
      BY <1>6 DEF Download, firmware_cb, UpdateIsNewer, Updating, Version
    <3> QED BY <1>6, <3>1, SlotFacts DEF Download, firmware_cb
  <2> QED BY <1>6, <2>1 DEF Download, firmware_cb, Enter, Fail
<1>7. CASE ConfirmRunning
  BY <1>7 DEF ConfirmRunning, Enter, Fail
<1>8. CASE RequestUpgrade
  BY <1>8 DEF RequestUpgrade, Enter, Fail
<1>9. CASE BackedOff
  BY <1>9 DEF BackedOff
<1> QED
  BY <1>1, <1>2, <1>3, <1>4, <1>5, <1>6, <1>7, <1>8, <1>9 DEF OtaThread

LEMMA NextInv == IInv /\ [Next]_vars => IInv'
<1> SUFFICES ASSUME IInv, [Next]_vars PROVE IInv'
  OBVIOUS
<1>1. CASE PowerFails
  <2>1. crashes' \in 0..Crashes
    BY <1>1, CrashesNat DEF PowerFails, IInv, TypeOK
  <2> QED BY <1>1, <2>1, BootInv DEF PowerFails
<1>2. CASE Reboot
  BY <1>2, BootInv DEF Reboot, IInv, TypeOK
<1>3. CASE (TriggerCheck \/ OtaThread) /\ ~ Reboot
  <2>1. TypeOK'
    BY <1>3, TypeStep DEF IInv
  <2>2. (SwapIsLast /\ UpdateIsNewer /\ ImageIsThere /\ ConfirmedMark /\ ConfirmedRun /\ KeptImage)'
    <3> USE DEF IInv, SwapIsLast, UpdateIsNewer, ImageIsThere, ConfirmedMark,
                ConfirmedRun, KeptImage, RevertPossible, Updating, Downloaded, flash
    <3>1. CASE TriggerCheck
      BY <3>1 DEF TriggerCheck
    <3>2. CASE OtaInit
      BY <3>2 DEF OtaInit
    <3>3. CASE WaitForCheck
      BY <3>3 DEF WaitForCheck, Enter
    <3>4. CASE CheckManifest
      BY <3>4 DEF CheckManifest, fetch_manifest_fails, Enter, Fail, Newer
    <3>5. CASE EraseSlot1
      BY <3>5 DEF EraseSlot1, Enter, Fail
    <3>6. CASE Download
      <4>1. manifest.ver \in Version
        BY <3>6 DEF Download, firmware_cb, Version, TypeOK
      <4> QED BY <3>6, <4>1, SlotFacts DEF Download, firmware_cb, Enter, Fail, Accepted
    <3>7. CASE ConfirmRunning
      BY <3>7 DEF ConfirmRunning, Enter, Fail
    <3>8. CASE RequestUpgrade
      BY <3>8 DEF RequestUpgrade, Enter, Fail
    <3>9. CASE BackedOff
      BY <3>9 DEF BackedOff
    <3> QED
      BY <1>3, <3>1, <3>2, <3>3, <3>4, <3>5, <3>6, <3>7, <3>8, <3>9 DEF OtaThread
  <2> QED BY <2>1, <2>2 DEF IInv
<1>4. CASE UNCHANGED vars
  BY <1>4 DEF vars, flash, IInv, TypeOK, SwapIsLast, UpdateIsNewer, ImageIsThere,
     ConfirmedMark, ConfirmedRun, KeptImage, RevertPossible
<1> QED
  BY <1>1, <1>2, <1>3, <1>4 DEF Next

LEMMA Invariant == Spec => []IInv
<1> QED BY InitInv, NextInv, PTL DEF Spec

\* The types of OtaClient, whatever fails.
THEOREM TypeCorrect == Spec => []TypeOK
<1>1. IInv => TypeOK
  BY DEF IInv
<1> QED BY <1>1, Invariant, PTL

\* With CONFIG_CEELL_OTA_AUTO_CONFIRM slot 1 holds the image to go back to as long
\* as the running one is on trial (ceell_ota_init, download_firmware).
THEOREM RevertStaysPossible == Spec => [](AutoConfirm => RevertPossible)
<1>1. IInv => (AutoConfirm => RevertPossible)
  BY DEF IInv, KeptImage
<1> QED BY <1>1, Invariant, PTL

\* What ceell_boot_request_upgrade marks is newer than what runs, and whole when
\* the manifest has a size (ota_check_and_update).
THEOREM SwapIsAnUpdate == Spec => [](MarkedIsNewer /\ MarkedIsWhole)
<1>1. IInv => MarkedIsNewer /\ MarkedIsWhole
  BY DEF IInv, SwapIsLast, UpdateIsNewer, ImageIsThere, Updating, Downloaded,
         MarkedIsNewer, MarkedIsWhole
<1> QED BY <1>1, Invariant, PTL

\* Only giving up an image on trial makes the running version older.
THEOREM NeverOlderVersion == Spec => NoDowngrade
<1>1. ASSUME IInv, [Next]_vars, slot0'.ver < slot0.ver
      PROVE  ~ confirmed
  <2>1. slot0' # slot0
    BY <1>1 DEF IInv, TypeOK, Version
  <2>2. Boot
    BY <1>1, <2>1 DEF Next, OtaThread, PowerFails, Reboot, TriggerCheck, OtaInit,
         WaitForCheck, CheckManifest, EraseSlot1, Download, ConfirmRunning,
         RequestUpgrade, BackedOff, vars, flash, fetch_manifest_fails
  <2>3. ~ swap
    BY <1>1, <2>1, <2>2 DEF Boot, flash, IInv, SwapIsLast, UpdateIsNewer, ImageIsThere,
         TypeOK, Updating, Downloaded, Version, Images
  <2> QED BY <2>1, <2>2, <2>3 DEF Boot, flash
<1>2. IInv /\ [Next]_vars => [slot0'.ver < slot0.ver => ~ confirmed]_vars
  BY <1>1
<1> QED BY <1>2, Invariant, PTL DEF Spec, NoDowngrade
=============================================================================
