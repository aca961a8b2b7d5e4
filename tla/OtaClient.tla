----------------------------- MODULE OtaClient -----------------------------
(***************************************************************************)
(* The OTA thread of ceell/ota/ota_client.c and the flash it shares with   *)
(* MCUboot: it polls a manifest, downloads a newer image to slot 1,        *)
(* confirms the image that runs, marks the new one for a test swap and     *)
(* reboots.  Power may fail between any two steps; RAM is lost then, the   *)
(* two slots and their flags are not.                                      *)
(***************************************************************************)
EXTENDS Integers

CONSTANTS
  MaxVer,       \* bound: the newest version the server ever publishes
  AutoConfirm,  \* CONFIG_CEELL_OTA_AUTO_CONFIRM
  Crashes       \* bound: power failures in a behaviour

ASSUME MaxVerNat       == MaxVer \in Nat \ {0}
ASSUME AutoConfirmBool == AutoConfirm \in BOOLEAN
ASSUME CrashesNat      == Crashes \in Nat

VARIABLES
  slot0,      \* the image that runs
  slot1,      \* the secondary slot: an image, whole or not, or Erased
  confirmed,  \* image_ok of slot 0: ceell_boot_is_confirmed
  swap,       \* a test swap is requested
  ota,        \* current_state, what the "status" command answers
  pc,         \* where the OTA thread is; "none": it was not started
  manifest,   \* the version and whether a size was in the manifest
  trigger,    \* check_trigger, a semaphore of limit 1
  crashes     \* power failures so far

flash == <<slot0, slot1, confirmed, swap>>
vars  == <<flash, ota, pc, manifest, trigger, crashes>>

Version == 1..MaxVer
Erased  == [ver |-> 0, whole |-> FALSE]
Image(v, whole) == [ver |-> v, whole |-> whole]
NoManifest == [ver |-> 0, sized |-> FALSE]

\* RAM after a reset: main has registered the "ota" service, not yet called
\* ceell_ota_init.
Reset ==
  /\ ota' = "IDLE" /\ pc' = "init" /\ manifest' = NoManifest /\ trigger' = 0

Init ==
  /\ slot0 = Image(1, TRUE) /\ slot1 = Erased /\ confirmed = TRUE /\ swap = FALSE
  /\ ota = "IDLE" /\ pc = "init" /\ manifest = NoManifest /\ trigger = 0
  /\ crashes = 0

(***************************************************************************)
(* MCUboot at a reset: a requested swap of a valid image exchanges the     *)
(* slots on trial; an image on trial that was not confirmed is exchanged   *)
(* back, if what is in slot 1 is still an image.                           *)
(***************************************************************************)
Boot ==
  \/ /\ swap /\ slot1.whole
     /\ slot0' = slot1 /\ slot1' = slot0 /\ confirmed' = FALSE /\ swap' = FALSE
  \/ /\ swap /\ ~ slot1.whole
     /\ slot1' = Erased /\ swap' = FALSE /\ UNCHANGED <<slot0, confirmed>>
  \/ /\ ~ swap /\ ~ confirmed /\ slot1.whole
     /\ slot0' = slot1 /\ slot1' = slot0 /\ confirmed' = TRUE /\ UNCHANGED swap
  \/ /\ ~ swap /\ (confirmed \/ ~ slot1.whole)
     /\ UNCHANGED flash

PowerFails ==
  /\ crashes < Crashes
  /\ crashes' = crashes + 1
  /\ Boot /\ Reset

(***************************************************************************)
(* ceell_ota_init: confirm the image if so configured, then the semaphore  *)
(* and the thread; main goes on without OTA if it fails.                   *)
(***************************************************************************)
\* Mutant: a failed confirmation does not keep the thread from starting.
OtaInit_ignoresFailure ==
  /\ pc = "init"
  /\ confirmed' \in (IF AutoConfirm THEN {confirmed, TRUE} ELSE {confirmed})
  /\ pc' = "wait" /\ trigger' = 0
  /\ UNCHANGED <<slot0, slot1, swap, ota, manifest, crashes>>

OtaInit ==
  /\ pc = "init"
  /\ \/ /\ ~ AutoConfirm \/ confirmed
        /\ pc' = "wait" /\ trigger' = 0 /\ UNCHANGED confirmed
     \/ /\ AutoConfirm /\ ~ confirmed
        /\ \/ confirmed' = TRUE /\ pc' = "wait" /\ trigger' = 0
           \/ pc' = "none" /\ UNCHANGED <<confirmed, trigger>>
  /\ UNCHANGED <<slot0, slot1, swap, ota, manifest, crashes>>

\* The "check" command, in a message handler: before ceell_sem_init the
\* semaphore's limit is 0 and giving it does nothing.
TriggerCheck ==
  /\ trigger' = IF pc \in {"init", "none"} THEN trigger ELSE 1
  /\ UNCHANGED <<flash, ota, pc, manifest, crashes>>

(***************************************************************************)
(* ota_thread_entry and ota_check_and_update.                              *)
(***************************************************************************)
Enter(state, step) == ota' = state /\ pc' = step

\* A check that fails backs off before the thread waits again.
Fail(state) == Enter(state, "backoff")

\* The semaphore is there, or the interval elapses.
WaitForCheck ==
  /\ pc = "wait"
  /\ trigger' = 0
  /\ Enter("CHECKING", "check")
  /\ UNCHANGED <<flash, manifest, crashes>>

\* Mutant: any version but the running one is an update.
Newer_different(v) == v # slot0.ver

Newer(v) == v > slot0.ver

\* No connection, no answer, too long a manifest, or not the JSON expected.
fetch_manifest_fails == Fail("IDLE") /\ UNCHANGED manifest

\* The manifest is had, with a version that parses and is newer, or not; a version
\* that does not parse ends the check like a failed fetch.
CheckManifest ==
  /\ pc = "check"
  /\ \/ fetch_manifest_fails
     \/ \E v \in Version, sized \in BOOLEAN :
          /\ manifest' = [ver |-> v, sized |-> sized]
          /\ \/ ~ Newer(v) /\ Enter("IDLE", "wait")
             \/ Newer(v) /\ Enter("DOWNLOADING", "erase")
  /\ UNCHANGED <<flash, trigger, crashes>>

\* download_firmware up to the connection: a bad url or slot 1 that does not open
\* leaves it as it was; a failed erase, stream or connection does not.
EraseSlot1 ==
  /\ pc = "erase"
  /\ \/ Fail("ERROR") /\ UNCHANGED slot1
     \/ /\ slot1' = Erased
        /\ Fail("ERROR") \/ Enter("DOWNLOADING", "download")
  /\ UNCHANGED <<slot0, confirmed, swap, manifest, trigger, crashes>>

\* Mutant: the size is not compared.
Accepted_any(whole) == TRUE

\* A body that ended early is noticed by its size, if the manifest has one.
Accepted(whole) == whole \/ ~ manifest.sized

\* What the fragments received wrote, and the final flush.
firmware_cb(whole) == slot1' = Image(manifest.ver, whole)

\* The body arrives, all of it or not; or the request or a write fails.
Download ==
  /\ pc = "download"
  /\ \E whole \in BOOLEAN :
       /\ firmware_cb(whole)
       /\ \/ Fail("ERROR")
          \/ Accepted(whole) /\ Enter("VALIDATING", "confirm")
  /\ UNCHANGED <<slot0, confirmed, swap, manifest, trigger, crashes>>

ConfirmRunning ==
  /\ pc = "confirm"
  /\ \/ confirmed' = TRUE /\ Enter("MARKING", "mark")
     \/ ~ confirmed /\ UNCHANGED confirmed /\ Fail("ERROR")
  /\ UNCHANGED <<slot0, slot1, swap, manifest, trigger, crashes>>

RequestUpgrade ==
  /\ pc = "mark"
  /\ \/ swap' = TRUE /\ Enter("REBOOTING", "reboot")
     \/ UNCHANGED swap /\ Fail("ERROR")
  /\ UNCHANGED <<slot0, slot1, confirmed, manifest, trigger, crashes>>

Reboot == pc = "reboot" /\ Boot /\ Reset /\ UNCHANGED crashes

\* Mutant: the backoff never ends.
BackedOff_never == pc = "backoff" /\ UNCHANGED vars

BackedOff ==
  /\ pc = "backoff"
  /\ pc' = "wait"
  /\ UNCHANGED <<flash, ota, manifest, trigger, crashes>>

OtaThread ==
  \/ OtaInit \/ WaitForCheck \/ CheckManifest \/ EraseSlot1 \/ Download
  \/ ConfirmRunning \/ RequestUpgrade \/ Reboot \/ BackedOff

Next == PowerFails \/ TriggerCheck \/ OtaThread

Spec == Init /\ [][Next]_vars

\* Intervals and backoffs elapse, and requests have timeouts.
FairSpec == Spec /\ WF_vars(OtaThread)

(***************************************************************************)
(* Properties.                                                             *)
(***************************************************************************)
Images == [ver : Version, whole : BOOLEAN] \cup {Erased}
Steps  == {"init", "none", "wait", "check", "erase", "download", "confirm", "mark", "reboot", "backoff"}

TypeOK ==
  /\ slot0 \in [ver : Version, whole : {TRUE}] /\ slot1 \in Images
  /\ confirmed \in BOOLEAN /\ swap \in BOOLEAN
  /\ ota \in {"IDLE", "CHECKING", "DOWNLOADING", "VALIDATING", "MARKING", "REBOOTING", "ERROR"}
  /\ pc \in Steps
  /\ manifest \in [ver : 0..MaxVer, sized : BOOLEAN]
  /\ trigger \in {0, 1} /\ crashes \in 0..Crashes

\* While an image is on trial slot 1 still holds the image it replaced, so that
\* MCUboot can go back to it (CONFIG_CEELL_OTA_AUTO_CONFIRM).
RevertPossible == ~ confirmed => slot1.whole

\* A swap is only ever requested of an image newer than the one that runs.
MarkedIsNewer == swap => slot1.ver > slot0.ver

\* ... and of a whole one when the manifest gave its size (REQ-OTA-003).
MarkedIsWhole == pc = "reboot" /\ manifest.sized => slot1.whole

\* No failure at any step makes the node run an older version, except when an
\* image on trial is given up (REQ-OTA-002).
NoDowngrade == [][slot0'.ver < slot0.ver => ~ confirmed]_vars

\* Unless it was not started the thread checks for updates again and again,
\* whatever fails.
KeepsChecking == []<>(ota = "CHECKING" \/ pc = "none")
=============================================================================
