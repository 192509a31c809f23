---------------------------- MODULE FirmwareBoot -----------------------------
(***************************************************************************)
(* Start-up, the hardware profile and over-the-air updates                 *)
(* (windpeek_main.c, hardware_profile.c, wind_ota.c).  One task walks from *)
(* the bootloader to the forecast and on to the daily update check, the    *)
(* installer and the clock change beside it, and a reset, which deep sleep *)
(* is too, may fall between any two of its steps.                          *)
(***************************************************************************)
EXTENDS Integers

CONSTANTS
  MaxRelease,  \* releases 1..MaxRelease are the ones the site may offer
  MaxNow,      \* bound of the clock; 0 is a clock that is not set
  Day,         \* ota_interval_elapsed's 86400 seconds
  MaxFaults,   \* flash writes that fail
  HasProfile   \* a universal build, which needs the stored hardware model

ASSUME BootAssumption ==
  /\ MaxRelease \in Nat \ {0} /\ MaxNow \in Nat
  /\ Day \in Nat \ {0} /\ MaxFaults \in Nat
  /\ HasProfile \in BOOLEAN

VARIABLES
  image,     \* the release each slot holds, 0 when it is not a whole image
  state,     \* its esp_ota_img_states_t
  sel,       \* the slot the bootloader is to start
  sequence,  \* "sequence" of the wind_ota namespace
  lastCheck, \* "last_check"
  profile,   \* the ACTIVE hardware record
  now,       \* the system clock
  faults,    \* what is left of MaxFaults
  pc, run,   \* where the main task is and the slot it runs from
  seen,      \* s_boot_state
  installer, \* power_manager_is_installer_active
  seq, offer, \* wind_ota_maybe_update's sequence and release.sequence
  failed,    \* observers: the releases that were dropped,
  asked,     \* the time of the last network check since the clock went back,
  refused,   \* a rollback that returned in this boot
  lost       \* and a panel failure that could not be recorded

flash  == <<image, state, sel>>
update == <<sequence, lastCheck, seq, offer>>
seers  == <<failed, asked, refused, lost>>
vars   == <<flash, update, profile, now, faults, pc, run, seen, installer, seers>>

Slots    == {0, 1}
Other(s) == 1 - s
Releases == 1..MaxRelease
Clock    == 0..MaxNow

Boot   == {"off", "profile", "board", "undo", "latch", "recovery"}
App    == {"refresh", "unhealthy", "confirm", "app"}
Update == {"check", "fetch", "begin", "load", "store", "select", "restart"}

(* The installer service runs from here on.                                *)
Served == {"recovery"} \cup App \cup Update

Pending == state[run] = "pending"

(* The first image and a profile come by USB.                              *)
Init ==
  /\ \E r \in Releases : image = [s \in Slots |-> IF s = 0 THEN r ELSE 0]
  /\ state = [s \in Slots |-> "valid"]
  /\ sel = 0 /\ run = 0 /\ pc = "off"
  /\ sequence = 0 /\ lastCheck = 0
  /\ profile = [known |-> FALSE, latched |-> FALSE]
  /\ seen = [known |-> FALSE, latched |-> FALSE, safe |-> FALSE]
  /\ now \in Clock /\ faults = MaxFaults
  /\ installer = FALSE
  /\ seq = 0 /\ offer = 0
  /\ failed = {} /\ asked = 0 /\ refused = FALSE /\ lost = FALSE

-----------------------------------------------------------------------------
(* What the steps are made of.                                             *)

Goto(p) == pc' = p

(* A flash write that fails takes one of the faults.                       *)
Fault == faults > 0 /\ faults' = faults - 1
Done  == UNCHANGED faults

(* The running image is given up and the other one selected.               *)
Drop ==
  /\ state' = [state EXCEPT ![run] = "dropped"]
  /\ failed' = failed \cup {image[run]}
  /\ sel' = Other(run)

(* hardware_profile_can_use_panel and ..._for_fixed_model.                 *)
AllowsPanel(s) == ~s.safe /\ ~s.latched /\ (HasProfile => s.known)

(* hardware_profile_allows_setup of the installer service.                 *)
AllowsSetup(s) == HasProfile => s.known /\ ~s.safe /\ ~s.latched

-----------------------------------------------------------------------------
(* From the bootloader to the first refresh.                               *)

(* The rollback bootloader: a new image gets one start to prove itself.    *)
Start ==
  /\ pc = "off" /\ image[sel] # 0
  /\ \/ /\ state[sel] = "valid"
        /\ run' = sel
        /\ UNCHANGED <<flash, failed>>
     \/ /\ state[sel] = "new"
        /\ run' = sel
        /\ state' = [state EXCEPT ![sel] = "pending"]
        /\ UNCHANGED <<image, sel, failed>>
     \/ /\ state[sel] = "pending"
        /\ state' = [state EXCEPT ![sel] = "dropped"]
        /\ failed' = failed \cup {image[sel]}
        /\ sel' = Other(sel) /\ run' = Other(sel)
        /\ UNCHANGED image
  /\ Goto("profile")
  /\ refused' = FALSE /\ lost' = FALSE
  /\ UNCHANGED <<update, profile, now, faults, seen, installer, asked>>

(* The side buttons may be held; without a usable panel only the installer *)
(* service is started.                                                     *)
ProfileBoot(safe) ==
  /\ pc = "profile"
  /\ seen' = [known |-> profile.known, latched |-> profile.latched, safe |-> safe]
  /\ Goto(IF AllowsPanel(seen') THEN "board" ELSE "recovery")
  /\ UNCHANGED <<flash, update, profile, now, faults, run, installer, seers>>

Board_latches(ok) ==  \* mutant: the failure is latched before the rollback
  /\ pc = "board"
  /\ Goto(IF ok THEN "refresh" ELSE "latch")
  /\ UNCHANGED <<flash, update, profile, now, faults, run, seen, installer, seers>>

Board(ok) ==
  /\ pc = "board"
  /\ Goto(IF ok THEN "refresh" ELSE "undo")
  /\ UNCHANGED <<flash, update, profile, now, faults, run, seen, installer, seers>>

FirstRefresh(ok) ==
  /\ pc = "refresh"
  /\ Goto(IF ok THEN "confirm" ELSE "unhealthy")
  /\ UNCHANGED <<flash, update, profile, now, faults, run, seen, installer, seers>>

(* wind_ota_finish_boot(false); the rollback restarts unless it is refused.*)
RollBack ==
  /\ pc \in {"undo", "unhealthy"} /\ Pending
  /\ Drop
  /\ Goto("off") /\ installer' = FALSE
  /\ UNCHANGED <<image, update, profile, now, faults, run, seen, asked, refused, lost>>

KeepRunning ==
  /\ pc \in {"undo", "unhealthy"}
  /\ IF Pending THEN Fault ELSE Done
  /\ refused' = Pending
  /\ Goto(IF pc = "undo" THEN "latch" ELSE "check")
  /\ UNCHANGED <<flash, update, profile, now, run, seen, installer, failed, asked, lost>>

(* hardware_profile_record_driver_failure, only for a stored model.  A     *)
(* write that fails may have reached the flash.                            *)
Latch_unseen ==  \* mutant: s_boot_state is not refreshed
  /\ pc = "latch"
  /\ IF seen.known
     THEN \/ /\ Done
             /\ profile' = [profile EXCEPT !.latched = TRUE]
             /\ UNCHANGED <<seen, lost>>
          \/ /\ Fault
             /\ \E l \in BOOLEAN : profile' = [profile EXCEPT !.latched = l]
             /\ lost' = TRUE
             /\ UNCHANGED seen
     ELSE Done /\ UNCHANGED <<profile, seen, lost>>
  /\ Goto("recovery")
  /\ UNCHANGED <<flash, update, now, run, installer, failed, asked, refused>>

Latch ==
  /\ pc = "latch"
  /\ IF seen.known
     THEN \/ /\ Done
             /\ profile' = [profile EXCEPT !.latched = TRUE]
             /\ seen' = [known |-> TRUE, latched |-> TRUE, safe |-> FALSE]
             /\ UNCHANGED lost
          \/ /\ Fault
             /\ \E l \in BOOLEAN : profile' = [profile EXCEPT !.latched = l]
             /\ lost' = TRUE
             /\ UNCHANGED seen
     ELSE Done /\ UNCHANGED <<profile, seen, lost>>
  /\ Goto("recovery")
  /\ UNCHANGED <<flash, update, now, run, installer, failed, asked, refused>>

(* wind_ota_finish_boot(true); a mark that fails is ignored.               *)
Confirm ==
  /\ pc = "confirm"
  /\ \/ /\ Pending /\ Done
        /\ state' = [state EXCEPT ![run] = "valid"]
     \/ Pending /\ Fault /\ UNCHANGED state
     \/ ~Pending /\ Done /\ UNCHANGED state
  /\ Goto("check")
  /\ UNCHANGED <<image, sel, update, profile, now, run, seen, installer, seers>>

-----------------------------------------------------------------------------
(* wind_ota_maybe_update, after the first refresh and after every other.   *)

DashboardTurn ==
  /\ pc = "app" /\ ~installer
  /\ Goto("check")
  /\ UNCHANGED <<flash, update, profile, now, faults, run, seen, installer, seers>>

Elapsed == lastCheck <= 0 \/ now < lastCheck \/ now - lastCheck >= Day

(* Offline, on a low battery, or too early: nothing is done.               *)
SkipCheck ==
  /\ pc = "check"
  /\ Goto("app")
  /\ UNCHANGED <<flash, update, profile, now, faults, run, seen, installer, seers>>

StoreCheck_later ==  \* mutant: last_check is kept until the release is there
  /\ pc = "check" /\ now > 0 /\ ~installer /\ Elapsed
  /\ Done /\ Goto("fetch")
  /\ seq' = IF sequence < image[run] THEN image[run] ELSE sequence
  /\ asked' = now
  /\ UNCHANGED <<flash, sequence, lastCheck, offer, profile, now, run, seen, installer,
                 failed, refused, lost>>

StoreCheck ==
  /\ pc = "check" /\ now > 0 /\ ~installer /\ Elapsed
  /\ \/ Done /\ Goto("fetch") /\ lastCheck' = now /\ asked' = now
     \/ Fault /\ Goto("app") /\ lastCheck' \in {lastCheck, now} /\ UNCHANGED asked
  /\ seq' = IF sequence < image[run] THEN image[run] ELSE sequence
  /\ UNCHANGED <<flash, sequence, offer, profile, now, run, seen, installer, failed,
                 refused, lost>>

(* latest.json and its manifest; the site may name any release.            *)
Fetched(r) ==
  /\ pc = "fetch"
  /\ offer' = r
  /\ Goto(IF r > seq THEN "begin" ELSE "app")
  /\ UNCHANGED <<flash, sequence, lastCheck, seq, profile, now, faults, run, seen,
                 installer, seers>>

(* Any of the three downloads fails or does not verify.                    *)
NotFetched ==
  /\ pc \in {"fetch", "load"}
  /\ Goto("app")
  /\ UNCHANGED <<flash, update, profile, now, faults, run, seen, installer, seers>>

(* esp_ota_begin erases the other slot, not while the running one is on    *)
(* trial itself.                                                           *)
Begin_trial ==  \* mutant: an image on trial may erase the one to go back to
  /\ pc = "begin"
  /\ IF installer
     THEN Goto("app") /\ UNCHANGED image
     ELSE Goto("load") /\ image' = [image EXCEPT ![Other(run)] = 0]
  /\ UNCHANGED <<state, sel, update, profile, now, faults, run, seen, installer, seers>>

Begin ==
  /\ pc = "begin"
  /\ IF installer \/ Pending
     THEN Goto("app") /\ UNCHANGED image
     ELSE Goto("load") /\ image' = [image EXCEPT ![Other(run)] = 0]
  /\ UNCHANGED <<state, sel, update, profile, now, faults, run, seen, installer, seers>>

(* The whole image is verified; the installer is looked at a last time.    *)
Loaded ==
  /\ pc = "load"
  /\ image' = [image EXCEPT ![Other(run)] = offer]
  /\ Goto(IF installer THEN "app" ELSE "store")
  /\ UNCHANGED <<state, sel, update, profile, now, faults, run, seen, installer, seers>>

StoreSequence_skipped ==  \* mutant: the sequence is not kept
  /\ pc = "store"
  /\ Done /\ Goto("select")
  /\ UNCHANGED <<flash, update, profile, now, run, seen, installer, seers>>

StoreSequence ==
  /\ pc = "store"
  /\ \/ Done /\ Goto("select") /\ sequence' = offer
     \/ Fault /\ Goto("app") /\ sequence' \in {sequence, offer}
  /\ UNCHANGED <<flash, lastCheck, seq, offer, profile, now, run, seen, installer,
                 seers>>

(* The release stays eligible when it cannot be selected.                  *)
SelectSlot ==
  /\ pc = "select"
  /\ \/ /\ Done /\ Goto("restart")
        /\ sel' = Other(run) /\ state' = [state EXCEPT ![Other(run)] = "new"]
        /\ UNCHANGED sequence
     \/ /\ Fault /\ Goto("app")
        /\ sequence' \in {seq, sequence}
        /\ UNCHANGED <<sel, state>>
  /\ UNCHANGED <<image, lastCheck, seq, offer, profile, now, run, seen, installer,
                 seers>>

-----------------------------------------------------------------------------
(* What happens beside it.                                                 *)

(* esp_restart of the update, a crash, deep sleep, a flat battery.         *)
Reset ==
  /\ pc # "off"
  /\ Goto("off") /\ installer' = FALSE
  /\ UNCHANGED <<flash, update, profile, now, faults, run, seen, seers>>

SetClock(t) ==
  /\ now' = t
  /\ asked' = IF t < now THEN 0 ELSE asked
  /\ UNCHANGED <<flash, update, profile, faults, pc, run, seen, installer, failed, refused,
                 lost>>

InstallerSession(on) ==
  /\ pc \in Served
  /\ installer' = on
  /\ UNCHANGED <<flash, update, profile, now, faults, pc, run, seen, seers>>

(* hardware_profile_select, once; the device is to be restarted for it.    *)
SelectModel ==
  /\ HasProfile
  /\ pc \in Served /\ installer /\ ~profile.known
  /\ profile' = [profile EXCEPT !.known = TRUE]
  /\ UNCHANGED <<flash, update, now, faults, pc, run, seen, installer, seers>>

Running ==
  \/ Start \/ RollBack \/ KeepRunning \/ Latch \/ Confirm
  \/ DashboardTurn \/ SkipCheck \/ StoreCheck \/ NotFetched \/ Begin \/ Loaded
  \/ StoreSequence \/ SelectSlot
  \/ \E yes \in BOOLEAN : ProfileBoot(yes) \/ Board(yes) \/ FirstRefresh(yes)
  \/ \E r \in Releases : Fetched(r)

Next ==
  \/ Running
  \/ Reset \/ SelectModel
  \/ \E t \in Clock : SetClock(t)
  \/ \E on \in BOOLEAN : InstallerSession(on)

Spec == Init /\ [][Next]_vars

-----------------------------------------------------------------------------
(* The variables hold what the code's types hold.                          *)
BootTypeOK ==
  /\ image \in [Slots -> 0..MaxRelease]
  /\ state \in [Slots -> {"valid", "new", "pending", "dropped"}]
  /\ sel \in Slots /\ run \in Slots
  /\ sequence \in 0..MaxRelease /\ seq \in 0..MaxRelease /\ offer \in 0..MaxRelease
  /\ lastCheck \in Clock /\ asked \in Clock /\ now \in Clock
  /\ profile \in [known : BOOLEAN, latched : BOOLEAN]
  /\ seen \in [known : BOOLEAN, latched : BOOLEAN, safe : BOOLEAN]
  /\ faults \in 0..MaxFaults
  /\ pc \in Boot \cup App \cup Update
  /\ installer \in BOOLEAN /\ refused \in BOOLEAN /\ lost \in BOOLEAN
  /\ failed \in SUBSET Releases

(* Whatever step a reset falls after, the slot that is started next holds  *)
(* a whole image, and one that has not proved itself leaves a whole,       *)
(* proved one to go back to (wind_ota.c:202-264, :322-335).                *)
Proved(s) == image[s] # 0 /\ state[s] = "valid"
FallbackKept == image[sel] # 0 /\ (~Proved(sel) => Proved(Other(sel)))

(* A new release cannot make the panel unusable for the one it replaced:   *)
(* a panel failure is latched by a proved image only, or after a rollback  *)
(* that returned (windpeek_main.c:681-690).                                *)
LatchInnocent ==
  [][profile'.latched /\ ~profile.latched => state[run] = "valid" \/ refused]_vars

(* The network is asked once a day, across resets and failed downloads,    *)
(* unless the clock went back (wind_ota.c:96-107, :285).                  *)
OncePerDay ==
  [][pc = "check" /\ Goto("fetch")
       => asked = 0 \/ now - asked >= Day]_vars

(* A device that left its panel alone serves no setup command, which would *)
(* draw on it, unless the failure could not be recorded                    *)
(* (wind_installer_service.c:303-313, windpeek_main.c:649-695).            *)
RecoveryBlocked == pc = "recovery" /\ HasProfile /\ ~lost => ~AllowsSetup(seen)

(* An update restarts the device "outside installer activity"              *)
(* (firmware/README.md:85); the last look is before the sequence is kept.  *)
RestartSpares == [][pc = "restart" /\ Goto("off") => ~installer]_vars

(* The release that works, the one on trial and the ones that were dropped *)
(* go as UpdateTrack allows (wind_ota.c:135-150, :322-335).                *)
OnTrial == state[sel] \in {"new", "pending"}
Track == INSTANCE UpdateTrack WITH
  good     <- IF OnTrial THEN image[Other(sel)] ELSE image[sel],
  trial    <- IF OnTrial THEN image[sel] ELSE 0,
  rejected <- failed
TrackSpec == Track!TrackSpec
=============================================================================
