--------------------------- MODULE InstallerDevice ---------------------------
(***************************************************************************)
(* Setup on the device (wind_installer_service.c, wind_installer_device.c):*)
(* the UART task serves a client's commands, the apply task previews and   *)
(* commits what the client staged, and each may be cut off at any step by  *)
(* a restart that only the stored record survives.                         *)
(***************************************************************************)
EXTENDS Naturals

CONSTANTS
  Configs, Networks, NoConfig, NoNet,
  MaxFaults  \* storage or memory failures during one apply, at most one

ASSUME InstallerAssumption ==
  NoConfig \notin Configs /\ NoNet \notin Networks /\ MaxFaults \in {0, 1}

VARIABLES
  stored,   \* the ACTIVE record of the flash
  running,  \* the configuration that the runtime works with
  net,      \* the network the station is set up for; its link may be down
  trial,    \* candidate_wifi_active
  prev,     \* the credentials to go back to after a trial, or NoNet
  staged,   \* the candidate, or NoConfig
  creds,    \* the tested credentials, NoNet unless wifi_ready
  ack,      \* completion_ack_required
  lock,     \* wake_lock_held
  apply,    \* apply_state
  at,       \* where the apply task is
  job,      \* its copy of the candidate and the credentials
  result,   \* its final_state
  faults,   \* what is left of MaxFaults
  cable,    \* USB power
  old,      \* the setup the last apply found; physical_commit's previous
  goal      \* observer: the setup it is to store

radio   == <<net, trial, prev>>
service == <<staged, creds, ack, lock>>
task    == <<apply, at, job, result, faults>>
seen    == <<old, goal>>
deviceVars == <<stored, running, radio, service, task, cable, seen>>

Wifi   == Networks \cup {NoNet}
Setups == [config : Configs, wifi : Wifi]
NoJob  == [config |-> NoConfig, wifi |-> NoNet]
Results == {"complete", "render_failed", "commit_failed"}
Stages == {"wait", "render", "activate", "persist", "reload", "undo", "revert",
           "failed", "report", "publish"}

Busy == apply = "applying"

(* installed_configuration_promote_setup: credentials that are not given   *)
(* are those of the ACTIVE record.  The CANDIDATE record it writes first   *)
(* is read nowhere, so that the set of the ACTIVE one is the commit.       *)
Promoted(c, w) == [config |-> c, wifi |-> IF w = NoNet THEN stored.wifi ELSE w]

DeviceInit ==
  /\ stored \in Setups
  /\ running = stored.config
  /\ net = stored.wifi /\ trial = FALSE /\ prev = NoNet
  /\ staged = NoConfig /\ creds = NoNet /\ ack = FALSE /\ lock = FALSE
  /\ apply = "idle" /\ at = "wait"
  /\ job = NoJob /\ result = "complete"
  /\ faults = MaxFaults /\ cable = TRUE
  /\ old = stored /\ goal = stored

-----------------------------------------------------------------------------
(* The pieces that the handlers are made of.                               *)

FinishSession == creds' = NoNet /\ ack' = FALSE /\ lock' = FALSE

(* prev is NoNet exactly where the code would disconnect.                  *)
PhysicalAbort ==
  /\ net' = IF trial THEN prev ELSE net
  /\ trial' = FALSE
  /\ prev' = IF trial THEN NoNet ELSE prev

Timeout == staged' = NoConfig /\ PhysicalAbort /\ FinishSession

(* Only hello and the two reads are served during an apply.                *)
Command == cable /\ ~Busy

-----------------------------------------------------------------------------
(* Commands.                                                               *)

Hello ==
  /\ cable
  /\ lock' = TRUE
  /\ UNCHANGED <<stored, running, radio, staged, creds, ack, task, cable, seen>>

Begin(withAck) ==
  /\ Command
  /\ ack' = withAck /\ lock' = TRUE
  /\ UNCHANGED <<stored, running, radio, staged, creds, task, cable, seen>>

Stage(c) ==
  /\ Command
  /\ staged' = c
  /\ UNCHANGED <<stored, running, radio, creds, ack, lock, task, cable, seen>>

(* The last trial is undone before the next one remembers what to restore. *)
TestWifi_kept(w, ok) ==  \* mutant: a rejected network is not left again
  /\ Command
  /\ creds' = IF ok THEN w ELSE NoNet
  /\ net' = w
  /\ trial' = ok
  /\ prev' = IF ok THEN stored.wifi ELSE NoNet
  /\ UNCHANGED <<stored, running, staged, ack, lock, task, cable, seen>>

TestWifi(w, ok) ==
  /\ Command
  /\ creds' = IF ok THEN w ELSE NoNet
  /\ net' = IF ok THEN w ELSE stored.wifi
  /\ trial' = ok
  /\ prev' = IF ok THEN stored.wifi ELSE NoNet
  /\ UNCHANGED <<stored, running, staged, ack, lock, task, cable, seen>>

RejectWifi ==
  /\ Command
  /\ PhysicalAbort /\ creds' = NoNet
  /\ UNCHANGED <<stored, running, staged, ack, lock, task, cable, seen>>

(* The apply starts when its acknowledgement has left the UART.            *)
Apply ==
  /\ Command /\ staged # NoConfig
  /\ job' = [config |-> staged, wifi |-> creds]
  /\ apply' = "applying" /\ at' = "render" /\ faults' = MaxFaults
  /\ old' = stored /\ goal' = Promoted(staged, creds)
  /\ UNCHANGED <<stored, running, radio, service, result, cable>>

ApplyUnacknowledged ==
  /\ Command /\ staged # NoConfig
  /\ PhysicalAbort /\ creds' = NoNet
  /\ job' = NoJob
  /\ apply' = "commit_failed"
  /\ UNCHANGED <<stored, running, staged, ack, lock, at, result, faults, cable, seen>>

FinishSetup ==
  /\ Command /\ staged = NoConfig
  /\ FinishSession
  /\ UNCHANGED <<stored, running, radio, staged, task, cable, seen>>

Cancel ==
  /\ Command
  /\ Timeout
  /\ UNCHANGED <<stored, running, task, cable, seen>>

(* A frame whose payload is no JSON leaves the candidate staged; bytes     *)
(* that are no frame drop it, if a session is open.                        *)
Unparsable ==
  /\ Command
  /\ PhysicalAbort /\ FinishSession
  /\ UNCHANGED <<stored, running, staged, task, cable, seen>>

FramingError_busy ==  \* mutant: the timeout does not spare an apply
  /\ cable /\ lock
  /\ Timeout
  /\ UNCHANGED <<stored, running, task, cable, seen>>

FramingError ==
  /\ Command /\ lock
  /\ Timeout
  /\ UNCHANGED <<stored, running, task, cable, seen>>

(* After two minutes without a frame.                                      *)
Idle_unplugged ==  \* mutant: only the cable ends a session
  /\ lock /\ ~Busy /\ ~cable
  /\ Timeout
  /\ UNCHANGED <<stored, running, task, cable, seen>>

Idle ==
  /\ lock /\ ~Busy
  /\ \/ /\ ack /\ staged = NoConfig /\ apply = "complete"
        /\ FinishSession
        /\ UNCHANGED <<staged, radio>>
     \/ /\ ~(ack /\ staged = NoConfig /\ apply = "complete")
        /\ ~cable
        /\ Timeout
  /\ UNCHANGED <<stored, running, task, cable, seen>>

-----------------------------------------------------------------------------
(* The apply task: physical_render, physical_commit and what follows them. *)

Goto(a, b) == at = a /\ at' = b
Fault == faults > 0 /\ faults' = faults - 1

Render(ok) ==
  /\ Goto("render", IF ok THEN "activate" ELSE "failed")
  /\ result' = IF ok THEN "complete" ELSE "render_failed"
  /\ UNCHANGED <<stored, running, radio, service, apply, job, faults, cable, seen>>

Activate ==
  /\ Goto("activate", "persist")
  /\ running' = job.config
  /\ UNCHANGED <<stored, radio, service, apply, job, result, faults, cable, seen>>

Persist ==
  /\ Goto("persist", "reload")
  /\ stored' = Promoted(job.config, job.wifi)
  /\ UNCHANGED <<running, radio, service, apply, job, result, faults, cable, seen>>

(* The credentials to go back to are given up with the last failure.       *)
Reload ==
  /\ Goto("reload", "report")
  /\ running' = stored.config
  /\ trial' = FALSE /\ prev' = NoNet
  /\ UNCHANGED <<stored, net, service, apply, job, result, faults, cable, seen>>

(* Reading or activating the configuration fails, or storing it, or        *)
(* reading it again.  Each takes back what was done before it.             *)
CommitFails ==
  /\ Fault
  /\ \/ Goto("activate", "failed") \/ Goto("persist", "revert") \/ Goto("reload", "undo")
  /\ result' = "commit_failed"
  /\ UNCHANGED <<stored, running, radio, service, apply, job, cable, seen>>

Undo_stored ==  \* mutant: the rollback names no credentials
  /\ Goto("undo", "revert")
  /\ stored' = Promoted(old.config, NoNet)
  /\ UNCHANGED <<running, radio, service, apply, job, result, faults, cable, seen>>

Undo ==
  /\ Goto("undo", "revert")
  /\ stored' = Promoted(old.config, prev)
  /\ UNCHANGED <<running, radio, service, apply, job, result, faults, cable, seen>>

Revert_skipped ==  \* mutant: the previous configuration is not activated again
  /\ Goto("revert", "failed")
  /\ UNCHANGED <<stored, running, radio, service, apply, job, result, faults, cable, seen>>

Revert ==
  /\ Goto("revert", "failed")
  /\ running' = old.config
  /\ UNCHANGED <<stored, radio, service, apply, job, result, faults, cable, seen>>

(* wind_installer_service_complete_apply.                                  *)
ReportFailure ==
  /\ Goto("failed", "publish")
  /\ PhysicalAbort /\ creds' = NoNet
  /\ UNCHANGED <<stored, running, staged, ack, lock, apply, job, result, faults, cable, seen>>

ReportSuccess ==
  /\ Goto("report", "publish")
  /\ staged' = NoConfig
  /\ IF ack THEN creds' = NoNet /\ UNCHANGED <<ack, lock>> ELSE FinishSession
  /\ UNCHANGED <<stored, running, radio, apply, job, result, faults, cable, seen>>

(* The buffers are cleared before the state says that a next apply may     *)
(* fill them.                                                              *)
Publish ==
  /\ Goto("publish", "wait")
  /\ job' = NoJob
  /\ apply' = result
  /\ UNCHANGED <<stored, running, radio, service, result, faults, cable, seen>>

ApplyStep ==
  \/ \E ok \in BOOLEAN : Render(ok)
  \/ Activate \/ Persist \/ Reload
  \/ CommitFails \/ Undo \/ Revert
  \/ ReportFailure \/ ReportSuccess \/ Publish

-----------------------------------------------------------------------------
(* The outside: the cable, and a reset by the client, a crash or a power   *)
(* loss at any moment.                                                     *)

Unplug == cable /\ cable' = FALSE /\ UNCHANGED <<stored, running, radio, service, task, seen>>
Plug == ~cable /\ cable' = TRUE /\ UNCHANGED <<stored, running, radio, service, task, seen>>

Restart ==
  /\ running' = stored.config
  /\ net' = stored.wifi /\ trial' = FALSE /\ prev' = NoNet
  /\ staged' = NoConfig /\ creds' = NoNet /\ ack' = FALSE /\ lock' = FALSE
  /\ apply' = "idle" /\ at' = "wait" /\ job' = NoJob
  /\ result' = "complete" /\ faults' = MaxFaults
  /\ UNCHANGED <<stored, cable, seen>>

-----------------------------------------------------------------------------
(* A device whose client may send anything.                                *)

Serve ==
  \/ Hello \/ \E withAck \in BOOLEAN : Begin(withAck)
  \/ \E c \in Configs : Stage(c)
  \/ \E w \in Networks, ok \in BOOLEAN : TestWifi(w, ok)
  \/ RejectWifi \/ Apply \/ ApplyUnacknowledged \/ FinishSetup \/ Cancel
  \/ Unparsable \/ FramingError \/ Idle

DeviceNext == Serve \/ ApplyStep \/ Unplug \/ Plug \/ Restart

DeviceSpec == DeviceInit /\ [][DeviceNext]_deviceVars

-----------------------------------------------------------------------------
(* Properties.                                                             *)

DeviceTypeOK ==
  /\ stored \in Setups /\ running \in Configs
  /\ net \in Wifi /\ trial \in BOOLEAN /\ prev \in Wifi
  /\ staged \in Configs \cup {NoConfig} /\ creds \in Wifi
  /\ ack \in BOOLEAN /\ lock \in BOOLEAN
  /\ apply \in Results \cup {"idle", "applying"} /\ at \in Stages
  /\ job \in [config : Configs \cup {NoConfig}, wifi : Wifi]
  /\ result \in Results /\ faults \in 0..MaxFaults /\ cable \in BOOLEAN
  /\ old \in Setups /\ goal \in Setups

(* While an apply can still fail, the network it was given is the one on   *)
(* trial and the credentials to go back to are those it found stored: no   *)
(* command, noise or timeout of the UART task takes them away.             *)
RollbackReady ==
  at \in {"render", "activate", "persist", "reload", "undo"} /\ job.wifi # NoNet =>
    trial /\ net = job.wifi /\ prev = old.wifi

(* Outside an apply the runtime shows the configuration that is stored,    *)
(* whichever step of the last apply failed.                                *)
RunningIsStored == ~Busy => running = stored.config

(* The step that ends a trial leaves the station set up for the stored     *)
(* network, and so does every step that moves it without one: a rejected   *)
(* test, a commit, a failed apply, noise, a restart.  Two ways out keep    *)
(* another.  A device that had no network disconnects when its first apply *)
(* fails, also where the record could not be taken back.  And a trial that *)
(* finish_setup has forgotten (its credentials are cleared, the candidate  *)
(* network is not left) is ended by the next apply without credentials,    *)
(* which keeps the station where the trial has put it.                     *)
NetRestored ==
  [][~trial' /\ (trial \/ net' # net) =>
       \/ net' = stored'.wifi
       \/ at = "failed" /\ net' = NoNet /\ old.wifi = NoNet
       \/ at = "reload" /\ job.wifi = NoNet]_deviceVars

(* The device's two tasks keep the promise of SetupRecord.                 *)
Phase == CASE apply = "idle" -> "idle" [] apply = "applying" -> "applying"
           [] apply = "complete" -> "complete" [] OTHER -> "failed"
Record == INSTANCE SetupRecord WITH record <- stored, phase <- Phase
RecordSpec == Record!Spec
=============================================================================
