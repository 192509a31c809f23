--------------------------- MODULE InstallerProofs ---------------------------
(***************************************************************************)
(* For every set of configurations and networks: the device's installer    *)
(* can always take an apply back, shows what is stored whenever no apply   *)
(* runs, and implements SetupRecord.                                       *)
(***************************************************************************)
EXTENDS InstallerDevice, TLAPS

(* Stages before the record is written, and after it.                      *)
Before  == {"render", "activate", "persist"}
Written == {"reload", "undo"}

InTask == Busy <=> at # "wait"

Jobs ==
  at \in Before \cup Written =>
    /\ job.config \in Configs
    /\ goal = [config |-> job.config, wifi |-> IF job.wifi = NoNet THEN old.wifi ELSE job.wifi]

(* The record at each stage of the apply task.                             *)
Kept ==
  /\ at \in Before => stored = old
  /\ at \in Written \cup {"report"} => stored = goal
  /\ at \in {"revert", "failed"} => stored \in {old, Record!Restored}
  /\ at = "publish" =>
       /\ result = "complete" => stored = goal
       /\ result # "complete" => stored \in {old, Record!Restored}

Outcome ==
  /\ at \in {"activate", "persist", "reload", "report"} => result = "complete"
  /\ at \in {"undo", "revert", "failed"} => result # "complete"

Shown ==
  /\ at \in {"wait", "failed", "report", "publish"} => running = stored.config
  /\ at \in {"render", "activate"} => running = old.config

(* The credentials the next apply will take are the ones on trial.         *)
Tested ==
  /\ at = "wait" /\ creds # NoNet => trial /\ net = creds /\ prev = stored.wifi
  /\ at = "publish" => creds = NoNet

(* What the radio would go back to is what was stored before the trial.    *)
Back ==
  /\ prev # NoNet => trial
  /\ at = "wait" => prev \in {NoNet, stored.wifi}
  /\ at \in Before \cup Written => prev \in {NoNet, old.wifi}
  /\ at \in {"report", "publish"} => prev = NoNet

IInv ==
  /\ DeviceTypeOK /\ InTask /\ Jobs /\ Kept /\ Outcome /\ Shown /\ Tested /\ Back
  /\ RollbackReady

-----------------------------------------------------------------------------
(* The invariant is kept by every step.                                    *)

(* A step that leaves alone what it speaks of.                             *)
LEMMA Untouched ==
  ASSUME IInv, DeviceTypeOK',
         UNCHANGED <<stored, running, radio, creds, apply, at, job, result, old, goal>>
  PROVE  IInv'
<1>1. trial \in BOOLEAN
  BY DEF IInv, DeviceTypeOK
<1>2. InTask' /\ Jobs'
  BY DEF IInv, InTask, Busy, Jobs, Before, Written
<1>3. Kept'
  BY DEF IInv, Kept, Before, Written, Record!Restored
<1>4. Outcome' /\ Shown'
  BY DEF IInv, Outcome, Shown
<1>5. Tested'
  BY <1>1 DEF IInv, Tested, radio
<1>6. Back'
  BY <1>1 DEF IInv, Back, Before, Written, radio
<1>7. RollbackReady'
  BY <1>1 DEF IInv, RollbackReady, radio
<1> QED
  BY <1>2, <1>3, <1>4, <1>5, <1>6, <1>7 DEF IInv

(* A command, noise, or two quiet minutes.                                 *)
LEMMA CommandKeepsInv == IInv /\ Serve => IInv'
<1> SUFFICES ASSUME IInv, Serve PROVE IInv'
  OBVIOUS
<1>1. CASE Hello
  <2>1. DeviceTypeOK'
    BY <1>1 DEF IInv, DeviceTypeOK, radio, service, task, seen, Hello
  <2>2. UNCHANGED <<stored, running, radio, creds, apply, at, job, result, old, goal>>
    BY <1>1 DEF radio, service, task, seen, Hello
  <2> QED
    BY <2>1, <2>2, Untouched
<1>2. CASE \E withAck \in BOOLEAN : Begin(withAck)
  <2>1. DeviceTypeOK'
    BY <1>2 DEF IInv, DeviceTypeOK, radio, service, task, seen, Begin
  <2>2. UNCHANGED <<stored, running, radio, creds, apply, at, job, result, old, goal>>
    BY <1>2 DEF radio, service, task, seen, Begin
  <2> QED
    BY <2>1, <2>2, Untouched
<1>3. CASE \E c \in Configs : Stage(c)
  <2>1. DeviceTypeOK'
    BY <1>3 DEF IInv, DeviceTypeOK, radio, service, task, seen, Stage
  <2>2. UNCHANGED <<stored, running, radio, creds, apply, at, job, result, old, goal>>
    BY <1>3 DEF radio, service, task, seen, Stage
  <2> QED
    BY <2>1, <2>2, Untouched
<1>4. CASE \E w \in Networks, ok \in BOOLEAN : TestWifi(w, ok)
  <2>1. DeviceTypeOK'
    BY <1>4, InstallerAssumption DEF IInv, DeviceTypeOK, Wifi, Setups, Stages, Results, radio,
       service, task, seen, TestWifi
  <2>2. (InTask /\ Jobs /\ Kept /\ Outcome /\ Shown)'
    BY <1>4, InstallerAssumption DEF IInv, InTask, Busy, Jobs, Kept, Outcome, Shown, Before,
       Written, Record!Restored, DeviceTypeOK, radio, service, task, seen, Command, TestWifi
  <2>3. (Tested /\ Back /\ RollbackReady)'
    BY <1>4, InstallerAssumption DEF IInv, InTask, Busy, Tested, Back, RollbackReady, Before,
       Written, DeviceTypeOK, radio, service, task, seen, Command, TestWifi
  <2> QED
    BY <2>1, <2>2, <2>3 DEF IInv
<1>5. CASE RejectWifi
  <2>1. DeviceTypeOK'
    BY <1>5, InstallerAssumption DEF IInv, DeviceTypeOK, Wifi, task, seen, RejectWifi,
       PhysicalAbort
  <2>2. (InTask /\ Jobs /\ Kept /\ Outcome /\ Shown)'
    BY <1>5, InstallerAssumption DEF IInv, InTask, Busy, Jobs, Kept, Outcome, Shown, Before,
       Written, Record!Restored, DeviceTypeOK, radio, service, task, seen, Command,
       PhysicalAbort, RejectWifi
  <2>3. (Tested /\ Back /\ RollbackReady)'
    BY <1>5, InstallerAssumption DEF IInv, InTask, Busy, Tested, Back, RollbackReady, Before,
       Written, DeviceTypeOK, radio, service, task, seen, Command, PhysicalAbort, RejectWifi
  <2> QED
    BY <2>1, <2>2, <2>3 DEF IInv
<1>6. CASE Apply
  <2>1. DeviceTypeOK'
    BY <1>6, InstallerAssumption DEF IInv, DeviceTypeOK, Wifi, Setups, Stages, Results, radio,
       service, task, seen, Apply, Promoted
  <2>2. (InTask /\ Jobs /\ Kept /\ Outcome /\ Shown)'
    BY <1>6, InstallerAssumption DEF IInv, InTask, Busy, Jobs, Kept, Outcome, Shown, Before,
       Written, Record!Restored, DeviceTypeOK, radio, service, task, seen, Command, Promoted,
       Apply, Setups
  <2>3. (Tested /\ Back /\ RollbackReady)'
    BY <1>6, InstallerAssumption DEF IInv, InTask, Busy, Tested, Back, RollbackReady, Before,
       Written, DeviceTypeOK, radio, service, task, seen, Command, Promoted, Apply, Setups
  <2> QED
    BY <2>1, <2>2, <2>3 DEF IInv
<1>7. CASE ApplyUnacknowledged
  <2>1. DeviceTypeOK'
    BY <1>7, ZenonT(30) DEF IInv, DeviceTypeOK, Wifi, Results, seen, ApplyUnacknowledged,
       PhysicalAbort, NoJob
  <2>2. (InTask /\ Jobs /\ Kept /\ Outcome /\ Shown)'
    BY <1>7, InstallerAssumption DEF IInv, InTask, Busy, Jobs, Kept, Outcome, Shown, Before,
       Written, Record!Restored, DeviceTypeOK, radio, service, task, seen, Command,
       PhysicalAbort, NoJob, ApplyUnacknowledged
  <2>3. (Tested /\ Back /\ RollbackReady)'
    BY <1>7, InstallerAssumption DEF IInv, InTask, Busy, Tested, Back, RollbackReady, Before,
       Written, DeviceTypeOK, radio, service, task, seen, Command, PhysicalAbort, NoJob,
       ApplyUnacknowledged
  <2> QED
    BY <2>1, <2>2, <2>3 DEF IInv
<1>8. CASE FinishSetup
  <2>1. DeviceTypeOK'
    BY <1>8, InstallerAssumption DEF IInv, DeviceTypeOK, Wifi, radio, task, seen, FinishSetup,
       FinishSession
  <2>2. (InTask /\ Jobs /\ Kept /\ Outcome /\ Shown)'
    BY <1>8, InstallerAssumption DEF IInv, InTask, Busy, Jobs, Kept, Outcome, Shown, Before,
       Written, Record!Restored, DeviceTypeOK, radio, service, task, seen, Command,
       FinishSession, FinishSetup
  <2>3. (Tested /\ Back /\ RollbackReady)'
    BY <1>8, InstallerAssumption DEF IInv, InTask, Busy, Tested, Back, RollbackReady, Before,
       Written, DeviceTypeOK, radio, service, task, seen, Command, FinishSession, FinishSetup
  <2> QED
    BY <2>1, <2>2, <2>3 DEF IInv
<1>9. CASE Cancel
  <2>1. DeviceTypeOK'
    BY <1>9, InstallerAssumption DEF IInv, DeviceTypeOK, Wifi, task, seen, Cancel, Timeout,
       PhysicalAbort, FinishSession
  <2>2. (InTask /\ Jobs /\ Kept /\ Outcome /\ Shown)'
    BY <1>9, InstallerAssumption DEF IInv, InTask, Busy, Jobs, Kept, Outcome, Shown, Before,
       Written, Record!Restored, DeviceTypeOK, radio, service, task, seen, Command, Timeout,
       PhysicalAbort, FinishSession, Cancel
  <2>3. (Tested /\ Back /\ RollbackReady)'
    BY <1>9, InstallerAssumption DEF IInv, InTask, Busy, Tested, Back, RollbackReady, Before,
       Written, DeviceTypeOK, radio, service, task, seen, Command, Timeout, PhysicalAbort,
       FinishSession, Cancel
  <2> QED
    BY <2>1, <2>2, <2>3 DEF IInv
<1>10. CASE Unparsable
  <2>1. DeviceTypeOK'
    BY <1>10, InstallerAssumption DEF IInv, DeviceTypeOK, Wifi, task, seen, Unparsable,
       PhysicalAbort, FinishSession
  <2>2. (InTask /\ Jobs /\ Kept /\ Outcome /\ Shown)'
    BY <1>10, InstallerAssumption DEF IInv, InTask, Busy, Jobs, Kept, Outcome, Shown, Before,
       Written, Record!Restored, DeviceTypeOK, radio, service, task, seen, Command,
       PhysicalAbort, FinishSession, Unparsable
  <2>3. (Tested /\ Back /\ RollbackReady)'
    BY <1>10, InstallerAssumption DEF IInv, InTask, Busy, Tested, Back, RollbackReady, Before,
       Written, DeviceTypeOK, radio, service, task, seen, Command, PhysicalAbort, FinishSession,
       Unparsable
  <2> QED
    BY <2>1, <2>2, <2>3 DEF IInv
<1>11. CASE FramingError
  <2>1. DeviceTypeOK'
    BY <1>11, InstallerAssumption DEF IInv, DeviceTypeOK, Wifi, task, seen, FramingError,
       Timeout, PhysicalAbort, FinishSession
  <2>2. (InTask /\ Jobs /\ Kept /\ Outcome /\ Shown)'
    BY <1>11, InstallerAssumption DEF IInv, InTask, Busy, Jobs, Kept, Outcome, Shown, Before,
       Written, Record!Restored, DeviceTypeOK, radio, service, task, seen, Command, Timeout,
       PhysicalAbort, FinishSession, FramingError
  <2>3. (Tested /\ Back /\ RollbackReady)'
    BY <1>11, InstallerAssumption DEF IInv, InTask, Busy, Tested, Back, RollbackReady, Before,
       Written, DeviceTypeOK, radio, service, task, seen, Command, Timeout, PhysicalAbort,
       FinishSession, FramingError
  <2> QED
    BY <2>1, <2>2, <2>3 DEF IInv
<1>12. CASE Idle
  <2>1. DeviceTypeOK'
    BY <1>12, InstallerAssumption DEF IInv, DeviceTypeOK, Wifi, radio, task, seen, Idle, Timeout,
       PhysicalAbort, FinishSession
  <2>2. (InTask /\ Jobs /\ Kept /\ Outcome /\ Shown)'
    BY <1>12, InstallerAssumption DEF IInv, InTask, Busy, Jobs, Kept, Outcome, Shown, Before,
       Written, Record!Restored, DeviceTypeOK, radio, service, task, seen, Timeout,
       PhysicalAbort, FinishSession, Idle
  <2>3. (Tested /\ Back /\ RollbackReady)'
    BY <1>12, InstallerAssumption DEF IInv, InTask, Busy, Tested, Back, RollbackReady, Before,
       Written, DeviceTypeOK, radio, service, task, seen, Timeout, PhysicalAbort, FinishSession,
       Idle
  <2> QED
    BY <2>1, <2>2, <2>3 DEF IInv
<1> QED
  BY <1>1, <1>2, <1>3, <1>4, <1>5, <1>6, <1>7, <1>8, <1>9, <1>10, <1>11, <1>12 DEF Serve

(* Taking the write back yields what SetupRecord allows.                   *)
LEMMA UndoRestores ==
  ASSUME IInv, Undo
  PROVE  stored' = Record!Restored
<1>1. goal.wifi = IF job.wifi = NoNet THEN old.wifi ELSE job.wifi
  BY DEF Undo, Goto, IInv, Jobs, Written
<1>2. stored = goal /\ prev \in {NoNet, old.wifi} /\ (job.wifi # NoNet => prev = old.wifi)
  BY DEF Undo, Goto, IInv, Kept, Back, RollbackReady, Written
<1>3. old = [config |-> old.config, wifi |-> old.wifi]
  BY DEF IInv, DeviceTypeOK, Setups
<1>4. stored' = [config |-> old.config, wifi |-> IF prev = NoNet THEN goal.wifi ELSE prev]
  BY <1>2 DEF Undo, Promoted
<1> QED
  BY <1>1, <1>2, <1>3, <1>4 DEF Record!Restored

(* A step of the apply task.                                               *)
LEMMA TaskKeepsInv == IInv /\ ApplyStep => IInv'
<1> SUFFICES ASSUME IInv, ApplyStep PROVE IInv'
  OBVIOUS
<1>1. CASE \E ok \in BOOLEAN : Render(ok)
  <2>1. DeviceTypeOK'
    BY <1>1, InstallerAssumption DEF IInv, DeviceTypeOK, Stages, Results, radio, service, task,
       seen, Render, Goto
  <2>2. (InTask /\ Jobs /\ Kept /\ Outcome /\ Shown)'
    BY <1>1, InstallerAssumption DEF IInv, InTask, Busy, Jobs, Kept, Outcome, Shown, Before,
       Written, Record!Restored, DeviceTypeOK, radio, service, task, seen, Render, Goto
  <2>3. (Tested /\ Back /\ RollbackReady)'
    BY <1>1, InstallerAssumption DEF IInv, InTask, Busy, Tested, Back, RollbackReady, Before,
       Written, DeviceTypeOK, radio, service, task, seen, Render, Goto
  <2> QED
    BY <2>1, <2>2, <2>3 DEF IInv
<1>2. CASE Activate
  <2>1. DeviceTypeOK'
    BY <1>2, InstallerAssumption DEF IInv, DeviceTypeOK, Before, Written, Jobs, Stages, radio,
       service, task, seen, Activate, Goto
  <2>2. (InTask /\ Jobs /\ Kept /\ Outcome /\ Shown)'
    BY <1>2, InstallerAssumption DEF IInv, InTask, Busy, Jobs, Kept, Outcome, Shown, Before,
       Written, Record!Restored, DeviceTypeOK, radio, service, task, seen, Activate, Goto
  <2>3. (Tested /\ Back /\ RollbackReady)'
    BY <1>2, InstallerAssumption DEF IInv, InTask, Busy, Tested, Back, RollbackReady, Before,
       Written, DeviceTypeOK, radio, service, task, seen, Activate, Goto
  <2> QED
    BY <2>1, <2>2, <2>3 DEF IInv
<1>3. CASE Persist
  <2>1. DeviceTypeOK'
    BY <1>3, InstallerAssumption DEF IInv, DeviceTypeOK, Before, Written, Jobs, Wifi, Setups,
       Stages, radio, service, task, seen, Persist, Goto, Promoted
  <2>2. (InTask /\ Jobs /\ Kept /\ Outcome /\ Shown)'
    BY <1>3, InstallerAssumption DEF IInv, InTask, Busy, Jobs, Kept, Outcome, Shown, Before,
       Written, Record!Restored, DeviceTypeOK, radio, service, task, seen, Persist, Goto,
       Promoted, Setups
  <2>3. (Tested /\ Back /\ RollbackReady)'
    BY <1>3, InstallerAssumption DEF IInv, InTask, Busy, Tested, Back, RollbackReady, Before,
       Written, DeviceTypeOK, radio, service, task, seen, Persist, Goto, Promoted, Setups
  <2> QED
    BY <2>1, <2>2, <2>3 DEF IInv
<1>4. CASE Reload
  <2>a. stored.config \in Configs /\ NoNet \in Wifi
    BY DEF IInv, DeviceTypeOK, Setups, Wifi
  <2>1. DeviceTypeOK'
    BY <1>4, <2>a DEF IInv, DeviceTypeOK, Stages, Reload, Goto, service, seen
  <2>2. (InTask /\ Jobs /\ Kept /\ Outcome /\ Shown)'
    BY <1>4, InstallerAssumption DEF IInv, InTask, Busy, Jobs, Kept, Outcome, Shown, Before,
       Written, Record!Restored, DeviceTypeOK, radio, service, task, seen, Reload, Goto, Setups
  <2>3. (Tested /\ Back /\ RollbackReady)'
    BY <1>4, InstallerAssumption DEF IInv, InTask, Busy, Tested, Back, RollbackReady, Before,
       Written, DeviceTypeOK, radio, service, task, seen, Reload, Goto, Setups
  <2> QED
    BY <2>1, <2>2, <2>3 DEF IInv
<1>5. CASE CommitFails
  <2>1. DeviceTypeOK'
    BY <1>5, InstallerAssumption DEF IInv, DeviceTypeOK, Stages, Results, radio, service, task,
       seen, CommitFails, Fault, Goto
  <2>2. (InTask /\ Jobs /\ Kept /\ Outcome /\ Shown)'
    BY <1>5, InstallerAssumption DEF IInv, InTask, Busy, Jobs, Kept, Outcome, Shown, Before,
       Written, Record!Restored, DeviceTypeOK, radio, service, task, seen, CommitFails, Goto,
       Fault, Setups
  <2>3. (Tested /\ Back /\ RollbackReady)'
    BY <1>5, InstallerAssumption DEF IInv, InTask, Busy, Tested, Back, RollbackReady, Before,
       Written, DeviceTypeOK, radio, service, task, seen, CommitFails, Goto, Fault, Setups
  <2> QED
    BY <2>1, <2>2, <2>3 DEF IInv
<1>6. CASE Undo
  <2>1. DeviceTypeOK'
    BY <1>6, InstallerAssumption DEF IInv, DeviceTypeOK, Wifi, Setups, Stages, Results, radio,
       service, task, seen, Undo, Goto, Promoted
  <2>a. stored' = Record!Restored
    BY <1>6, UndoRestores
  <2>2. (InTask /\ Jobs /\ Kept /\ Outcome /\ Shown)'
    BY <1>6, <2>a DEF IInv, InTask, Busy, Jobs, Kept, Outcome, Shown, Before, Written,
       Record!Restored, radio, service, task, seen, Undo, Goto
  <2>3. (Tested /\ Back /\ RollbackReady)'
    BY <1>6, InstallerAssumption DEF IInv, InTask, Busy, Tested, Back, RollbackReady, Before,
       Written, DeviceTypeOK, radio, service, task, seen, Undo, Goto, Promoted, Setups
  <2> QED
    BY <2>1, <2>2, <2>3 DEF IInv
<1>7. CASE Revert
  <2>1. DeviceTypeOK'
    BY <1>7, InstallerAssumption DEF IInv, DeviceTypeOK, Wifi, Setups, Stages, Results, radio,
       service, task, seen, Revert, Goto
  <2>2. (InTask /\ Jobs /\ Kept /\ Outcome /\ Shown)'
    BY <1>7, InstallerAssumption DEF IInv, InTask, Busy, Jobs, Kept, Outcome, Shown, Before,
       Written, Record!Restored, DeviceTypeOK, radio, service, task, seen, Revert, Goto, Setups
  <2>3. (Tested /\ Back /\ RollbackReady)'
    BY <1>7, InstallerAssumption DEF IInv, InTask, Busy, Tested, Back, RollbackReady, Before,
       Written, DeviceTypeOK, radio, service, task, seen, Revert, Goto, Setups
  <2> QED
    BY <2>1, <2>2, <2>3 DEF IInv
<1>8. CASE ReportFailure
  <2>1. DeviceTypeOK'
    BY <1>8, InstallerAssumption DEF IInv, DeviceTypeOK, Wifi, Stages, seen, ReportFailure, Goto,
       PhysicalAbort
  <2>2. (InTask /\ Jobs /\ Kept /\ Outcome /\ Shown)'
    BY <1>8, InstallerAssumption DEF IInv, InTask, Busy, Jobs, Kept, Outcome, Shown, Before,
       Written, Record!Restored, DeviceTypeOK, radio, service, task, seen, ReportFailure, Goto,
       PhysicalAbort
  <2>3. (Tested /\ Back /\ RollbackReady)'
    BY <1>8, InstallerAssumption DEF IInv, InTask, Busy, Tested, Back, RollbackReady, Before,
       Written, DeviceTypeOK, radio, service, task, seen, ReportFailure, Goto, PhysicalAbort
  <2> QED
    BY <2>1, <2>2, <2>3 DEF IInv
<1>9. CASE ReportSuccess
  <2>1. DeviceTypeOK'
    BY <1>9, InstallerAssumption DEF IInv, DeviceTypeOK, Wifi, Stages, radio, seen,
       ReportSuccess, Goto, FinishSession
  <2>2. (InTask /\ Jobs /\ Kept /\ Outcome /\ Shown)'
    BY <1>9, InstallerAssumption DEF IInv, InTask, Busy, Jobs, Kept, Outcome, Shown, Before,
       Written, Record!Restored, DeviceTypeOK, radio, service, task, seen, ReportSuccess, Goto,
       FinishSession
  <2>3. (Tested /\ Back /\ RollbackReady)'
    BY <1>9, InstallerAssumption DEF IInv, InTask, Busy, Tested, Back, RollbackReady, Before,
       Written, DeviceTypeOK, radio, service, task, seen, ReportSuccess, Goto, FinishSession
  <2> QED
    BY <2>1, <2>2, <2>3 DEF IInv
<1>10. CASE Publish
  <2>1. DeviceTypeOK'
    BY <1>10, InstallerAssumption DEF IInv, DeviceTypeOK, Wifi, Setups, Stages, Results, radio,
       service, task, seen, Publish, Goto, NoJob
  <2>2. (InTask /\ Jobs /\ Kept /\ Outcome /\ Shown)'
    BY <1>10, InstallerAssumption DEF IInv, Kept, Jobs, InTask, Busy, Outcome, Shown, Before,
       Written, radio, service, task, seen, Publish, Goto, Results, DeviceTypeOK
  <2>3. (Tested /\ Back /\ RollbackReady)'
    BY <1>10, InstallerAssumption DEF IInv, InTask, Busy, Tested, Back, RollbackReady, Before,
       Written, DeviceTypeOK, radio, service, task, seen, Publish, Goto, NoJob
  <2> QED
    BY <2>1, <2>2, <2>3 DEF IInv
<1> QED
  BY <1>1, <1>2, <1>3, <1>4, <1>5, <1>6, <1>7, <1>8, <1>9, <1>10 DEF ApplyStep

(* Every step of the device.                                               *)
LEMMA StepKeepsInv == IInv /\ [DeviceNext]_deviceVars => IInv'
<1> SUFFICES ASSUME IInv, [DeviceNext]_deviceVars PROVE IInv'
  OBVIOUS
<1>1. CASE Serve
  BY <1>1, CommandKeepsInv
<1>2. CASE ApplyStep
  BY <1>2, TaskKeepsInv
<1>3. CASE Unplug
  <2>1. DeviceTypeOK'
    BY <1>3 DEF IInv, DeviceTypeOK, radio, service, task, seen, Unplug
  <2>2. UNCHANGED <<stored, running, radio, creds, apply, at, job, result, old, goal>>
    BY <1>3 DEF radio, service, task, seen, Unplug
  <2> QED
    BY <2>1, <2>2, Untouched
<1>4. CASE Plug
  <2>1. DeviceTypeOK'
    BY <1>4 DEF IInv, DeviceTypeOK, radio, service, task, seen, Plug
  <2>2. UNCHANGED <<stored, running, radio, creds, apply, at, job, result, old, goal>>
    BY <1>4 DEF radio, service, task, seen, Plug
  <2> QED
    BY <2>1, <2>2, Untouched
<1>5. CASE Restart
  <2>a. MaxFaults \in 0..MaxFaults
    BY InstallerAssumption
  <2>b. stored \in Setups /\ stored.config \in Configs /\ stored.wifi \in Wifi
    BY DEF IInv, DeviceTypeOK, Setups
  <2>1. DeviceTypeOK'
    BY <1>5, <2>a, <2>b DEF IInv, DeviceTypeOK, Wifi, Stages, Results, seen, Restart, NoJob
  <2>2. (InTask /\ Jobs /\ Kept /\ Outcome /\ Shown)'
    BY <1>5, InstallerAssumption DEF IInv, InTask, Busy, Jobs, Kept, Outcome, Shown, Before,
       Written, Record!Restored, DeviceTypeOK, radio, service, task, seen, Restart, NoJob, Setups
  <2>3. (Tested /\ Back /\ RollbackReady)'
    BY <1>5, InstallerAssumption DEF IInv, InTask, Busy, Tested, Back, RollbackReady, Before,
       Written, DeviceTypeOK, radio, service, task, seen, Restart, NoJob, Setups
  <2> QED
    BY <2>1, <2>2, <2>3 DEF IInv
<1>6. CASE UNCHANGED deviceVars
  <2>1. DeviceTypeOK'
    BY <1>6 DEF IInv, DeviceTypeOK, deviceVars, radio, service, task, seen
  <2>2. UNCHANGED <<stored, running, radio, creds, apply, at, job, result, old, goal>>
    BY <1>6 DEF deviceVars, radio, service, task, seen
  <2> QED
    BY <2>1, <2>2, Untouched
<1> QED
  BY <1>1, <1>2, <1>3, <1>4, <1>5, <1>6 DEF DeviceNext

(* It holds when the device starts.                                        *)
LEMMA InitHasInv == DeviceInit => IInv
<1> SUFFICES ASSUME DeviceInit PROVE IInv
  OBVIOUS
<1>a. MaxFaults \in 0..MaxFaults
  BY InstallerAssumption
<1>b. stored \in Setups /\ stored.config \in Configs /\ stored.wifi \in Wifi
  BY DEF DeviceInit, Setups
<1>1. DeviceTypeOK
  BY <1>a, <1>b DEF DeviceInit, DeviceTypeOK, Wifi, Stages, Results, NoJob
<1>2. InTask /\ Jobs /\ Kept /\ Outcome /\ Shown
  BY DEF DeviceInit, InTask, Busy, Jobs, Kept, Outcome, Shown, Before, Written
<1>3. Tested /\ Back /\ RollbackReady
  BY DEF DeviceInit, Tested, Back, RollbackReady, Before, Written
<1> QED
  BY <1>1, <1>2, <1>3 DEF IInv

(* The inductive invariant.                                                *)
THEOREM DeviceInvariant == DeviceSpec => []IInv
BY InitHasInv, StepKeepsInv, PTL DEF DeviceSpec

-----------------------------------------------------------------------------
(* The results.                                                            *)

(* Every reachable state is well typed.                                    *)
THEOREM DeviceTypeCorrect == DeviceSpec => []DeviceTypeOK
<1>1. IInv => DeviceTypeOK
  BY DEF IInv
<1> QED
  BY <1>1, DeviceInvariant, PTL

(* An apply that is to store tested credentials has them on trial, and     *)
(* those it found to go back to, until it can no longer fail: none of the  *)
(* commands, noise and timeouts of the UART task takes them away.          *)
THEOREM ApplyCanBeTakenBack == DeviceSpec => []RollbackReady
<1>1. IInv => RollbackReady
  BY DEF IInv
<1> QED
  BY <1>1, DeviceInvariant, PTL

(* Whenever no apply runs, the runtime works with the configuration that   *)
(* the flash holds.                                                        *)
THEOREM StoredIsShown == DeviceSpec => []RunningIsStored
<1>1. IInv => RunningIsStored
  BY DEF IInv, InTask, Shown, RunningIsStored
<1> QED
  BY <1>1, DeviceInvariant, PTL

(* A step that SetupRecord does not see.                                  *)
LEMMA SeenUnchanged ==
  ASSUME UNCHANGED <<stored, apply, old, goal>>
  PROVE  UNCHANGED Record!vars
BY DEF Record!vars, Phase

(* A command begins an apply, refuses one, or is not seen.                 *)
LEMMA CommandRefines == IInv /\ Serve => [Record!Next]_Record!vars
<1> SUFFICES ASSUME IInv, Serve PROVE [Record!Next]_Record!vars
  OBVIOUS
<1>1. CASE Apply
  <2>1. /\ staged \in Configs /\ creds \in Networks \cup {NoNet}
        /\ goal' = [config |-> staged, wifi |-> IF creds = NoNet THEN stored.wifi ELSE creds]
    BY <1>1 DEF Apply, Promoted, IInv, DeviceTypeOK, Wifi
  <2>2. Phase # "applying" /\ Phase' = "applying"
    BY <1>1 DEF Apply, Command, Busy, Phase
  <2> QED
    BY <1>1, <2>1, <2>2 DEF Apply, Record!Next, Record!Begin
<1>2. CASE ApplyUnacknowledged
  <2>1. Phase # "applying" /\ Phase' = "failed"
    BY <1>2 DEF ApplyUnacknowledged, Command, Busy, Phase
  <2> QED
    BY <1>2, <2>1 DEF ApplyUnacknowledged, Record!Next, Record!Refuse, seen
<1>3. CASE Serve /\ ~Apply /\ ~ApplyUnacknowledged
  <2>1. UNCHANGED <<stored, apply, old, goal>>
    BY <1>3 DEF Serve, Hello, Begin, Stage, TestWifi, RejectWifi, FinishSetup, Cancel, Unparsable,
       FramingError, Idle, task, seen
  <2> QED
    BY <2>1, SeenUnchanged
<1> QED
  BY <1>1, <1>2, <1>3

(* A step of the apply task installs, undoes, ends the apply, or is not    *)
(* seen.                                                                   *)
LEMMA TaskRefines == IInv /\ ApplyStep => [Record!Next]_Record!vars
<1> SUFFICES ASSUME IInv, ApplyStep PROVE [Record!Next]_Record!vars
  OBVIOUS
<1>1. CASE Persist
  <2>1. goal = [config |-> job.config, wifi |-> IF job.wifi = NoNet THEN old.wifi ELSE job.wifi]
    BY <1>1 DEF Persist, Goto, IInv, Jobs, Before
  <2>2. stored = old
    BY <1>1 DEF Persist, Goto, IInv, Kept, Before
  <2>3. stored' = goal
    BY <1>1, <2>1, <2>2 DEF Persist, Promoted
  <2>4. Phase = "applying" /\ UNCHANGED <<Phase, old, goal>>
    BY <1>1 DEF Persist, Goto, IInv, InTask, Busy, Phase, seen
  <2> QED
    BY <2>3, <2>4 DEF Record!Next, Record!Install
<1>2. CASE Undo
  <2>1. stored' = Record!Restored
    BY <1>2, UndoRestores
  <2>2. Phase = "applying" /\ UNCHANGED <<Phase, old, goal>>
    BY <1>2 DEF Undo, Goto, IInv, InTask, Busy, Phase, seen
  <2> QED
    BY <2>1, <2>2 DEF Record!Next, Record!Undo
<1>3. CASE Publish
  <2>1. Phase = "applying" /\ UNCHANGED <<stored, old, goal>>
    BY <1>3 DEF Publish, Goto, IInv, InTask, Busy, Phase, seen
  <2>2. CASE result = "complete"
    <3>1. stored = goal /\ Phase' = "complete"
      BY <1>3, <2>2 DEF Publish, Goto, IInv, Kept, Phase
    <3> QED
      BY <2>1, <3>1 DEF Record!Next, Record!Complete
  <2>3. CASE result # "complete"
    <3>1. stored \in {old, Record!Restored}
      BY <1>3, <2>3 DEF Publish, Goto, IInv, Kept
    <3>2. Phase' = "failed"
      BY <1>3, <2>3 DEF Publish, IInv, DeviceTypeOK, Results, Phase
    <3> QED
      BY <2>1, <3>1, <3>2 DEF Record!Next, Record!Fail
  <2> QED
    BY <2>2, <2>3
<1>4. CASE ApplyStep /\ ~Persist /\ ~Undo /\ ~Publish
  <2>1. UNCHANGED <<stored, apply, old, goal>>
    BY <1>4 DEF ApplyStep, Render, Activate, Reload, CommitFails, Revert, ReportFailure,
       ReportSuccess, seen
  <2> QED
    BY <2>1, SeenUnchanged
<1> QED
  BY <1>1, <1>2, <1>3, <1>4

(* What a client and the flash see of the device is a behaviour of         *)
(* SetupRecord: the record is replaced as a whole, "complete" is said of   *)
(* the setup that is stored, and a failure leaves the one found.           *)
THEOREM DeviceKeepsRecord == DeviceSpec => RecordSpec
<1>1. DeviceInit => Record!Init
  BY DEF DeviceInit, Setups, Wifi, Phase, Record!Init, Record!Setups
<1>2. IInv /\ [DeviceNext]_deviceVars => [Record!Next]_Record!vars
  <2> SUFFICES ASSUME IInv, [DeviceNext]_deviceVars PROVE [Record!Next]_Record!vars
    OBVIOUS
  <2>1. CASE Serve
    BY <2>1, CommandRefines
  <2>2. CASE ApplyStep
    BY <2>2, TaskRefines
  <2>3. CASE Unplug \/ Plug \/ UNCHANGED deviceVars
    <3>1. UNCHANGED <<stored, apply, old, goal>>
      BY <2>3 DEF Unplug, Plug, deviceVars, task, seen
    <3> QED
      BY <3>1, SeenUnchanged
  <2>4. CASE Restart
    <3>1. Phase' = "idle"
      BY <2>4 DEF Restart, Phase
    <3> QED
      BY <2>4, <3>1 DEF Restart, Record!Next, Record!Restart, seen
  <2> QED
    BY <2>1, <2>2, <2>3, <2>4 DEF DeviceNext
<1> QED
  BY <1>1, <1>2, DeviceInvariant, PTL DEF DeviceSpec, RecordSpec, Record!Spec

-----------------------------------------------------------------------------
(* What is left of a trial.                                                *)

(* While a network is on trial, the radio would go back to the one stored; *)
(* during an apply, to the one that it found.                              *)
Undoable ==
  /\ at = "wait" /\ trial => prev = stored.wifi
  /\ at \in Before \cup Written \cup {"revert", "failed"} /\ trial => prev = old.wifi
  /\ at \in {"report", "publish"} => ~trial

(* A command comes while the apply task waits, and keeps the record.       *)
LEMMA CommandWaits ==
  ASSUME IInv, Serve, ~Hello
  PROVE  at = "wait" /\ stored' = stored
<1>1. ~Busy
  BY DEF Serve, Begin, Stage, TestWifi, RejectWifi, Apply, ApplyUnacknowledged, FinishSetup, Cancel,
     Unparsable, FramingError, Idle, Command
<1>2. stored' = stored
  BY DEF Serve, Begin, Stage, TestWifi, RejectWifi, Apply, ApplyUnacknowledged, FinishSetup, Cancel,
     Unparsable, FramingError, Idle
<1> QED
  BY <1>1, <1>2 DEF IInv, InTask

(* A command leaves a trial alone, ends it, or begins one anew.            *)
LEMMA CommandTrials ==
  ASSUME IInv, Serve
  PROVE  \/ UNCHANGED radio
         \/ trial' = FALSE /\ net' = stored.wifi
         \/ trial' = TRUE /\ prev' = stored.wifi
         \/ PhysicalAbort
<1>1. CASE \E w \in Networks, ok \in BOOLEAN : TestWifi(w, ok)
  BY <1>1 DEF TestWifi
<1>2. CASE RejectWifi \/ ApplyUnacknowledged \/ Cancel \/ Unparsable \/ FramingError
  BY <1>2 DEF RejectWifi, ApplyUnacknowledged, Cancel, Unparsable, FramingError, Timeout
<1>3. CASE Idle
  BY <1>3 DEF Idle, Timeout
<1>4. CASE \/ Hello \/ Apply \/ FinishSetup
           \/ (\E withAck \in BOOLEAN : Begin(withAck)) \/ \E c \in Configs : Stage(c)
  BY <1>4 DEF Hello, Apply, FinishSetup, Begin, Stage
<1> QED
  BY <1>1, <1>2, <1>3, <1>4 DEF Serve

(* What a failed apply may leave stored names the network it found, unless *)
(* there was none.                                                         *)
LEMMA FoundNetwork ==
  ASSUME stored \in {old, Record!Restored}, old.wifi # NoNet
  PROVE  stored.wifi = old.wifi
BY DEF Record!Restored

(* Every step keeps it.                                                    *)
LEMMA UndoableStep == IInv /\ IInv' /\ Undoable /\ [DeviceNext]_deviceVars => Undoable'
<1> SUFFICES ASSUME IInv, IInv', Undoable, [DeviceNext]_deviceVars PROVE Undoable'
  OBVIOUS
<1>1. CASE Serve /\ ~Hello
  <2>1. at = "wait" /\ stored' = stored
    BY <1>1, CommandWaits
  <2>2. trial' => prev' = stored.wifi
    BY <2>1, <1>1, CommandTrials DEF Undoable, radio, PhysicalAbort
  <2>3. CASE Apply
    BY <2>1, <2>2, <2>3 DEF Undoable, Apply, Before, Written
  <2>4. CASE ~Apply
    <3>1. at' = at
      BY <1>1, <2>4 DEF Serve, Begin, Stage, TestWifi, RejectWifi, ApplyUnacknowledged, FinishSetup,
         Cancel, Unparsable, FramingError, Idle, task
    <3> QED
      BY <2>1, <2>2, <3>1 DEF Undoable, Before, Written
  <2> QED
    BY <2>3, <2>4
<1>2. CASE Hello \/ Unplug \/ Plug \/ UNCHANGED deviceVars
  <2>1. UNCHANGED <<at, trial, prev, stored, old>>
    BY <1>2 DEF Hello, Unplug, Plug, deviceVars, radio, task, seen
  <2> QED
    BY <2>1 DEF Undoable, Before, Written
<1>3. CASE Restart
  BY <1>3 DEF Restart, Undoable, Before, Written
<1>4. CASE Reload \/ ReportFailure
  <2>1. trial' = FALSE
    BY <1>4 DEF Reload, ReportFailure, PhysicalAbort
  <2> QED
    BY <2>1 DEF Undoable
<1>5. CASE ApplyStep /\ ~Reload /\ ~ReportFailure
  <2>1. UNCHANGED <<trial, prev, old>>
    BY <1>5 DEF ApplyStep, Render, Activate, Persist, CommitFails, Undo, Revert, ReportSuccess,
       Publish, radio, seen
  <2>2. \/ /\ at \in Before \cup Written \cup {"revert", "failed"}
           /\ at' \in Before \cup Written \cup {"revert", "failed"}
        \/ at \in {"report", "publish"} /\ at' \in {"publish", "wait"}
    BY <1>5 DEF ApplyStep, Render, Activate, Persist, CommitFails, Undo, Revert, ReportSuccess,
       Publish, Goto, Before, Written
  <2> QED
    BY <2>1, <2>2 DEF Undoable, Before, Written
<1> QED
  BY <1>1, <1>2, <1>3, <1>4, <1>5 DEF DeviceNext

(* A step of the apply task ends a trial by committing it, or by going     *)
(* back.                                                                   *)
LEMMA TaskRestores ==
  ASSUME IInv, Undoable, ApplyStep, ~trial', trial \/ net' # net
  PROVE  \/ net' = stored'.wifi
         \/ at = "failed" /\ net' = NoNet /\ old.wifi = NoNet
         \/ at = "reload" /\ job.wifi = NoNet
<1>1. CASE Reload
  <2>1. at = "reload" /\ net' = net /\ stored' = stored
    BY <1>1 DEF Reload, Goto
  <2>2. stored = goal
    BY <2>1 DEF IInv, Kept, Written
  <2>3. goal.wifi = IF job.wifi = NoNet THEN old.wifi ELSE job.wifi
    BY <2>1 DEF IInv, Jobs, Written
  <2>4. job.wifi # NoNet => net = job.wifi
    BY <2>1 DEF IInv, RollbackReady
  <2> QED
    BY <2>1, <2>2, <2>3, <2>4
<1>2. CASE ReportFailure
  <2>1. at = "failed" /\ stored' = stored /\ trial
    BY <1>2 DEF ReportFailure, Goto, PhysicalAbort
  <2>2. net' = old.wifi
    BY <1>2, <2>1 DEF ReportFailure, PhysicalAbort, Undoable
  <2>3. stored \in {old, Record!Restored}
    BY <2>1 DEF IInv, Kept
  <2> QED
    BY <2>1, <2>2, <2>3, FoundNetwork
<1>3. CASE ApplyStep /\ ~Reload /\ ~ReportFailure
  BY <1>3 DEF ApplyStep, Render, Activate, Persist, CommitFails, Undo, Revert, ReportSuccess,
     Publish, radio
<1> QED
  BY <1>1, <1>2, <1>3

(* However a trial ends, the station is set up for the network that is     *)
(* stored then, apart from the two exceptions of NetRestored.              *)
THEOREM TrialIsUndone == DeviceSpec => NetRestored
<1>1. DeviceInit => Undoable
  BY DEF DeviceInit, Undoable, Before, Written
<1>2. IInv /\ Undoable /\ [DeviceNext]_deviceVars =>
        [~trial' /\ (trial \/ net' # net) =>
            \/ net' = stored'.wifi
            \/ at = "failed" /\ net' = NoNet /\ old.wifi = NoNet
            \/ at = "reload" /\ job.wifi = NoNet]_deviceVars
  <2> SUFFICES ASSUME IInv, Undoable, DeviceNext, ~trial', trial \/ net' # net
               PROVE  \/ net' = stored'.wifi
                      \/ at = "failed" /\ net' = NoNet /\ old.wifi = NoNet
                      \/ at = "reload" /\ job.wifi = NoNet
    OBVIOUS
  <2>1. CASE Serve /\ ~Hello
    <3>1. at = "wait" /\ stored' = stored
      BY <2>1, CommandWaits
    <3> QED
      BY <2>1, <3>1, CommandTrials DEF Undoable, radio, PhysicalAbort
  <2>2. CASE ApplyStep
    BY <2>2, TaskRestores
  <2>3. CASE Hello \/ Unplug \/ Plug
    BY <2>3 DEF Hello, Unplug, Plug, radio
  <2>4. CASE Restart
    BY <2>4 DEF Restart
  <2> QED
    BY <2>1, <2>2, <2>3, <2>4 DEF DeviceNext
<1> QED
  BY <1>1, <1>2, DeviceInvariant, UndoableStep, PTL DEF DeviceSpec, NetRestored

(* What SetupRecord is for.  At every instant, also in the middle of an    *)
(* apply or after a reset in it, the flash holds the setup that the last   *)
(* apply found, the one it was to store, or the found configuration with   *)
(* the credentials of a device that had none; and the device says          *)
(* "complete" only as long as the one that was to be stored is.            *)
THEOREM RecordIsWhole ==
  DeviceSpec => [](/\ stored \in {old, goal, Record!Restored}
                   /\ apply = "complete" => stored = goal)
<1> DEFINE Whole == /\ stored \in {old, goal, Record!Restored}
                    /\ Phase = "complete" => stored = goal
<1>1. Record!Init => Whole
  BY DEF Record!Init
<1>2. Whole /\ [Record!Next]_Record!vars => Whole'
  <2> SUFFICES ASSUME Whole, [Record!Next]_Record!vars PROVE Whole'
    OBVIOUS
  <2>1. CASE Record!Begin
    BY <2>1 DEF Record!Begin
  <2>2. CASE Record!Install \/ Record!Undo
    BY <2>2 DEF Record!Install, Record!Undo, Record!Restored
  <2>3. CASE \/ Record!Refuse \/ Record!Complete \/ Record!Fail \/ Record!Restart
             \/ UNCHANGED Record!vars
    BY <2>3 DEF Record!Refuse, Record!Complete, Record!Fail, Record!Restart, Record!Restored,
       Record!vars
  <2> QED
    BY <2>1, <2>2, <2>3 DEF Record!Next
<1>3. Whole => /\ stored \in {old, goal, Record!Restored}
               /\ apply = "complete" => stored = goal
  BY DEF Phase
<1> HIDE DEF Whole
<1> QED
  BY <1>1, <1>2, <1>3, DeviceKeepsRecord, PTL DEF RecordSpec, Record!Spec
=============================================================================
