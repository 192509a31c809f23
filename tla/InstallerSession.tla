-------------------------- MODULE InstallerSession --------------------------
(***************************************************************************)
(* The browser's setup (createInstallerSession.js, applyConfiguration.js)  *)
(* over a serial line that loses and damages frames, with the device of    *)
(* InstallerDevice at the other end.  A request is one step: what becomes  *)
(* of its frame, and of the answer.  The browser takes the answer in a     *)
(* second step, and the apply task may run between the two.                *)
(***************************************************************************)
EXTENDS InstallerDevice

CONSTANTS
  Want,         \* the configuration the owner has chosen
  OpenResets,   \* whether opening the port may, or must, reset the device
  MaxLosses,    \* bound on lost or damaged frames and moves of the cable
  MaxOwner,     \* bound on connections, retries and submitted networks
  MaxCrashes    \* bound on restarts of the device on its own

ASSUME SessionAssumption ==
  /\ Want \in Configs /\ OpenResets \in SUBSET BOOLEAN
  /\ MaxLosses \in Nat /\ MaxOwner \in Nat /\ MaxCrashes \in Nat

VARIABLES
  pc,         \* the request the browser is at, or the phase it shows
  answer,     \* what came back for that request
  given,      \* the credentials the owner has submitted, or NoNet
  checking,   \* checkingVerification
  resume,     \* device.applyState was "applying"
  resumed,    \* observing an apply that an earlier session started
  attempt,    \* of MAX_APPLY_ATTEMPTS
  recovered,  \* recoveredConnection
  losses, owner, crashes  \* what is left of the bounds

browserVars == <<pc, answer, given, checking, resume, resumed, attempt, recovered>>
bounds == <<losses, owner, crashes>>
vars == <<deviceVars, browserVars, bounds>>

MAX_APPLY_ATTEMPTS == 2

Requests == {"hello", "look", "begin", "stage", "test", "apply", "poll", "rehello",
             "repoll", "retry", "finish"}
(* Phases in which the browser waits for its owner, or is gone.            *)
Phases == {"ready", "wifi", "reconnect", "error", "issue", "complete", "gone"}

Of(status) == [status |-> status, config |-> NoConfig, up |-> FALSE, valid |-> FALSE]
Nothing == Of("nothing")
Silence == Of("silence")

Init ==
  /\ DeviceInit
  /\ pc = "ready" /\ answer = Nothing /\ given = NoNet
  /\ checking = FALSE /\ resume = FALSE /\ resumed = FALSE
  /\ attempt = 0 /\ recovered = FALSE
  /\ losses = MaxLosses /\ owner = MaxOwner /\ crashes = MaxCrashes

-----------------------------------------------------------------------------
(* One request and its answer.                                             *)

Answered(status, heard) == answer' = IF heard THEN Of(status) ELSE Silence
Refused(status, heard) == UNCHANGED deviceVars /\ Answered(status, heard)

(* The link may be down whenever it is looked at, and outside a complete   *)
(* apply the panel may or may not show a forecast.                         *)
State ==
  {[status |-> apply, config |-> stored.config, up |-> up, valid |-> valid] :
     up \in {FALSE, net # NoNet}, valid \in {TRUE, apply = "complete"}}

Served(heard) ==
  \/ pc \in {"hello", "rehello"} /\ Hello /\ Answered("ok", heard)
  \/ /\ pc \in {"look", "poll", "repoll", "retry"} /\ cable
     /\ UNCHANGED deviceVars
     /\ IF heard THEN answer' \in State ELSE answer' = Silence
  \/ /\ pc \in {"begin", "stage", "test", "apply", "finish"} /\ cable /\ Busy
     /\ Refused("apply_busy", heard)
  \/ pc = "begin" /\ Begin(TRUE) /\ Answered("ready", heard)
  \/ pc = "stage" /\ Stage(Want) /\ Answered("configuration_staged", heard)
  \/ pc = "test" /\ TestWifi(given, TRUE) /\ Answered("wifi_ready", heard)
  \/ pc = "test" /\ TestWifi(given, FALSE) /\ Answered("wifi_rejected", heard)
  \/ pc = "apply" /\ Apply /\ Answered("applying", heard)
  \/ /\ pc = "apply" /\ Command /\ staged = NoConfig
     /\ Refused("configuration_required", heard)
  \/ pc = "finish" /\ FinishSetup /\ Answered("finished", heard)
  \/ /\ pc = "finish" /\ Command /\ staged # NoConfig
     /\ Refused("setup_incomplete", heard)

Loss == losses > 0 /\ losses' = losses - 1

Asking == pc \in Requests /\ answer = Nothing
AskStep == UNCHANGED <<pc, given, checking, resume, resumed, attempt, recovered, owner, crashes>>

Exchange == Asking /\ Served(TRUE) /\ AskStep /\ UNCHANGED losses
AnswerLost == Asking /\ Served(FALSE) /\ AskStep /\ Loss

(* The frame never arrives, or arrives damaged.                            *)
RequestLost ==
  /\ Asking /\ AskStep
  /\ IF cable THEN Loss ELSE UNCHANGED losses
  /\ UNCHANGED deviceVars
  /\ answer' = Silence
RequestDamaged == Asking /\ FramingError /\ AskStep /\ Loss /\ answer' = Silence

(* The device sees that its acknowledgement did not leave the UART.        *)
Unacknowledged ==
  /\ Asking /\ pc = "apply" /\ ApplyUnacknowledged
  /\ AskStep /\ Loss /\ answer' = Silence

-----------------------------------------------------------------------------
(* What the browser makes of an answer.                                    *)

Heard == answer # Silence
Got(request) == pc = request /\ answer # Nothing /\ answer' = Nothing
On(request, status) == Got(request) /\ answer.status = status
Move(p) == pc' = p /\ UNCHANGED <<deviceVars, bounds>>

FailedApply == answer.status \in {"render_failed", "commit_failed"}
Verified_shown == answer.up /\ answer.valid  \* mutant: whichever configuration it is
Verified == answer.config = Want /\ answer.up /\ answer.valid

(* configure: a device that was applying is observed first.                *)
Configure_anew(credentials, applying) ==  \* mutant: it is not
  /\ given' = credentials
  /\ resumed' = FALSE
  /\ attempt' = 0 /\ recovered' = FALSE
  /\ Move("begin")

Configure(credentials, applying) ==
  /\ given' = credentials
  /\ resumed' = applying
  /\ attempt' = 0 /\ recovered' = FALSE
  /\ Move(IF applying THEN "poll" ELSE "begin")

Steady == UNCHANGED <<given, checking, resume, resumed, attempt, recovered>>

HelloAnswered ==
  \/ Got("hello") /\ Move(IF Heard THEN "look" ELSE "reconnect") /\ Steady

(* executeAction and attachReconnectedPort.                                *)
LookAnswered ==
  /\ Got("look")
  /\ LET applying == answer.status = "applying" IN
     /\ resume' = IF Heard THEN applying ELSE resume
     /\ UNCHANGED checking
     /\ \/ ~Heard /\ Move("reconnect") /\ UNCHANGED <<given, resumed, attempt, recovered>>
        \/ /\ Heard /\ checking /\ Verified /\ ~applying /\ ~FailedApply
           /\ Move("finish") /\ UNCHANGED <<given, resumed, attempt, recovered>>
        \/ /\ Heard /\ ~(checking /\ Verified /\ ~applying /\ ~FailedApply)
           /\ \/ ~answer.up /\ Move("wifi") /\ UNCHANGED <<given, resumed, attempt, recovered>>
              \/ answer.up /\ Configure(NoNet, applying)

(* The three requests before the apply: an error there ends the attempt    *)
(* in the phase that the error calls for.                                  *)
PrepareAnswered ==
  /\ Steady
  /\ \/ On("begin", "ready") /\ Move("stage")
     \/ On("stage", "configuration_staged") /\ Move(IF given = NoNet THEN "apply" ELSE "test")
     \/ On("test", "wifi_ready") /\ Move("apply")
     \/ Got("test") /\ answer.status \in {"wifi_rejected", "apply_busy"} /\ Move("wifi")
     \/ (Got("begin") \/ Got("stage")) /\ answer.status = "apply_busy" /\ Move("error")
     \/ (Got("begin") \/ Got("stage") \/ Got("test")) /\ ~Heard /\ Move("reconnect")

(* A lost acknowledgement is recovered from once, and then observed.       *)
ApplyAnswered ==
  /\ Got("apply")
  /\ UNCHANGED <<given, checking, resume, resumed, attempt>>
  /\ \/ answer.status = "applying" /\ Move("poll") /\ UNCHANGED recovered
     \/ Heard /\ answer.status # "applying" /\ Move("issue") /\ UNCHANGED recovered
     \/ ~Heard /\ Move(IF recovered THEN "issue" ELSE "rehello") /\ recovered' = TRUE

RecoverAnswered ==
  /\ Got("rehello")
  /\ Move(IF Heard THEN "repoll" ELSE "issue") /\ Steady

(* waitForApply and the decisions on the status it returns.  The deadline  *)
(* may pass while the device is not done.                                  *)
Wait_forever == Move("poll")  \* mutant: there is no deadline
Wait == \E p \in {"poll", "issue"} : Move(p)

MayRetry_more ==  \* mutant: one attempt too many
  answer.status = "render_failed" /\ attempt < MAX_APPLY_ATTEMPTS
MayRetry == answer.status = "render_failed" /\ attempt + 1 < MAX_APPLY_ATTEMPTS

Decide ==
  \/ /\ answer.status \in {"idle", "applying"}
     /\ Wait
     /\ UNCHANGED <<resumed, attempt>>
  \/ /\ answer.status = "complete" \/ FailedApply
     /\ resumed' = FALSE
     /\ \/ /\ ~FailedApply /\ Verified /\ (resumed => given = NoNet)
           /\ Move("finish") /\ UNCHANGED attempt
        \/ /\ ~FailedApply /\ resumed /\ ~(Verified /\ given = NoNet)
           /\ Move("begin") /\ UNCHANGED attempt
        \/ /\ ~FailedApply /\ ~resumed /\ ~Verified
           /\ Move("issue") /\ UNCHANGED attempt
        \/ /\ MayRetry
           /\ Move("begin") /\ attempt' = attempt + 1
        \/ FailedApply /\ Move("issue") /\ UNCHANGED attempt

PollAnswered ==
  /\ Got("poll") \/ Got("repoll")
  /\ UNCHANGED <<given, checking, resume>>
  /\ \/ Heard /\ Decide /\ UNCHANGED recovered
     \/ /\ ~Heard
        /\ Move(IF recovered THEN "issue" ELSE "rehello") /\ recovered' = TRUE
        /\ UNCHANGED <<resumed, attempt>>

(* finish_setup is not waited for to succeed.                              *)
FinishAnswered == Got("finish") /\ Move("complete") /\ Steady

(* retrySetup.                                                             *)
RetryAnswered ==
  /\ Got("retry")
  /\ UNCHANGED checking
  /\ LET applying == answer.status = "applying"
         installed == answer.status = "complete" /\ answer.valid /\ answer.config = Want IN
     /\ resume' = IF Heard THEN applying ELSE resume
     /\ \/ ~Heard /\ Move("issue") /\ UNCHANGED <<given, resumed, attempt, recovered>>
        \/ Heard /\ ~answer.up /\ Move("wifi") /\ UNCHANGED <<given, resumed, attempt, recovered>>
        \/ /\ Heard /\ answer.up /\ installed
           /\ Move("finish") /\ UNCHANGED <<given, resumed, attempt, recovered>>
        \/ Heard /\ answer.up /\ ~installed /\ Configure(NoNet, applying)

Answering ==
  \/ HelloAnswered \/ LookAnswered \/ PrepareAnswered \/ ApplyAnswered \/ RecoverAnswered
  \/ PollAnswered \/ FinishAnswered \/ RetryAnswered

-----------------------------------------------------------------------------
(* The owner.                                                              *)

Attempt == owner > 0 /\ owner' = owner - 1

(* connect and reconnect: opening the port resets the device where the     *)
(* bridge has the lines for it.                                            *)
Connect ==
  /\ pc \in Phases /\ Attempt
  /\ pc' = "hello" /\ checking' = (pc = "issue") /\ answer' = Nothing
  /\ \/ TRUE \in OpenResets /\ Restart
     \/ FALSE \in OpenResets /\ UNCHANGED deviceVars
  /\ UNCHANGED <<given, resume, resumed, attempt, recovered, losses, crashes>>

SubmitWifi ==
  /\ pc = "wifi" /\ Attempt
  /\ \E w \in Networks : given' = w
  /\ resumed' = resume /\ attempt' = 0 /\ recovered' = FALSE
  /\ pc' = IF resume THEN "poll" ELSE "begin"
  /\ UNCHANGED <<deviceVars, answer, checking, resume, losses, crashes>>

RetrySetup ==
  /\ pc = "issue" /\ Attempt
  /\ pc' = "retry"
  /\ UNCHANGED <<deviceVars, answer, given, checking, resume, resumed, attempt, recovered, losses,
                 crashes>>

(* The tab is closed, in the middle of anything.                           *)
Leave ==
  /\ pc # "gone"
  /\ pc' = "gone" /\ answer' = Nothing
  /\ UNCHANGED <<deviceVars, given, checking, resume, resumed, attempt, recovered, bounds>>

-----------------------------------------------------------------------------
(* The device and the line on their own.                                   *)

DeviceAlone ==
  /\ ApplyStep \/ Idle
  /\ UNCHANGED <<browserVars, bounds>>
Crash ==
  /\ crashes > 0 /\ crashes' = crashes - 1
  /\ Restart
  /\ UNCHANGED <<browserVars, losses, owner>>
CableMoved == Loss /\ (Unplug \/ Plug) /\ UNCHANGED <<browserVars, owner, crashes>>

Next ==
  \/ Exchange \/ AnswerLost \/ RequestLost \/ RequestDamaged \/ Unacknowledged
  \/ Answering
  \/ Connect \/ SubmitWifi \/ RetrySetup \/ Leave
  \/ DeviceAlone \/ Crash \/ CableMoved

(* A request is answered or times out; the tasks of the device run; two    *)
(* quiet minutes pass once the tab is closed.  The deadline ends a wait.   *)
Fairness ==
  /\ WF_vars(Asking /\ (Exchange \/ RequestLost))
  /\ WF_vars(Answering)
  /\ WF_vars(ApplyStep /\ UNCHANGED <<browserVars, bounds>>)
  /\ SF_vars(PollAnswered /\ pc' # "poll")
  /\ WF_vars(pc = "gone" /\ DeviceAlone)

Spec == Init /\ [][Next]_vars /\ Fairness

-----------------------------------------------------------------------------
(* Properties.                                                             *)

SessionTypeOK ==
  /\ DeviceTypeOK
  /\ pc \in Requests \cup Phases
  /\ answer.config \in Configs \cup {NoConfig} /\ answer.up \in BOOLEAN
  /\ answer.valid \in BOOLEAN
  /\ given \in Wifi
  /\ checking \in BOOLEAN /\ resume \in BOOLEAN /\ resumed \in BOOLEAN
  /\ attempt \in 0..(MAX_APPLY_ATTEMPTS - 1) /\ recovered \in BOOLEAN
  /\ losses \in 0..MaxLosses /\ owner \in 0..MaxOwner /\ crashes \in 0..MaxCrashes

(* The browser observes a running apply before it changes anything, so     *)
(* that none of its own commands is turned away by one.                    *)
NeverBusy == answer.status # "apply_busy"

Claim == pc' = "complete" /\ pc # "complete"

(* Whatever was lost, retried, reset or left running by an earlier tab,    *)
(* the browser says that setup is complete only when the configuration     *)
(* that the owner chose is stored and shown.                               *)
ClaimShown == [][Claim => stored.config = Want /\ running = Want]_vars

(* The same of the network: "Verification already proved the saved setup   *)
(* and panel" (applyConfiguration.js).  It does not hold.                  *)
ClaimSaved == [][Claim => stored.wifi = net]_vars

(* With no network on trial and no apply at work, the station is set up    *)
(* for the stored network, but for a device that had none to go back to.   *)
(* It does not hold: a device that restarts between stage and test has a   *)
(* trial with nothing staged, which finish_setup forgets and the next      *)
(* apply without credentials ends (InstallerDevice's NetRestored).         *)
NetStored ==
  ~trial /\ ~Busy =>
    \/ net = stored.wifi
    \/ net = NoNet /\ old.wifi = NoNet /\ apply = "commit_failed"

(* Every request ends in a phase in which the owner can do something.      *)
Settles == (pc \in Requests) ~> (pc \in Phases)

(* Once the tab is closed, the installer does not keep the device awake    *)
(* without a cable, nor after an apply that this tab's begin had asked to  *)
(* be acknowledged.                                                        *)
Committed == apply = "complete" /\ staged = NoConfig
Deserted == pc = "gone" /\ lock /\ ~Busy /\ (~cable \/ (Committed /\ ack))
Released == Deserted ~> ~Deserted

(* "Once the setup is committed, however, a vanished browser must not      *)
(* suppress scheduled refreshes forever" (wind_installer_service.c).  It   *)
(* does not hold after a later hello.                                      *)
CommittedReleases == (pc = "gone" /\ Committed) ~> (~lock \/ pc # "gone")
=============================================================================
