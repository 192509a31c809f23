---------------------------- MODULE SessionProofs ----------------------------
(***************************************************************************)
(* For every set of configurations and networks, every configuration that  *)
(* the owner may want and every bound on losses, retries and restarts: the *)
(* browser's setup uses the device as InstallerDevice says a client may,   *)
(* never has a command turned away by a running apply, and claims only     *)
(* what is stored and shown.                                               *)
(***************************************************************************)
EXTENDS InstallerSession, InstallerProofs

(* The requests that read the device's state, and what they may hear.      *)
Reads == {"look", "poll", "repoll", "retry"}
Reports ==
  [status : Results \cup {"idle", "applying"}, config : Configs, up : BOOLEAN, valid : BOOLEAN]

(* What the other requests may hear; "apply_busy" is not among it.         *)
Replies ==
  {Of(status) : status \in {"ok", "ready", "configuration_staged", "wifi_ready", "wifi_rejected",
                            "applying", "configuration_required", "finished",
                            "setup_incomplete"}}

(* An answer belongs to the request that the browser is at.                *)
AnswerFits ==
  /\ answer \in {Nothing, Silence} \cup Reports \cup Replies
  /\ pc \in Reads => answer \notin Replies
  /\ pc \notin Reads => answer \in {Nothing, Silence} \cup Replies
  /\ pc \in Phases => answer = Nothing

(* Networks are tested only when the owner gave one.                       *)
GivenTested == pc = "test" => given \in Networks

(* Where the browser is about to change something, no apply runs; what a   *)
(* device at rest has reported is still so.                                *)
AtRest ==
  /\ pc \in {"begin", "stage", "test", "finish"} => ~Busy
  /\ pc = "apply" /\ answer = Nothing => ~Busy
  /\ pc = "wifi" /\ ~resume => ~Busy
  /\ pc \in Reads /\ answer.status \in Results \cup {"idle"} =>
       ~Busy /\ answer.config = stored.config

(* The last request is sent only after the report of what the owner chose. *)
Confirmed == pc = "finish" => stored.config = Want

BrowserOK ==
  /\ pc \in Requests \cup Phases
  /\ given \in Wifi
  /\ checking \in BOOLEAN /\ resume \in BOOLEAN /\ resumed \in BOOLEAN
  /\ attempt \in 0..(MAX_APPLY_ATTEMPTS - 1) /\ recovered \in BOOLEAN
  /\ losses \in 0..MaxLosses /\ owner \in 0..MaxOwner /\ crashes \in 0..MaxCrashes

SInv == IInv /\ BrowserOK /\ AnswerFits /\ GivenTested /\ AtRest /\ Confirmed

-----------------------------------------------------------------------------
(* The device under the browser.                                           *)

(* A device at rest that is not told to apply stays at rest, and keeps     *)
(* what it has stored.                                                     *)
LEMMA RestStays ==
  ASSUME IInv, ~Busy, [DeviceNext]_deviceVars, ~Apply
  PROVE  ~Busy' /\ stored' = stored
<1>1. at = "wait"
  BY DEF IInv, InTask
<1>2. CASE Serve
  <2>1. stored' = stored
    BY <1>2 DEF Serve, Hello, Begin, Stage, TestWifi, RejectWifi, ApplyUnacknowledged,
       FinishSetup, Cancel, Unparsable, FramingError, Idle
  <2>2. apply' \in {apply, "commit_failed"}
    BY <1>2 DEF Serve, Hello, Begin, Stage, TestWifi, RejectWifi, ApplyUnacknowledged,
       FinishSetup, Cancel, Unparsable, FramingError, Idle, task
  <2> QED
    BY <2>1, <2>2 DEF Busy
<1>3. CASE ApplyStep
  BY <1>1, <1>3 DEF ApplyStep, Render, Activate, Persist, Reload, CommitFails, Undo, Revert,
     ReportFailure, ReportSuccess, Publish, Goto
<1>4. CASE Unplug \/ Plug \/ UNCHANGED deviceVars
  BY <1>4 DEF Unplug, Plug, deviceVars, task, Busy
<1>5. CASE Restart
  BY <1>5 DEF Restart, Busy
<1> QED
  BY <1>2, <1>3, <1>4, <1>5 DEF DeviceNext

(* A command never leaves another record behind.                           *)
LEMMA ServeStores ==
  ASSUME Serve
  PROVE  stored' = stored
BY DEF Serve, Hello, Begin, Stage, TestWifi, RejectWifi, Apply, ApplyUnacknowledged, FinishSetup,
   Cancel, Unparsable, FramingError, Idle

(* The answers are told apart by their status.                             *)
LEMMA AnswersDiffer ==
  /\ Nothing # Silence
  /\ Nothing \notin Reports \cup Replies /\ Silence \notin Reports \cup Replies
  /\ Nothing.status \notin Results \cup {"idle"}
  /\ Silence.status \notin Results \cup {"idle"}
  /\ \A r \in Replies : r.status # "apply_busy" /\ r \notin Reports
BY InstallerAssumption DEF Nothing, Silence, Of, Reports, Replies, Results

(* What a request that changes something, or says hello, may be answered.  *)
LEMMA RepliesAre ==
  ASSUME NEW status \in {"ok", "ready", "configuration_staged", "wifi_ready", "wifi_rejected",
                         "applying", "configuration_required", "finished", "setup_incomplete"},
         NEW heard \in BOOLEAN, Answered(status, heard)
  PROVE  answer' \in {Silence} \cup Replies
BY DEF Answered, Replies

(* A step in which the browser gets what is to be its answer.              *)
LEMMA AskKeeps ==
  ASSUME SInv, Asking, AskStep, losses' \in 0..MaxLosses,
         [DeviceNext]_deviceVars, stored' = stored,
         answer' \in {Silence} \cup (IF pc \in Reads THEN Reports ELSE Replies),
         pc \in {"begin", "stage", "test", "finish"} => ~Busy',
         pc \in Reads /\ answer'.status \in Results \cup {"idle"} =>
           ~Busy' /\ answer'.config = stored.config
  PROVE  SInv'
<1>1. IInv'
  BY StepKeepsInv DEF SInv
<1>2. /\ UNCHANGED <<pc, given, checking, resume, resumed, attempt, recovered, owner, crashes>>
      /\ pc \in Requests
  BY DEF AskStep, Asking
<1>3. pc \notin Phases /\ pc # "wifi" /\ answer' # Nothing
  BY <1>2, AnswersDiffer DEF Requests, Phases
<1>4. BrowserOK'
  BY <1>2 DEF SInv, BrowserOK
<1>5. AnswerFits'
  <2>1. answer' \in {Silence} \cup Reports \cup Replies
    OBVIOUS
  <2>2. pc \in Reads => answer' \notin Replies
    BY AnswersDiffer
  <2>3. pc \notin Reads => answer' \in {Silence} \cup Replies
    OBVIOUS
  <2> QED
    BY <1>2, <1>3, <2>1, <2>2, <2>3 DEF AnswerFits
<1>6. GivenTested' /\ Confirmed'
  BY <1>2 DEF SInv, GivenTested, Confirmed
<1>7. AtRest'
  BY <1>2, <1>3 DEF AtRest
<1> QED
  BY <1>1, <1>4, <1>5, <1>6, <1>7 DEF SInv

-----------------------------------------------------------------------------
(* Requests.                                                               *)

(* A request that the device serves: what it does is a command that any    *)
(* client may give, and its answer fits the request.                       *)
LEMMA ServedKeeps ==
  ASSUME SInv, Asking, AskStep, losses' \in 0..MaxLosses, NEW heard \in BOOLEAN, Served(heard)
  PROVE  SInv'
<1>a. IInv /\ pc \in Requests /\ answer = Nothing
  BY DEF SInv, Asking
<1>b. pc \in {"begin", "stage", "test", "apply", "finish"} => ~Busy
  BY <1>a DEF SInv, AtRest
<1>1. CASE pc \in {"hello", "rehello"} /\ Hello /\ Answered("ok", heard)
  <2>1. Serve
    BY <1>1 DEF Serve
  <2>2. answer' \in {Silence} \cup Replies
    BY <1>1, RepliesAre
  <2> QED
    BY <1>1, <2>1, <2>2, ServeStores, AskKeeps DEF DeviceNext, Reads
<1>2. CASE /\ pc \in Reads /\ UNCHANGED deviceVars
           /\ IF heard THEN answer' \in State ELSE answer' = Silence
  <2>1. stored' = stored /\ apply' = apply
    BY <1>2 DEF deviceVars, task
  <2>2. stored.config \in Configs /\ apply \in Results \cup {"idle", "applying"}
    BY <1>a DEF IInv, DeviceTypeOK, Setups
  <2>3. CASE heard
    <3>1. PICK up \in {FALSE, net # NoNet}, valid \in {TRUE, apply = "complete"} :
            answer' = [status |-> apply, config |-> stored.config, up |-> up, valid |-> valid]
      BY <1>2, <2>3 DEF State
    <3>2. up \in BOOLEAN /\ valid \in BOOLEAN
      OBVIOUS
    <3>3. answer' \in Reports
      BY <2>2, <3>1, <3>2 DEF Reports
    <3>4. answer'.status = apply /\ answer'.config = stored.config
      BY <3>1
    <3>5. apply \in Results \cup {"idle"} => ~Busy'
      BY <2>1 DEF Busy, Results
    <3> QED
      BY <1>2, <2>1, <3>3, <3>4, <3>5, AskKeeps DEF Reads
  <2>4. CASE ~heard
    <3>1. answer' = Silence
      BY <1>2, <2>4
    <3> QED
      BY <1>2, <2>1, <3>1, AnswersDiffer, AskKeeps DEF Reads
  <2> QED
    BY <2>3, <2>4
<1>3. CASE /\ pc \in {"begin", "stage", "test", "apply", "finish"} /\ Busy
  BY <1>b, <1>3
<1>4. CASE \/ pc = "begin" /\ Begin(TRUE) /\ Answered("ready", heard)
           \/ pc = "stage" /\ Stage(Want) /\ Answered("configuration_staged", heard)
           \/ pc = "test" /\ TestWifi(given, TRUE) /\ Answered("wifi_ready", heard)
           \/ pc = "test" /\ TestWifi(given, FALSE) /\ Answered("wifi_rejected", heard)
           \/ pc = "finish" /\ FinishSetup /\ Answered("finished", heard)
  <2>1. Serve
    BY <1>4, SessionAssumption DEF Serve, SInv, GivenTested
  <2>2. ~Busy /\ ~Busy' /\ pc \notin Reads
    <3>1. apply' = apply
      BY <1>4 DEF Begin, Stage, TestWifi, FinishSetup, task
    <3> QED
      BY <1>b, <1>4, <3>1 DEF Busy, Reads
  <2>3. answer' \in {Silence} \cup Replies
    BY <1>4, RepliesAre
  <2> QED
    BY <2>1, <2>2, <2>3, ServeStores, AskKeeps DEF DeviceNext
<1>5. CASE pc = "apply" /\ Apply /\ Answered("applying", heard)
  <2>1. Serve
    BY <1>5 DEF Serve
  <2>2. answer' \in {Silence} \cup Replies
    BY <1>5, RepliesAre
  <2> QED
    BY <1>5, <2>1, <2>2, ServeStores, AskKeeps DEF DeviceNext, Reads
<1>6. CASE \/ pc = "apply" /\ Refused("configuration_required", heard)
           \/ pc = "finish" /\ Refused("setup_incomplete", heard)
  <2>1. UNCHANGED deviceVars
    BY <1>6 DEF Refused
  <2>2. stored' = stored /\ ~Busy'
    BY <1>b, <1>6, <2>1 DEF deviceVars, task, Busy
  <2>3. answer' \in {Silence} \cup Replies
    BY <1>6, RepliesAre DEF Refused
  <2> QED
    BY <1>6, <2>1, <2>2, <2>3, AskKeeps DEF Reads
<1> QED
  BY <1>1, <1>2, <1>3, <1>4, <1>5, <1>6 DEF Served, Reads

(* A request that is lost, damaged, or acknowledged into the void.         *)
LEMMA UnheardKeeps ==
  ASSUME SInv, RequestLost \/ RequestDamaged \/ Unacknowledged
  PROVE  SInv'
<1>a. IInv /\ Asking /\ AskStep /\ answer' = Silence
  BY DEF SInv, RequestLost, RequestDamaged, Unacknowledged
<1>b. losses' \in 0..MaxLosses
  BY SessionAssumption DEF SInv, BrowserOK, RequestLost, RequestDamaged, Unacknowledged, Loss
<1>c. pc \in {"begin", "stage", "test", "finish"} => ~Busy
  BY DEF SInv, AtRest
<1>1. CASE RequestLost
  <2>1. UNCHANGED deviceVars
    BY <1>1 DEF RequestLost
  <2>2. stored' = stored /\ apply' = apply
    BY <2>1 DEF deviceVars, task
  <2> QED
    BY <1>a, <1>b, <1>c, <2>1, <2>2, AnswersDiffer, AskKeeps DEF Busy
<1>2. CASE RequestDamaged \/ Unacknowledged
  <2>1. FramingError \/ ApplyUnacknowledged
    BY <1>2 DEF RequestDamaged, Unacknowledged
  <2>2. Serve /\ ~Busy'
    BY <2>1 DEF Serve, FramingError, ApplyUnacknowledged, Command, Busy, task
  <2> QED
    BY <1>a, <1>b, <2>2, ServeStores, AnswersDiffer, AskKeeps DEF DeviceNext
<1> QED
  BY <1>1, <1>2

-----------------------------------------------------------------------------
(* Answers.                                                                *)

(* A step in which the browser takes its answer and moves on.              *)
LEMMA MoveKeeps ==
  ASSUME SInv, UNCHANGED deviceVars, answer' = Nothing, BrowserOK',
         pc' \in {"begin", "stage", "test", "apply", "finish"} => ~Busy,
         pc' = "wifi" /\ ~resume' => ~Busy,
         pc' = "test" => given' \in Networks,
         pc' = "finish" => stored.config = Want
  PROVE  SInv'
<1>1. IInv'
  BY StepKeepsInv DEF SInv
<1>2. stored' = stored /\ apply' = apply
  BY DEF deviceVars, task
<1>3. AnswerFits'
  BY AnswersDiffer DEF AnswerFits
<1>4. GivenTested' /\ Confirmed'
  BY <1>2 DEF GivenTested, Confirmed
<1>5. AtRest'
  BY <1>2, AnswersDiffer DEF AtRest, Busy
<1> QED
  BY <1>1, <1>3, <1>4, <1>5 DEF SInv

(* What the browser has heard of the device's state.                       *)
LEMMA HeardReport ==
  ASSUME SInv, pc \in Reads, answer # Nothing, Heard
  PROVE  /\ answer \in Reports
         /\ answer.status # "applying" => ~Busy /\ answer.config = stored.config
<1>1. answer \in Reports
  BY DEF SInv, AnswerFits, Heard
<1>2. answer.status # "applying" => answer.status \in Results \cup {"idle"}
  BY <1>1 DEF Reports
<1> QED
  BY <1>1, <1>2 DEF SInv, AtRest

(* The answer to a hello, an apply, or the last request.                   *)
LEMMA PlainAnswers ==
  ASSUME SInv, HelloAnswered \/ ApplyAnswered \/ RecoverAnswered \/ FinishAnswered
  PROVE  SInv'
<1>1. UNCHANGED <<deviceVars, bounds, given, checking, resume, resumed, attempt>> /\ answer' = Nothing
  BY DEF HelloAnswered, ApplyAnswered, RecoverAnswered, FinishAnswered, Got, Move, Steady
<1>2. recovered' \in BOOLEAN
  BY DEF HelloAnswered, ApplyAnswered, RecoverAnswered, FinishAnswered, Got, Steady, SInv, BrowserOK
<1>3. pc' \in {"look", "reconnect", "poll", "issue", "rehello", "repoll", "complete"}
  BY DEF HelloAnswered, ApplyAnswered, RecoverAnswered, FinishAnswered, Move
<1>4. BrowserOK'
  BY <1>1, <1>2, <1>3 DEF SInv, BrowserOK, bounds, Requests, Phases
<1> QED
  BY <1>1, <1>3, <1>4, MoveKeeps

(* The answer to begin, stage or test: no apply runs, and none begins.     *)
LEMMA PrepareKeeps ==
  ASSUME SInv, PrepareAnswered
  PROVE  SInv'
<1>1. UNCHANGED <<deviceVars, bounds, given, checking, resume, resumed, attempt, recovered>>
      /\ answer' = Nothing
  BY DEF PrepareAnswered, Got, On, Move, Steady
<1>2. pc \in {"begin", "stage", "test"}
  BY DEF PrepareAnswered, Got, On
<1>3. ~Busy
  BY <1>2 DEF SInv, AtRest
<1>4. /\ pc' \in {"stage", "test", "apply", "wifi", "error", "reconnect"}
      /\ pc' = "test" => given # NoNet
  BY <1>2 DEF PrepareAnswered, Got, On, Move
<1>5. BrowserOK'
  BY <1>1, <1>4 DEF SInv, BrowserOK, bounds, Requests, Phases
<1>6. pc' = "test" => given' \in Networks
  BY <1>1, <1>4 DEF SInv, BrowserOK, Wifi
<1> QED
  BY <1>1, <1>3, <1>4, <1>5, <1>6, MoveKeeps

(* The first look at the device, and the one of a retry: an apply that     *)
(* runs is observed, and nothing but it.                                   *)
LEMMA LookKeeps ==
  ASSUME SInv, LookAnswered \/ RetryAnswered
  PROVE  SInv'
<1>a. pc \in Reads /\ answer # Nothing /\ answer' = Nothing
  BY DEF LookAnswered, RetryAnswered, Got, Reads
<1>b. NoNet \in Wifi /\ 0 \in 0..(MAX_APPLY_ATTEMPTS - 1)
  BY DEF Wifi, MAX_APPLY_ATTEMPTS
<1>c. UNCHANGED <<deviceVars, bounds, checking>>
  BY DEF LookAnswered, RetryAnswered, Move, Configure
<1>1. CASE ~Heard
  <2>1. pc' \in {"reconnect", "issue"}
    BY <1>1 DEF LookAnswered, RetryAnswered, Move
  <2>2. UNCHANGED <<given, resume, resumed, attempt, recovered>>
    BY <1>1 DEF LookAnswered, RetryAnswered
  <2>3. BrowserOK'
    BY <1>c, <2>1, <2>2 DEF SInv, BrowserOK, bounds, Requests, Phases
  <2> QED
    BY <1>a, <1>c, <2>1, <2>3, MoveKeeps
<1>2. CASE Heard
  <2>a. resume' = (answer.status = "applying")
    BY <1>2 DEF LookAnswered, RetryAnswered
  <2>b. answer.status # "applying" => ~Busy /\ answer.config = stored.config
    BY <1>a, <1>2, HeardReport
  <2>1. \/ pc' = "wifi" /\ UNCHANGED <<given, resumed, attempt, recovered>>
        \/ /\ pc' = "finish" /\ UNCHANGED <<given, resumed, attempt, recovered>>
           /\ answer.status # "applying" /\ answer.config = Want
        \/ Configure(NoNet, answer.status = "applying")
    BY <1>2 DEF LookAnswered, RetryAnswered, Move, Verified
  <2>2. CASE pc' \in {"wifi", "finish"} /\ UNCHANGED <<given, resumed, attempt, recovered>>
    <3>1. BrowserOK'
      BY <1>c, <2>a, <2>2 DEF SInv, BrowserOK, bounds, Requests, Phases
    <3>2. pc' = "finish" => answer.status # "applying" /\ answer.config = Want
      BY <2>1, <2>2 DEF Configure, Move
    <3> QED
      BY <1>a, <1>c, <2>a, <2>b, <2>2, <3>1, <3>2, MoveKeeps
  <2>3. CASE Configure(NoNet, answer.status = "applying")
    <3>1. /\ given' = NoNet /\ attempt' = 0 /\ recovered' = FALSE
          /\ resumed' = (answer.status = "applying")
          /\ pc' = IF answer.status = "applying" THEN "poll" ELSE "begin"
      BY <2>3 DEF Configure, Move
    <3>2. BrowserOK'
      BY <1>b, <1>c, <2>a, <3>1 DEF SInv, BrowserOK, bounds, Requests, Phases
    <3> QED
      BY <1>a, <1>c, <2>b, <3>1, <3>2, MoveKeeps
  <2> QED
    BY <2>1, <2>2, <2>3
<1> QED
  BY <1>1, <1>2

(* The status that an apply is waited for with: only one that has ended    *)
(* lets the browser begin again, or finish.                                *)
LEMMA PollKeeps ==
  ASSUME SInv, PollAnswered
  PROVE  SInv'
<1>a. pc \in Reads /\ answer # Nothing /\ answer' = Nothing
  BY DEF PollAnswered, Got, Reads
<1>b. UNCHANGED <<deviceVars, bounds, given, checking, resume>>
  BY DEF PollAnswered, Decide, Wait, Move
<1>c. recovered' \in BOOLEAN
  BY DEF PollAnswered, SInv, BrowserOK
<1>1. CASE ~Heard
  <2>1. pc' \in {"issue", "rehello"} /\ UNCHANGED <<resumed, attempt>>
    BY <1>1 DEF PollAnswered, Move
  <2>2. BrowserOK'
    BY <1>b, <1>c, <2>1 DEF SInv, BrowserOK, bounds, Requests, Phases
  <2> QED
    BY <1>a, <1>b, <2>1, <2>2, MoveKeeps
<1>2. CASE Heard
  <2>a. answer.status # "applying" => ~Busy /\ answer.config = stored.config
    BY <1>a, <1>2, HeardReport
  <2>b. Decide
    BY <1>2 DEF PollAnswered
  <2>1. CASE answer.status \in {"idle", "applying"} /\ Wait /\ UNCHANGED <<resumed, attempt>>
    <3>1. pc' \in {"poll", "issue"}
      BY <2>1 DEF Wait, Move
    <3>2. BrowserOK'
      BY <1>b, <1>c, <2>1, <3>1 DEF SInv, BrowserOK, bounds, Requests, Phases
    <3> QED
      BY <1>a, <1>b, <3>1, <3>2, MoveKeeps
  <2>2. CASE ~(answer.status \in {"idle", "applying"} /\ Wait /\ UNCHANGED <<resumed, attempt>>)
    <3>1. answer.status # "applying"
      BY <2>b, <2>2 DEF Decide, FailedApply
    <3>2. resumed' = FALSE /\ pc' \in {"finish", "begin", "issue"}
      BY <2>b, <2>2 DEF Decide, Move
    <3>3. pc' = "finish" => answer.config = Want
      BY <2>b, <2>2 DEF Decide, Move, Verified
    <3>4. attempt' = attempt \/ (MayRetry /\ attempt' = attempt + 1)
      BY <2>b, <2>2 DEF Decide
    <3>5. attempt' \in 0..(MAX_APPLY_ATTEMPTS - 1)
      BY <3>4 DEF SInv, BrowserOK, MayRetry, MAX_APPLY_ATTEMPTS
    <3>6. BrowserOK'
      BY <1>b, <1>c, <3>2, <3>5 DEF SInv, BrowserOK, bounds, Requests, Phases
    <3> QED
      BY <1>a, <1>b, <2>a, <3>1, <3>2, <3>3, <3>6, MoveKeeps
  <2> QED
    BY <2>1, <2>2
<1> QED
  BY <1>1, <1>2

-----------------------------------------------------------------------------
(* The owner, the device and the line.                                     *)

(* The owner connects again, submits a network, retries, or closes the     *)
(* tab.                                                                    *)
LEMMA OwnerKeeps ==
  ASSUME SInv, Connect \/ SubmitWifi \/ RetrySetup \/ Leave
  PROVE  SInv'
<1>a. owner > 0 /\ owner' = owner - 1 => owner' \in 0..MaxOwner
  BY SessionAssumption DEF SInv, BrowserOK
<1>1. CASE Connect
  <2>1. [DeviceNext]_deviceVars
    BY <1>1 DEF Connect, DeviceNext
  <2>2. IInv'
    BY <2>1, StepKeepsInv DEF SInv
  <2>3. /\ pc' = "hello" /\ checking' \in BOOLEAN /\ answer' = Nothing
        /\ UNCHANGED <<given, resume, resumed, attempt, recovered, losses, crashes>>
        /\ owner' \in 0..MaxOwner
    BY <1>1, <1>a DEF Connect, Attempt
  <2>4. BrowserOK'
    BY <2>3 DEF SInv, BrowserOK, Requests
  <2>5. AnswerFits' /\ GivenTested' /\ AtRest' /\ Confirmed'
    BY <2>3, AnswersDiffer DEF AnswerFits, GivenTested, AtRest, Confirmed, Reads, Phases
  <2> QED
    BY <2>2, <2>4, <2>5 DEF SInv
<1>2. CASE SubmitWifi
  <2>1. /\ pc = "wifi" /\ pc' = IF resume THEN "poll" ELSE "begin"
        /\ given' \in Networks /\ resumed' = resume /\ attempt' = 0 /\ recovered' = FALSE
        /\ UNCHANGED <<deviceVars, answer, checking, resume, losses, crashes>>
        /\ owner' \in 0..MaxOwner
    BY <1>2, <1>a DEF SubmitWifi, Attempt
  <2>2. answer' = Nothing
    BY <2>1 DEF SInv, AnswerFits, Phases
  <2>3. ~resume => ~Busy
    BY <2>1 DEF SInv, AtRest
  <2>4. given' \in Wifi /\ attempt' \in 0..(MAX_APPLY_ATTEMPTS - 1)
    BY <2>1 DEF Wifi, MAX_APPLY_ATTEMPTS
  <2>5. BrowserOK'
    BY <2>1, <2>4 DEF SInv, BrowserOK, Requests
  <2> QED
    BY <2>1, <2>2, <2>3, <2>5, MoveKeeps
<1>3. CASE RetrySetup \/ Leave
  <2>1. /\ pc' \in {"retry", "gone"}
        /\ UNCHANGED <<deviceVars, given, checking, resume, resumed, attempt, recovered, losses,
                       crashes>>
        /\ owner' \in 0..MaxOwner
    BY <1>3, <1>a DEF RetrySetup, Leave, Attempt, bounds, SInv, BrowserOK
  <2>2. answer' = Nothing
    BY <1>3 DEF RetrySetup, Leave, SInv, AnswerFits, Phases
  <2>3. BrowserOK'
    BY <2>1 DEF SInv, BrowserOK, Requests, Phases
  <2> QED
    BY <2>1, <2>2, <2>3, MoveKeeps
<1> QED
  BY <1>1, <1>2, <1>3

(* The device and the line on their own: nothing begins an apply.          *)
LEMMA AloneKeeps ==
  ASSUME SInv, DeviceAlone \/ Crash \/ CableMoved
  PROVE  SInv'
<1>1. UNCHANGED browserVars
  BY DEF DeviceAlone, Crash, CableMoved
<1>2. [DeviceNext]_deviceVars /\ ~Apply
  <2>1. ApplyStep \/ Idle \/ Restart \/ Unplug \/ Plug
    BY DEF DeviceAlone, Crash, CableMoved
  <2>2. DeviceNext
    BY <2>1 DEF DeviceNext, Serve
  <2>3. ~Apply
    <3>1. CASE ApplyStep
      <4>1. at # "wait"
        BY <3>1 DEF ApplyStep, Render, Activate, Persist, Reload, CommitFails, Undo, Revert,
           ReportFailure, ReportSuccess, Publish, Goto
      <4> QED
        BY <4>1 DEF SInv, IInv, InTask, Apply, Command
    <3>2. CASE Idle \/ Unplug \/ Plug
      BY <3>2 DEF Idle, Unplug, Plug, Apply, Command, Busy, task
    <3>3. CASE Restart
      BY <3>3 DEF Restart, Apply
    <3> QED
      BY <2>1, <3>1, <3>2, <3>3
  <2> QED
    BY <2>2, <2>3
<1>3. IInv'
  BY <1>2, StepKeepsInv DEF SInv
<1>4. ~Busy => ~Busy' /\ stored' = stored
  BY <1>2, RestStays DEF SInv
<1>5. /\ losses' \in 0..MaxLosses /\ crashes' \in 0..MaxCrashes /\ owner' = owner
  BY SessionAssumption DEF SInv, BrowserOK, DeviceAlone, Crash, CableMoved, Loss, bounds
<1>6. BrowserOK'
  BY <1>1, <1>5 DEF browserVars, SInv, BrowserOK
<1>7. AnswerFits' /\ GivenTested'
  BY <1>1 DEF browserVars, SInv, AnswerFits, GivenTested
<1>8. AtRest'
  BY <1>1, <1>4 DEF browserVars, SInv, AtRest
<1>9. Confirmed'
  BY <1>1, <1>4 DEF browserVars, SInv, AtRest, Confirmed
<1> QED
  BY <1>3, <1>6, <1>7, <1>8, <1>9 DEF SInv

(* Every step of the session.                                              *)
LEMMA SessionStep == SInv /\ [Next]_vars => SInv'
<1> SUFFICES ASSUME SInv, [Next]_vars PROVE SInv'
  OBVIOUS
<1>1. CASE Exchange \/ AnswerLost
  <2>1. losses' \in 0..MaxLosses
    <3>1. losses' = losses \/ (losses > 0 /\ losses' = losses - 1)
      BY <1>1 DEF Exchange, AnswerLost, Loss
    <3> QED
      BY <3>1, SessionAssumption DEF SInv, BrowserOK
  <2> QED
    BY <1>1, <2>1, ServedKeeps DEF Exchange, AnswerLost
<1>2. CASE RequestLost \/ RequestDamaged \/ Unacknowledged
  BY <1>2, UnheardKeeps
<1>3. CASE Answering
  BY <1>3, PlainAnswers, PrepareKeeps, LookKeeps, PollKeeps DEF Answering
<1>4. CASE Connect \/ SubmitWifi \/ RetrySetup \/ Leave
  BY <1>4, OwnerKeeps
<1>5. CASE DeviceAlone \/ Crash \/ CableMoved
  BY <1>5, AloneKeeps
<1>6. CASE UNCHANGED vars
  <2>1. UNCHANGED <<deviceVars, browserVars, bounds>>
    BY <1>6 DEF vars
  <2>2. UNCHANGED <<stored, apply>>
    BY <2>1 DEF deviceVars, task
  <2>3. IInv'
    BY <2>1, StepKeepsInv DEF SInv
  <2>4. BrowserOK' /\ AnswerFits' /\ GivenTested' /\ Confirmed'
    BY <2>1, <2>2 DEF browserVars, bounds, SInv, BrowserOK, AnswerFits, GivenTested, Confirmed
  <2>5. AtRest'
    BY <2>1, <2>2 DEF browserVars, SInv, AtRest, Busy
  <2> QED
    BY <2>3, <2>4, <2>5 DEF SInv
<1> QED
  BY <1>1, <1>2, <1>3, <1>4, <1>5, <1>6 DEF Next

(* It holds when the page has loaded.                                      *)
LEMMA SessionStart == Init => SInv
<1> SUFFICES ASSUME Init PROVE SInv
  OBVIOUS
<1>1. IInv
  BY InitHasInv DEF Init
<1>2. BrowserOK
  <2>1. losses \in 0..MaxLosses /\ owner \in 0..MaxOwner /\ crashes \in 0..MaxCrashes
    BY SessionAssumption DEF Init
  <2>2. attempt \in 0..(MAX_APPLY_ATTEMPTS - 1)
    BY DEF Init, MAX_APPLY_ATTEMPTS
  <2> QED
    BY <2>1, <2>2 DEF Init, BrowserOK, Phases, Wifi
<1>3. AnswerFits /\ GivenTested /\ AtRest /\ Confirmed
  BY AnswersDiffer DEF Init, AnswerFits, GivenTested, AtRest, Confirmed, Reads
<1> QED
  BY <1>1, <1>2, <1>3 DEF SInv

(* The inductive invariant.                                                *)
THEOREM SessionInvariant == Spec => []SInv
BY SessionStart, SessionStep, PTL DEF Spec

-----------------------------------------------------------------------------
(* The results.                                                            *)

(* What the session does to the device is what any client may do to it.    *)
LEMMA DeviceSteps ==
  ASSUME SInv, [Next]_vars
  PROVE  [DeviceNext]_deviceVars
<1>1. CASE Exchange \/ AnswerLost
  <2>1. PICK heard \in BOOLEAN : Served(heard)
    BY <1>1 DEF Exchange, AnswerLost
  <2>2. pc = "test" => given \in Networks
    BY DEF SInv, GivenTested
  <2> QED
    BY <2>1, <2>2, SessionAssumption DEF Served, Refused, DeviceNext, Serve
<1>2. CASE RequestLost \/ RequestDamaged \/ Unacknowledged
  BY <1>2 DEF RequestLost, RequestDamaged, Unacknowledged, DeviceNext, Serve
<1>3. CASE Answering
  BY <1>3 DEF Answering, HelloAnswered, LookAnswered, PrepareAnswered, ApplyAnswered,
     RecoverAnswered, PollAnswered, FinishAnswered, RetryAnswered, Decide, Wait, Configure, Move
<1>4. CASE Connect \/ SubmitWifi \/ RetrySetup \/ Leave
  BY <1>4 DEF Connect, SubmitWifi, RetrySetup, Leave, DeviceNext
<1>5. CASE DeviceAlone \/ Crash \/ CableMoved
  BY <1>5 DEF DeviceAlone, Crash, CableMoved, DeviceNext, Serve
<1>6. CASE UNCHANGED vars
  BY <1>6 DEF vars
<1> QED
  BY <1>1, <1>2, <1>3, <1>4, <1>5, <1>6 DEF Next

(* The browser is one of the clients that InstallerDevice allows for, so   *)
(* that what is proved of the device for any client holds under it.        *)
THEOREM SessionIsClient == Spec => DeviceSpec
<1>1. Init => DeviceInit
  BY DEF Init
<1>2. SInv /\ [Next]_vars => [DeviceNext]_deviceVars
  BY DeviceSteps
<1> QED
  BY <1>1, <1>2, SessionInvariant, PTL DEF Spec, DeviceSpec

(* The record that the owner's retries, reloads and lost frames leave      *)
(* behind is one that SetupRecord allows.                                  *)
THEOREM SessionKeepsRecord == Spec => RecordSpec
BY SessionIsClient, DeviceKeepsRecord, PTL

(* A trial ends under the browser as it does under any client.             *)
THEOREM SessionRestoresNetwork == Spec => NetRestored
BY SessionIsClient, TrialIsUndone, PTL

(* Every reachable state of the session is well typed; in particular an    *)
(* apply is retried at most once by itself.                                *)
THEOREM SessionTypeCorrect == Spec => []SessionTypeOK
<1>1. SInv => SessionTypeOK
  <2> SUFFICES ASSUME SInv PROVE SessionTypeOK
    OBVIOUS
  <2>1. /\ answer.config \in Configs \cup {NoConfig}
        /\ answer.up \in BOOLEAN /\ answer.valid \in BOOLEAN
    <3>1. answer \in {Nothing, Silence} \cup Reports \cup Replies
      BY DEF SInv, AnswerFits
    <3>2. CASE answer \in Reports
      BY <3>2 DEF Reports
    <3>3. CASE answer \in {Nothing, Silence} \cup Replies
      <4>1. PICK status : answer = Of(status)
        BY <3>3 DEF Nothing, Silence, Replies
      <4> QED
        BY <4>1 DEF Of
    <3> QED
      BY <3>1, <3>2, <3>3
  <2> QED
    BY <2>1 DEF SInv, IInv, BrowserOK, SessionTypeOK
<1> QED
  BY <1>1, SessionInvariant, PTL

(* No command of the browser is turned away by an apply that runs: it      *)
(* observes the one an earlier tab has started before it changes anything. *)
THEOREM CommandsAreServed == Spec => []NeverBusy
<1>1. SInv => NeverBusy
  <2> SUFFICES ASSUME SInv PROVE NeverBusy
    OBVIOUS
  <2>1. answer \in {Nothing, Silence} \cup Reports \cup Replies
    BY DEF SInv, AnswerFits
  <2>2. answer \in Reports => answer.status # "apply_busy"
    BY DEF Reports, Results
  <2>3. Nothing.status # "apply_busy" /\ Silence.status # "apply_busy"
    BY DEF Nothing, Silence, Of
  <2> QED
    BY <2>1, <2>2, <2>3, AnswersDiffer DEF NeverBusy
<1> QED
  BY <1>1, SessionInvariant, PTL

(* Completion is claimed with the answer to the last request.              *)
LEMMA ClaimStep ==
  ASSUME Next, Claim
  PROVE  FinishAnswered
<1>1. CASE Exchange \/ AnswerLost \/ RequestLost \/ RequestDamaged \/ Unacknowledged
  BY <1>1 DEF Exchange, AnswerLost, RequestLost, RequestDamaged, Unacknowledged, AskStep, Claim
<1>2. CASE Answering
  <2>1. CASE HelloAnswered \/ PrepareAnswered \/ ApplyAnswered \/ RecoverAnswered
    BY <2>1 DEF HelloAnswered, PrepareAnswered, ApplyAnswered, RecoverAnswered, Move, Claim
  <2>2. CASE LookAnswered \/ RetryAnswered
    BY <2>2 DEF LookAnswered, RetryAnswered, Configure, Move, Claim
  <2>3. CASE PollAnswered
    BY <2>3 DEF PollAnswered, Decide, Wait, Move, Claim
  <2> QED
    BY <1>2, <2>1, <2>2, <2>3 DEF Answering
<1>3. CASE Connect \/ SubmitWifi \/ RetrySetup \/ Leave
  BY <1>3 DEF Connect, SubmitWifi, RetrySetup, Leave, Claim
<1>4. CASE DeviceAlone \/ Crash \/ CableMoved
  BY <1>4 DEF DeviceAlone, Crash, CableMoved, browserVars, Claim
<1> QED
  BY <1>1, <1>2, <1>3, <1>4 DEF Next

(* The browser says that setup is complete only when the configuration     *)
(* that the owner chose is stored and shown.                               *)
THEOREM ClaimIsTrue == Spec => ClaimShown
<1>1. SInv /\ [Next]_vars => [Claim => stored.config = Want /\ running = Want]_vars
  <2> SUFFICES ASSUME SInv, Next, Claim PROVE stored.config = Want /\ running = Want
    OBVIOUS
  <2>1. pc = "finish"
    BY ClaimStep DEF FinishAnswered, Got
  <2>2. ~Busy /\ stored.config = Want
    BY <2>1 DEF SInv, AtRest, Confirmed
  <2>3. running = stored.config
    BY <2>2 DEF SInv, IInv, InTask, Shown
  <2> QED
    BY <2>2, <2>3
<1> QED
  BY <1>1, SessionInvariant, PTL DEF Spec, ClaimShown
=============================================================================
