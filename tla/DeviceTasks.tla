----------------------------- MODULE DeviceTasks -----------------------------
(***************************************************************************)
(* The E1003's tasks of windpeek_main.c during one boot and what they hand *)
(* to each other without a lock: commands and their pending count, the     *)
(* request flags with the task notifications that announce them, and the   *)
(* state of the quick-frame sweep.  A step ends where another task's step  *)
(* makes a difference to what comes next.                                  *)
(***************************************************************************)
EXTENDS FiniteSets, Integers

CONSTANTS
  QueueSize,  \* capacity of s_input_commands
  MaxEvents   \* bound on presses, installed configurations, sessions and
              \* sweep tasks that cannot be created, together

ASSUME TasksAssumption == QueueSize \in Nat \ {0} /\ MaxEvents \in Nat

(* The tasks that call start_quick_frames_task, and all of them. *)
Starters == {"dashboard", "setup", "main"}
Tasks == Starters \cup {"input", "actions", "apply"}

VARIABLES
  pc,         \* where each task is
  sweep,      \* where the sweep task is that a starter created, or "none"
  queue,      \* commands in s_input_commands
  pending,    \* s_pending_input_actions
  request,    \* s_interactive_refresh_requested
  note,       \* the dashboard task has a notification
  requested,  \* dashboard_task's local
  quick,      \* s_quick_frames_state
  setup,      \* s_setup_forecasts_pending
  handle,     \* s_setup_forecasts_task is stored
  setupNote,  \* the setup-forecast task has a notification
  retry,      \* its retry_delay is finite
  installer,  \* power_manager_is_installer_active
  owed,       \* observer: a sweep was asked for and has not begun
  left        \* what is left of MaxEvents

inputVars == <<queue, pending>>
flagVars  == <<request, note, requested>>
quickVars == <<quick, sweep, owed>>
setupVars == <<setup, handle, setupNote, retry>>
vars == <<pc, inputVars, flagVars, quickVars, setupVars, installer, left>>

At(t, p) == pc[t] = p
Goto(t, p) == pc' = [pc EXCEPT ![t] = p]
Event == left > 0 /\ left' = left - 1

Init ==
  /\ \E main \in {"start", "create"} :         \* no sweep after a first setup
       pc = [t \in Tasks |-> CASE t = "dashboard" -> "top" [] t = "setup" -> "none"
                               [] t = "main" -> main [] OTHER -> "idle"]
  /\ sweep = [t \in Starters |-> "none"] /\ quick = 0 /\ owed = FALSE
  /\ queue = 0 /\ pending = 0
  /\ request \in BOOLEAN                      \* a wake by a button asks for one
  /\ note = FALSE /\ requested = FALSE
  /\ setup \in BOOLEAN                        \* installed while app_main waited
  /\ handle = FALSE /\ setupNote = FALSE /\ retry = FALSE
  /\ installer = FALSE
  /\ left = MaxEvents

-----------------------------------------------------------------------------
(* Input: the sampling task counts a command before it sends it, so that   *)
(* the count never hides one; the action task uncounts it when it is done. *)

Count ==
  /\ At("input", "idle") /\ ~installer
  /\ Event
  /\ pending' = pending + 1
  /\ Goto("input", "send")
  /\ UNCHANGED <<queue, flagVars, quickVars, setupVars, installer>>

Send ==
  /\ At("input", "send") /\ queue < QueueSize
  /\ queue' = queue + 1 /\ note' = TRUE
  /\ Goto("input", "idle")
  /\ UNCHANGED <<pending, request, requested, quickVars, setupVars, installer, left>>

Uncounted == pending' = pending - 1

Overflow_counted ==
  /\ At("input", "send") /\ queue = QueueSize
  /\ Goto("input", "idle")
  /\ UNCHANGED <<inputVars, flagVars, quickVars, setupVars, installer, left>>

Overflow ==
  /\ At("input", "send") /\ queue = QueueSize
  /\ Uncounted
  /\ Goto("input", "idle")
  /\ UNCHANGED <<queue, flagVars, quickVars, setupVars, installer, left>>

(* A session or the battery may refuse the command, or it fails.  If not,  *)
(* what it shows may need the network: then a refresh is asked for before  *)
(* the dashboard task is told.                                             *)
Receive ==
  /\ At("actions", "idle") /\ queue > 0
  /\ queue' = queue - 1
  /\ \E next \in {"ask", "tell", "done"} : Goto("actions", next)
  /\ UNCHANGED <<pending, flagVars, quickVars, setupVars, installer, left>>

Ask ==
  /\ At("actions", "ask")
  /\ request' = TRUE
  /\ Goto("actions", "tell")
  /\ UNCHANGED <<inputVars, note, requested, quickVars, setupVars, installer, left>>

Tell ==
  /\ At("actions", "tell")
  /\ note' = TRUE
  /\ Goto("actions", "done")
  /\ UNCHANGED <<inputVars, request, requested, quickVars, setupVars, installer, left>>

Done ==
  /\ At("actions", "done")
  /\ Uncounted
  /\ Goto("actions", "idle")
  /\ UNCHANGED <<queue, flagVars, quickVars, setupVars, installer, left>>

-----------------------------------------------------------------------------
(* start_quick_frames_task, by starter t; After(t) is where it goes on.   *)

After(t) == CASE t = "dashboard" -> "top" [] t = "setup" -> "wait"
              [] t = "main" -> "create"

Claim_running(t) ==
  /\ At(t, "start")
  /\ quick' = IF quick = 0 THEN 1 ELSE quick
  /\ Goto(t, IF quick = 0 THEN "spawn" ELSE After(t))
  /\ owed' = TRUE
  /\ UNCHANGED <<sweep, inputVars, flagVars, setupVars, installer, left>>

(* CAS 0 -> 1 creates a task; 2 is already a promise to run again.         *)
Claim(t) ==
  /\ At(t, "start")
  /\ quick' = IF quick = 0 THEN 1 ELSE quick
  /\ Goto(t, CASE quick = 0 -> "spawn" [] quick = 1 -> "mark" [] quick = 2 -> After(t))
  /\ owed' = (owed \/ quick # 1)
  /\ UNCHANGED <<sweep, inputVars, flagVars, setupVars, installer, left>>

(* CAS 1 -> 2 asks the running sweep to run again, or starts over.         *)
Mark(t) ==
  /\ At(t, "mark")
  /\ quick' = IF quick = 1 THEN 2 ELSE quick
  /\ Goto(t, IF quick = 1 THEN After(t) ELSE "start")
  /\ owed' = (owed \/ quick = 1)
  /\ UNCHANGED <<sweep, inputVars, flagVars, setupVars, installer, left>>

Spawn(t) ==
  /\ At(t, "spawn")
  /\ sweep' = [sweep EXCEPT ![t] = "sweep"] /\ owed' = FALSE
  /\ Goto(t, After(t))
  /\ UNCHANGED <<quick, inputVars, flagVars, setupVars, installer, left>>

(* Without memory for the task, what was asked for meanwhile is lost too.  *)
SpawnFailed(t) ==
  /\ At(t, "spawn") /\ Event
  /\ quick' = 0 /\ owed' = FALSE
  /\ Goto(t, After(t))
  /\ UNCHANGED <<sweep, inputVars, flagVars, setupVars, installer>>

(* quick_frames_sweep yields to input, and stops for a session or the      *)
(* battery.                                                                *)
Sweep(t) ==
  /\ sweep[t] = "sweep" /\ (pending = 0 \/ installer)
  /\ sweep' = [sweep EXCEPT ![t] = "finish"]
  /\ UNCHANGED <<pc, quick, owed, inputVars, flagVars, setupVars, installer, left>>

Finish_exchange(t) ==
  /\ sweep[t] = "finish"
  /\ quick' = 0
  /\ sweep' = [sweep EXCEPT ![t] = IF quick = 1 THEN "none" ELSE "sweep"]
  /\ owed' = (owed /\ quick = 1)
  /\ UNCHANGED <<pc, inputVars, flagVars, setupVars, installer, left>>

(* CAS 1 -> 0 ends the task, unless it was asked to run again.             *)
Finish(t) ==
  /\ sweep[t] = "finish"
  /\ quick' = IF quick = 1 THEN 0 ELSE quick
  /\ sweep' = [sweep EXCEPT ![t] = IF quick = 1 THEN "none" ELSE "again"]
  /\ UNCHANGED <<pc, owed, inputVars, flagVars, setupVars, installer, left>>

Again(t) ==
  /\ sweep[t] = "again"
  /\ quick' = IF quick = 2 THEN 1 ELSE quick
  /\ sweep' = [sweep EXCEPT ![t] = IF quick = 2 THEN "sweep" ELSE "none"]
  /\ owed' = (owed /\ quick # 2)
  /\ UNCHANGED <<pc, inputVars, flagVars, setupVars, installer, left>>

-----------------------------------------------------------------------------
(* dashboard_task.                                                         *)

Top ==
  /\ At("dashboard", "top")
  /\ request' = FALSE /\ requested' = request
  /\ Goto("dashboard", IF request THEN "drain" ELSE "wait")
  /\ UNCHANGED <<note, inputVars, quickVars, setupVars, installer, left>>

Notified ==
  /\ At("dashboard", "wait") /\ note
  /\ note' = FALSE
  /\ Goto("dashboard", "notified")
  /\ UNCHANGED <<request, requested, inputVars, quickVars, setupVars, installer, left>>

(* The next boundary, or retry, of any spot. *)
Due ==
  /\ At("dashboard", "wait") /\ ~note
  /\ Goto("dashboard", "due")
  /\ UNCHANGED <<inputVars, flagVars, quickVars, setupVars, installer, left>>

(* A notification without a request only restarts the wait: the next wake  *)
(* may have moved.                                                         *)
Woken ==
  /\ pc["dashboard"] \in {"notified", "due"}
  /\ request' = FALSE /\ requested' = request
  /\ Goto("dashboard", IF At("dashboard", "notified") /\ ~request THEN "top" ELSE "drain")
  /\ UNCHANGED <<note, inputVars, quickVars, setupVars, installer, left>>

Drain ==
  /\ At("dashboard", "drain")
  /\ Goto("dashboard", IF pending > 0 THEN "settle" ELSE "gate")
  /\ UNCHANGED <<inputVars, flagVars, quickVars, setupVars, installer, left>>

Settle_forgets ==
  /\ At("dashboard", "settle")
  /\ note' = FALSE /\ request' = FALSE /\ requested' = request
  /\ Goto("dashboard", "drain")
  /\ UNCHANGED <<inputVars, quickVars, setupVars, installer, left>>

(* Waits at most a second for a notification, then takes a request. *)
Settle ==
  /\ At("dashboard", "settle")
  /\ note' = FALSE /\ request' = FALSE /\ requested' = (requested \/ request)
  /\ Goto("dashboard", "drain")
  /\ UNCHANGED <<inputVars, quickVars, setupVars, installer, left>>

(* A session or the battery drops the refresh with its request, or the     *)
(* refresh fails, or it succeeds.                                          *)
Gate ==
  /\ At("dashboard", "gate")
  /\ \/ Goto("dashboard", "top")
     \/ ~installer /\ Goto("dashboard", "start")
  /\ requested' = FALSE
  /\ UNCHANGED <<inputVars, request, note, quickVars, setupVars, installer, left>>

-----------------------------------------------------------------------------
(* The setup-forecast task, the configuration that makes it run, and the   *)
(* end of app_main that creates it.                                        *)

Installed ==
  /\ At("apply", "idle") /\ Event
  /\ setup' = TRUE
  /\ Goto("apply", "tell")
  /\ UNCHANGED <<handle, setupNote, retry, inputVars, flagVars, quickVars, installer>>

TellSetup ==
  /\ At("apply", "tell")
  /\ setupNote' = (setupNote \/ handle)
  /\ Goto("apply", "idle")
  /\ UNCHANGED <<setup, handle, retry, inputVars, flagVars, quickVars, installer, left>>

CreateSetup ==
  /\ At("main", "create")
  /\ \/ pc' = [pc EXCEPT !["main"] = "store", !["setup"] = "wait"]
     \/ Goto("main", "ready")
  /\ UNCHANGED <<inputVars, flagVars, quickVars, setupVars, installer, left>>

StoreHandle ==
  /\ At("main", "store")
  /\ handle' = TRUE
  /\ Goto("main", "look")
  /\ UNCHANGED <<setup, setupNote, retry, inputVars, flagVars, quickVars, installer, left>>

Look_nested ==
  /\ At("main", "look")
  /\ setup' \in {setup, TRUE} /\ setupNote' = (setupNote \/ setup' # setup)
  /\ Goto("main", "ready")
  /\ UNCHANGED <<handle, retry, inputVars, flagVars, quickVars, installer, left>>

(* Spots that miss a forecast resume a sweep that a reset cut. *)
Look ==
  /\ At("main", "look")
  /\ setup' \in {setup, TRUE} /\ setupNote' = (setupNote \/ setup')
  /\ Goto("main", "ready")
  /\ UNCHANGED <<handle, retry, inputVars, flagVars, quickVars, installer, left>>

WakeSetup ==
  /\ At("setup", "wait") /\ (setupNote \/ retry)
  /\ setupNote' = FALSE
  /\ Goto("setup", "woken")
  /\ UNCHANGED <<setup, handle, retry, inputVars, flagVars, quickVars, installer, left>>

TakeSetup ==
  /\ At("setup", "woken")
  /\ setup' = FALSE
  /\ Goto("setup", IF setup \/ retry THEN "hold" ELSE "wait")
  /\ UNCHANGED <<handle, setupNote, retry, inputVars, flagVars, quickVars, installer, left>>

(* Waits for the end of a session; the battery refuses, the network is     *)
(* missing, or the sweep has a result.                                     *)
Fetch ==
  /\ At("setup", "hold") /\ ~installer
  /\ \/ retry' = TRUE /\ Goto("setup", "wait")
     \/ retry' \in BOOLEAN /\ Goto("setup", "start")
  /\ UNCHANGED <<setup, handle, setupNote, inputVars, flagVars, quickVars, installer, left>>

-----------------------------------------------------------------------------
(* The environment. *)

BeginSession ==
  /\ ~installer /\ Event
  /\ installer' = TRUE
  /\ UNCHANGED <<pc, inputVars, flagVars, quickVars, setupVars>>

EndSession ==
  /\ installer
  /\ installer' = FALSE
  /\ UNCHANGED <<pc, inputVars, flagVars, quickVars, setupVars, left>>

Input == Count \/ Send \/ Overflow
Actions == Receive \/ Ask \/ Tell \/ Done
StartSweep(t) == Claim(t) \/ Mark(t) \/ Spawn(t) \/ SpawnFailed(t)
Sweeping(t) == Sweep(t) \/ Finish(t) \/ Again(t)
Dashboard == Top \/ Notified \/ Woken \/ Drain \/ Settle \/ Gate
Setup == WakeSetup \/ TakeSetup \/ Fetch
Install == Installed \/ TellSetup
Boot == CreateSetup \/ StoreHandle \/ Look

Next ==
  \/ Input \/ Actions \/ Dashboard \/ Due \/ Setup \/ Install \/ Boot
  \/ \E t \in Starters : StartSweep(t) \/ Sweeping(t)
  \/ BeginSession \/ EndSession

Spec == Init /\ [][Next]_vars

(* A task that can run is scheduled and its calls return, a session ends.  *)
(* No boundary or retry (Due) has to come: what was asked for must not     *)
(* wait for one.                                                           *)
FairSpec ==
  /\ Spec
  /\ WF_vars(Send \/ Overflow) /\ WF_vars(Actions)
  /\ WF_vars(Dashboard) /\ WF_vars(Setup) /\ WF_vars(TellSetup) /\ WF_vars(Boot)
  /\ \A t \in Starters : WF_vars(StartSweep(t)) /\ WF_vars(Sweeping(t))
  /\ \A t \in Starters : SF_vars(Mark(t) /\ quick = 1)
  /\ WF_vars(EndSession)

-----------------------------------------------------------------------------
Points == {"idle", "send", "tell", "ask", "done", "start", "mark", "spawn",
  "top", "wait", "notified", "due", "drain", "settle", "gate",
  "none", "woken", "hold", "create", "store", "look", "ready"}

TypeOK ==
  /\ pc \in [Tasks -> Points]
  /\ sweep \in [Starters -> {"none", "sweep", "finish", "again"}]
  /\ quick \in 0..2 /\ owed \in BOOLEAN
  /\ queue \in 0..QueueSize /\ pending \in Nat
  /\ request \in BOOLEAN /\ note \in BOOLEAN /\ requested \in BOOLEAN
  /\ setup \in BOOLEAN /\ handle \in BOOLEAN /\ setupNote \in BOOLEAN
  /\ retry \in BOOLEAN
  /\ installer \in BOOLEAN
  /\ left \in 0..MaxEvents

(* The pending count is the commands on their way: one being sent, those   *)
(* in the queue, one being acted on.  So it never hides one from the       *)
(* sweep and the refresh, and never holds them up for nothing.             *)
PendingCounts ==
  pending = queue + (IF At("input", "send") THEN 1 ELSE 0)
                  + (IF At("actions", "idle") THEN 0 ELSE 1)

(* Who sweeps, or is about to create the task that does. *)
Claimants == {t \in Starters : At(t, "spawn") \/ sweep[t] # "none"}

(* One sweep at a time, whoever starts it and however its end and a start  *)
(* race: two would write the same frames.                                  *)
OneSweep ==
  \A t, u \in Claimants : t = u /\ ~(At(t, "spawn") /\ sweep[t] # "none")

(* A sweep that was asked for is begun by the task that is being created,  *)
(* or by the running one when it ends: it is not lost between the two      *)
(* compare-and-swaps of either side.                                       *)
SweepKept ==
  owed => \/ \E t \in Starters : At(t, "spawn")
          \/ quick = 2 /\ \E t \in Starters : sweep[t] # "none"

(* The dashboard task never sits out its wait with a refresh asked for:    *)
(* it has been notified, or is about to be.                                *)
RequestNotified ==
  request /\ At("dashboard", "wait") => note \/ At("actions", "tell")

(* A configuration that asks for forecasts finds the task that loads them, *)
(* although that task, its handle and the flag appear in any order.        *)
SetupNotified ==
  setup /\ At("setup", "wait")
  => setupNote \/ At("apply", "tell") \/ pc["main"] \in {"store", "look"}

(* Neither request is left unannounced.                                    *)
NoLostNotice == RequestNotified /\ SetupNotified

(* A refresh that was asked for is decided on, and as a requested one,     *)
(* without waiting for a boundary.                                         *)
RequestServed == request ~> (At("dashboard", "gate") /\ requested)

(* The forecasts of a new configuration are taken up, unless the task that *)
(* loads them could not be created.                                        *)
SetupServed ==
  setup ~> At("setup", "hold") \/ (At("setup", "none") /\ At("main", "ready"))

(* Both requests are served, whatever the tasks do meanwhile.              *)
NoticesServed == RequestServed /\ SetupServed
=============================================================================
