---------------------------- MODULE PowerManager ----------------------------
(***************************************************************************)
(* When the device works and when it sleeps: the work counter, the sleep   *)
(* transition and the sleep timer of power_manager.c, the empty-battery    *)
(* check of windpeek_main.c (battery_allows_work), and the tasks that call *)
(* them.  Tasks interleave between the reads and writes they make of each  *)
(* other's state.                                                          *)
(***************************************************************************)
EXTENDS FiniteSets, Integers

CONSTANTS
  E1003,        \* TRUE: the E1003 build, FALSE: the E1001/E1002 build
  ManySpots,    \* more than one spot is installed
  Workers,      \* tasks that work under work_begin (dashboard, actions, ...)
  Interactive,  \* those of them that serve a user and reset the sleep timer
  Main,         \* app_main
  Timer,        \* sleep_timer_task
  Buttons,      \* spot_buttons_task (E1001/E1002)
  NoTask,       \* nobody holds the battery lock
  Sources,      \* what may wake the device, of WakeSources
  MaxResets     \* bound on crashes

Tasks == Workers \cup {Main, Timer, Buttons}

(* A forecast boundary, a spot button (ROTATE or CLEAR), the white button  *)
(* (BOOT), or power-on.                                                    *)
WakeSources == {"timer", "spot", "white", "power"}

ASSUME PowerAssumption ==
  /\ E1003 \in BOOLEAN /\ ManySpots \in BOOLEAN
  /\ IsFiniteSet(Workers) /\ Interactive \subseteq Workers
  /\ Workers \cap {Main, Timer, Buttons} = {} /\ NoTask \notin Tasks
  /\ Main # Timer /\ Main # Buttons /\ Timer # Buttons
  /\ Sources \subseteq WakeSources /\ "power" \in Sources
  /\ MaxResets \in Nat

VARIABLES
  power,      \* "awake" or "asleep"
  wake,       \* wakeup_source of this boot
  armed,      \* the deep-sleep timer is armed
  pc, why,    \* where each task is, and what it attempts to sleep for
  work,       \* active_work without its top bit
  pending,    \* SLEEP_PENDING, the top bit
  forced,     \* the transition was forced by the empty battery
  requested,  \* requested_sleep_seconds > 0
  idleTimer,  \* next_sleep_time: "unset", "running" or "expired"
  usb,        \* external power
  installer,  \* installer_active
  empty,      \* battery_empty
  lock,       \* who holds s_battery_lock
  latched,    \* s_empty_latched (RTC memory: it survives deep sleep)
  loaded,     \* s_battery_state_loaded
  nvs,        \* the latch in NVS
  screens,    \* observer: empty-battery screens attempted since work was allowed
  lost,       \* observer: a latch in RTC memory was lost since then, and NVS
              \* did not have it or could not be read
  resets      \* crashes left

gateVars == <<work, pending, forced>>
battery  == <<empty, lock, latched, loaded, nvs, screens, lost>>
world    == <<usb, installer>>
vars == <<power, wake, armed, pc, why, gateVars, requested, idleTimer, world,
          battery, resets>>

-----------------------------------------------------------------------------
Working == {"work", "late"}
Points  == {"idle", "lock", "guard", "latch", "render", "begin", "again",
            "nav", "check", "commit", "prepare", "down"} \cup Working
Reasons == {"battery", "early", "final", "idle"}
Levels  == {"empty", "between", "recovered"}

(* A sleeping device has no tasks. *)
In(t, points) == power = "awake" /\ pc[t] \in points
At(t, point) == In(t, {point})
Goto(t, point) == pc' = [pc EXCEPT ![t] = point]

(* enter_sleep is called for a reason that decides where it returns to. *)
TrySleep(t, reason) ==
  /\ pc' = [pc EXCEPT ![t] = "check"]
  /\ why' = [why EXCEPT ![t] = reason]

(* power_manager_init: who starts sleep_timer_task. *)
HasTimer_buttons == wake \notin {"timer", "spot"}
HasTimer == E1003 \/ wake \notin {"timer", "spot"}

(* app_main has created the tasks, and before that the installer service. *)
TasksUp == At(Main, "idle")
ServiceUp ==
  /\ power = "awake"
  /\ ~(pc[Main] \in {"lock", "guard", "latch", "render"})
  /\ ~(pc[Main] \in {"check", "commit", "prepare", "down"} /\ why[Main] = "battery")

Init ==
  /\ power = "awake" /\ wake = "power" /\ armed = FALSE
  /\ pc = [t \in Tasks |-> IF t = Main THEN "lock" ELSE "idle"]
  /\ why = [t \in Tasks |-> "idle"]
  /\ work = 0 /\ pending = FALSE /\ forced = FALSE
  /\ requested = FALSE /\ idleTimer = "unset"
  /\ usb \in BOOLEAN /\ installer = FALSE
  /\ empty = FALSE /\ lock = NoTask
  /\ latched = FALSE /\ loaded = FALSE /\ nvs = FALSE
  /\ screens = 0 /\ lost = FALSE
  /\ resets = MaxResets

-----------------------------------------------------------------------------
(* A task has something to do: first the battery is checked.               *)
Start(t) ==
  /\ TasksUp /\ At(t, "idle") /\ ~installer
  /\ \/ t \in Workers
     \/ t = Buttons /\ ~E1003 /\ ManySpots
  /\ Goto(t, "lock")
  /\ UNCHANGED <<power, wake, armed, why, gateVars, requested, idleTimer,
                 world, battery, resets>>

(* A button release that only enables touch skips the battery check. *)
Press(t) ==
  /\ E1003 /\ TasksUp /\ t \in Interactive /\ At(t, "idle") /\ ~installer
  /\ Goto(t, "begin")
  /\ UNCHANGED <<power, wake, armed, why, gateVars, requested, idleTimer,
                 world, battery, resets>>

TakeLock(t) ==
  /\ At(t, "lock") /\ lock = NoTask
  /\ lock' = t
  /\ Goto(t, "guard")
  /\ UNCHANGED <<power, wake, armed, why, gateVars, requested, idleTimer,
                 world, empty, latched, loaded, nvs, screens, lost, resets>>

(* wind_battery_action; an invalid reading never declares the battery      *)
(* empty, nor recovered, like a level in between.                          *)
Action(isLatched, level) ==
  IF usb THEN "run"
  ELSE IF isLatched THEN (IF level = "recovered" THEN "run" ELSE "stay")
  ELSE IF level = "empty" THEN "render" ELSE "run"

(* The first check of a boot joins the latch of NVS, when it can be read.  *)
Latched_rtc(readable) == latched
Latched(readable) == latched \/ (~loaded /\ readable /\ nvs)

Allowed(t, level, readable) ==
  LET isLatched == Latched(readable)
  IN /\ At(t, "guard") /\ Action(isLatched, level) = "run"
     /\ latched' = FALSE /\ loaded' = TRUE
     /\ nvs' \in IF isLatched THEN {FALSE, nvs} ELSE {nvs}
     /\ empty' = FALSE /\ lock' = NoTask
     /\ screens' = 0 /\ lost' = FALSE
     /\ Goto(t, IF t = Buttons THEN "nav" ELSE "begin")
     /\ idleTimer' = IF t = Buttons THEN "running" ELSE idleTimer
     /\ UNCHANGED <<power, wake, armed, why, gateVars, requested, world, resets>>

Refused(t, level, readable) ==
  LET isLatched == Latched(readable)
      action == Action(isLatched, level)
  IN /\ At(t, "guard") /\ action # "run"
     /\ latched' = isLatched /\ loaded' = TRUE
     /\ empty' = TRUE
     /\ lost' = (lost \/ (~latched /\ ~loaded /\ ~readable /\ nvs))
     /\ IF action = "render" THEN Goto(t, "latch") /\ UNCHANGED why
        ELSE TrySleep(t, "battery")
     /\ UNCHANGED <<power, wake, armed, gateVars, requested, idleTimer, world,
                    lock, nvs, screens, resets>>

(* wind_battery_render_once: the attempt is recorded before it is made,    *)
(* in NVS if that succeeds.                                                *)
Recorded_not == UNCHANGED <<latched, nvs>>
Recorded == latched' = TRUE /\ nvs' \in {TRUE, nvs}

Latch(t) ==
  /\ At(t, "latch")
  /\ Recorded
  /\ screens' = screens + 1
  /\ Goto(t, "render")
  /\ UNCHANGED <<power, wake, armed, why, gateVars, requested, idleTimer,
                 world, empty, lock, loaded, lost, resets>>

(* The last screen is drawn, or fails. *)
Render(t) ==
  /\ At(t, "render")
  /\ TrySleep(t, "battery")
  /\ UNCHANGED <<power, wake, armed, gateVars, requested, idleTimer, world,
                 battery, resets>>

-----------------------------------------------------------------------------
(* power_manager_work_begin and work_end around a task's work.             *)
ResetTimer(t) == idleTimer' = IF t \in Interactive THEN "running" ELSE idleTimer

BeginWork(t) ==
  /\ In(t, {"begin", "again"}) /\ ~pending
  /\ work' = work + 1
  /\ Goto(t, IF At(t, "again") THEN "late" ELSE "work")
  /\ ResetTimer(t)
  /\ UNCHANGED <<power, wake, armed, why, pending, forced, requested, world,
                 battery, resets>>

EndWork(t) ==
  /\ t \in Workers /\ At(t, "work")
  /\ work' = work - 1
  /\ Goto(t, "idle")
  /\ ResetTimer(t)
  /\ UNCHANGED <<power, wake, armed, why, pending, forced, requested, world,
                 battery, resets>>

(* The first setup: app_main works now and then until it is installed.     *)
AwaitSetup ==
  /\ At(Main, "work")
  /\ work' = work - 1
  /\ Goto(Main, "begin")
  /\ UNCHANGED <<power, wake, armed, why, pending, forced, requested,
                 idleTimer, world, battery, resets>>

(* The timer fired too early: back to sleep until the boundary it aimed at.*)
TooEarly ==
  /\ At(Main, "work") /\ wake = "timer"
  /\ work' = work - 1
  /\ requested' = TRUE
  /\ TrySleep(Main, "early")
  /\ UNCHANGED <<power, wake, armed, pending, forced, idleTimer, world,
                 battery, resets>>

(* The start-up refresh is done: a scheduled wake goes back to sleep, and  *)
(* on the E1001/E1002 a wake by a spot button.                             *)
SleepsAfterBoot == wake = "timer" \/ (~E1003 /\ wake = "spot" /\ ManySpots)

Booted ==
  /\ In(Main, Working)
  /\ work' = work - 1
  /\ idleTimer' = "running"
  /\ IF SleepsAfterBoot THEN TrySleep(Main, "final")
     ELSE Goto(Main, "idle") /\ UNCHANGED why
  /\ UNCHANGED <<power, wake, armed, pending, forced, requested, world,
                 battery, resets>>

(* spot_buttons_task navigates, outside the work counter, and sleeps.      *)
Navigated ==
  /\ At(Buttons, "nav")
  /\ TrySleep(Buttons, "final")
  /\ UNCHANGED <<power, wake, armed, gateVars, requested, idleTimer, world,
                 battery, resets>>

-----------------------------------------------------------------------------
(* app_main begins its work again when it has to stay awake after all.     *)
AfterEarly == "again"

(* enter_sleep returned: the empty-battery check is repeated on external   *)
(* power, and app_main repeats it until it is allowed to work.             *)
Returned(t) ==
  /\ lock' = IF why[t] = "battery" THEN NoTask ELSE lock
  /\ Goto(t, IF why[t] = "battery" THEN (IF usb \/ t = Main THEN "lock" ELSE "idle")
             ELSE IF why[t] = "early" THEN AfterEarly ELSE "idle")

Stays == ((work > 0 \/ pending) /\ ~empty) \/ usb \/ installer

Check(t) ==
  /\ At(t, "check")
  /\ IF Stays THEN Returned(t)
     ELSE Goto(t, "commit") /\ UNCHANGED lock
  /\ UNCHANGED <<power, wake, armed, why, gateVars, requested, idleTimer,
                 world, empty, latched, loaded, nvs, screens, lost, resets>>

(* The transition is claimed: by a compare-and-swap from zero, or for an   *)
(* empty battery by setting the bit whatever works.                        *)
ClaimsIdle_checked == ~empty /\ ~pending
ClaimsIdle  == ~empty /\ work = 0 /\ ~pending

ClaimsEmpty_again == empty
ClaimsEmpty == empty /\ ~pending

Commit(t) ==
  /\ At(t, "commit")
  /\ IF ClaimsIdle \/ ClaimsEmpty
     THEN pending' = TRUE /\ forced' = empty /\ Goto(t, "prepare") /\ UNCHANGED lock
     ELSE Returned(t) /\ UNCHANGED <<pending, forced>>
  /\ UNCHANGED <<power, wake, armed, why, work, requested, idleTimer, world,
                 empty, latched, loaded, nvs, screens, lost, resets>>

(* No timer wake with an empty battery; otherwise the requested sleep, or  *)
(* else the schedule, sets it.                                             *)
Prepare(t) ==
  /\ At(t, "prepare")
  /\ armed' = ~empty
  /\ requested' = FALSE
  /\ Goto(t, "down")
  /\ UNCHANGED <<power, wake, why, gateVars, idleTimer, world, battery, resets>>

PowerDown(t) ==
  /\ At(t, "down")
  /\ power' = "asleep"
  /\ UNCHANGED <<wake, armed, pc, why, gateVars, requested, idleTimer, world,
                 battery, resets>>

-----------------------------------------------------------------------------
(* sleep_timer_task, once a second.                                        *)
Poll ==
  /\ HasTimer /\ At(Timer, "idle") /\ ~empty
  /\ \/ /\ usb \/ installer
        /\ idleTimer # "unset" /\ idleTimer' = "unset"
        /\ UNCHANGED <<pc, why>>
     \/ /\ ~usb /\ ~installer /\ idleTimer = "unset"
        /\ idleTimer' = "running"
        /\ UNCHANGED <<pc, why>>
     \/ /\ ~usb /\ ~installer /\ idleTimer = "expired"
        /\ TrySleep(Timer, "idle")
        /\ UNCHANGED idleTimer
  /\ UNCHANGED <<power, wake, armed, gateVars, requested, world, battery, resets>>

Elapse ==
  /\ power = "awake" /\ idleTimer = "running" /\ idleTimer' = "expired"
  /\ UNCHANGED <<power, wake, armed, pc, why, gateVars, requested, world,
                 battery, resets>>

SetInstaller ==
  /\ ServiceUp
  /\ installer' = ~installer
  /\ idleTimer' = IF installer' THEN "running" ELSE idleTimer
  /\ UNCHANGED <<power, wake, armed, pc, why, gateVars, requested, usb,
                 battery, resets>>

PlugUsb ==
  /\ usb' = ~usb
  /\ UNCHANGED <<power, wake, armed, pc, why, gateVars, requested, idleTimer,
                 installer, battery, resets>>

(* A boot: RAM is new; RTC memory only survives a deep sleep.              *)
Boot(source, rtc) ==
  /\ power' = "awake" /\ wake' = source /\ armed' = FALSE
  /\ pc' = [t \in Tasks |-> IF t = Main THEN "lock" ELSE "idle"]
  /\ why' = [t \in Tasks |-> "idle"]
  /\ work' = 0 /\ pending' = FALSE /\ forced' = FALSE
  /\ requested' = FALSE /\ idleTimer' = "unset"
  /\ installer' = FALSE /\ empty' = FALSE /\ lock' = NoTask
  /\ latched' = rtc /\ loaded' = FALSE
  /\ lost' = (lost \/ (latched /\ ~rtc /\ ~nvs))
  /\ UNCHANGED <<usb, nvs, screens>>

Wake(source) ==
  /\ power = "asleep" /\ (source = "timer" => armed)
  /\ Boot(source, latched)
  /\ UNCHANGED resets

Crash ==
  /\ resets > 0 /\ resets' = resets - 1
  /\ Boot("power", FALSE)

Step(t) ==
  \/ TakeLock(t)
  \/ \E level \in Levels, readable \in BOOLEAN :
       Allowed(t, level, readable) \/ Refused(t, level, readable)
  \/ Latch(t) \/ Render(t)
  \/ BeginWork(t) \/ EndWork(t)
  \/ Check(t) \/ Commit(t) \/ Prepare(t) \/ PowerDown(t)

Next ==
  \/ \E t \in Tasks : Start(t) \/ Press(t) \/ Step(t)
  \/ AwaitSetup \/ TooEarly \/ Booted \/ Navigated
  \/ Poll \/ Elapse \/ SetInstaller \/ PlugUsb \/ Crash
  \/ \E source \in Sources : Wake(source)

Spec == Init /\ [][Next]_vars

(* A task that can run is scheduled, its calls return, and a started sleep *)
(* timer expires; boundaries keep coming, so the other workers start again.*)
(* The timer task polls once a second and work is rarer than that: among   *)
(* its polls, some find no work and are not overtaken by any.              *)
AtRest(A) == work = 0 /\ A

FairSpec ==
  /\ Spec
  /\ \A t \in Tasks : WF_vars(Step(t))
  /\ \A t \in Workers \ Interactive : WF_vars(Start(t))
  /\ WF_vars(Booted) /\ WF_vars(Navigated) /\ WF_vars(Poll) /\ WF_vars(Elapse)
  /\ SF_vars(AtRest(Poll)) /\ SF_vars(AtRest(Check(Timer)))
  /\ SF_vars(AtRest(Commit(Timer)))

(* An owner who is asked for it completes the first setup. *)
FairOwner == FairSpec /\ SF_vars(Booted)

-----------------------------------------------------------------------------
Holders == {t \in Tasks : pc[t] \in Working}
Owns(t) == pc[t] \in {"prepare", "down"}

TypeOK ==
  /\ power \in {"awake", "asleep"} /\ wake \in Sources /\ armed \in BOOLEAN
  /\ pc \in [Tasks -> Points] /\ why \in [Tasks -> Reasons]
  /\ work \in Nat /\ pending \in BOOLEAN /\ forced \in BOOLEAN
  /\ requested \in BOOLEAN /\ idleTimer \in {"unset", "running", "expired"}
  /\ usb \in BOOLEAN /\ installer \in BOOLEAN
  /\ empty \in BOOLEAN /\ lock \in Tasks \cup {NoTask}
  /\ latched \in BOOLEAN /\ loaded \in BOOLEAN /\ nvs \in BOOLEAN
  /\ screens \in Nat /\ lost \in BOOLEAN /\ resets \in 0..MaxResets

(* The counter with its top bit implements the gate: work that has begun   *)
(* ends before an idle device goes to sleep, and none begins once the      *)
(* transition has claimed it (power_manager_work_begin and enter_sleep).   *)
Gate == INSTANCE WorkGate WITH holders <- Holders, closed <- pending

GateSpec == Gate!Spec

(* One task at most performs the sleep transition, whichever of the sleep  *)
(* timer, the boot, a button or an empty battery asked for it.             *)
OneOwner == \A t, u \in Tasks : Owns(t) /\ Owns(u) => t = u

(* The reserve is spent on one last screen: it is not attempted again      *)
(* before work is allowed, across resets and failed writes, unless a reset *)
(* lost the latch of RTC memory while NVS had none or could not be read.   *)
EmptyScreenOnce == screens > 1 => lost

(* On battery, without an installer session and with nobody using it, the  *)
(* device keeps going back to sleep.                                       *)
InUse == \E t \in Interactive : pc[t] # "idle"
SleepResumes == []<>(power = "asleep" \/ usb \/ installer \/ InUse)

(* The sleep is timed by the schedule, unless this very call asked for     *)
(* another one (enter_sleep_with_timer).                                   *)
WakesOnSchedule ==
  \A t \in Tasks : At(t, "prepare") /\ requested /\ ~empty => why[t] = "early"

(* The final panel refresh owns its sleep transition: no other one cuts it.*)
FinalScreenUncut == power = "asleep" => \A t \in Tasks : pc[t] # "render"

(* No new work begins once the sleep transition owns the device, nor does  *)
(* a navigation by the spot buttons.                                       *)
NoNewWork ==
  [][ \A t \in Tasks : pc'[t] \in Working \cup {"nav"} /\ pc'[t] # pc[t]
        => ~pending ]_vars
=============================================================================
