---------------------------- MODULE RefreshCycle ----------------------------
(***************************************************************************)
(* One spot's refresh cycle (run_internal in wind_app_cycle.c) with the    *)
(* callers that drive it: the timer wake, the spot buttons, the setup      *)
(* verification, the E1003 device-wide round (wind_app_prefetch.c) and the *)
(* screens drawn outside the cycle (setup, empty battery, overview).       *)
(*                                                                         *)
(* Persistent: the two slots of the forecast cache, the schedule record,   *)
(* the panel confirmation and the e-paper image itself.  Volatile: the     *)
(* in-memory schedule, the coverage marker and the force-display flags.  A *)
(* reset can strike between any two persistent effects.                    *)
(*                                                                         *)
(* The slots hold forecasts of any model, and a load only sees those of    *)
(* the model in force; the schedule record knows the spot and its timezone *)
(* alone, whatever model it was written under.                             *)
(***************************************************************************)
EXTENDS WindSchedule, FiniteSets

CONSTANTS
  Models,       \* the forecast models a setup may choose
  NoModel,      \* the model of an empty slot
  E1003,        \* TRUE: the E1003 build, FALSE: the E1001/E1002 build
  FastRetry,    \* FAILED_DISPLAY_FAST_RETRY_SECONDS, in ticks
  FailedRetry,  \* FAILED_REFRESH_RETRY_SECONDS, in ticks
  DayLength,    \* ticks of a local day
  AgedAfter,    \* six hours, in ticks: from when a forecast is shown as aged
  StaleAfter,   \* a day, in ticks: from when it is shown as stale
  MaxResets,    \* bound on resets (crashes and deep sleeps)
  MaxScreens,   \* bound on screens drawn outside the cycle
  MaxUser,      \* bound on starts made by a user or the installer
  MaxRefused    \* bound on wakes refused by a session or the battery

ASSUME CycleAssumption ==
  /\ NoModel \notin Models
  /\ E1003 \in BOOLEAN
  /\ FastRetry \in Nat \ {0} /\ FailedRetry \in Nat /\ FastRetry < FailedRetry
  /\ DayLength \in Nat \ {0} /\ AgedAfter \in Nat \ {0}
  /\ StaleAfter \in Nat /\ AgedAfter < StaleAfter
  /\ MaxResets \in Nat /\ MaxScreens \in Nat /\ MaxUser \in Nat
  /\ MaxRefused \in Nat

VARIABLES
  now,        \* the device clock
  (* persistent *)
  newer,      \* the cache slot with the higher generation
  older,      \* the other one, which the next store replaces
  model,      \* the model of the installed configuration
  disk,       \* the schedule record on LittleFS
  confirmed,  \* the frame the panel cache confirms, or NoFrame
  panel,      \* what the e-paper shows
  (* volatile *)
  ready,      \* s_ready: the runtime is initialised from storage
  mem,        \* app->schedule
  cov,        \* coverage_refresh marker: retrieved_at already attempted, or 0
  force,      \* app->force_display
  forceNext,  \* s_force_next_display
  wakeAt,     \* when the dashboard task or the sleep timer wakes next
  pc,         \* where the cycle is
  run,        \* locals of run_internal
  (* observers *)
  tried,      \* latest boundary whose due attempt reached the network
  retries,    \* retry attempts since the last ordinary start
  stale,      \* a reset dropped the override of a confirmation not erased
  budget      \* uses left of the bounded environment actions

vars == <<now, newer, older, model, disk, confirmed, panel, ready, mem, cov,
          force, forceNext, wakeAt, pc, run, tried, retries, stale, budget>>

-----------------------------------------------------------------------------
(* A stored forecast: its model, and the time it was retrieved at.         *)
AnyModel == Models \cup {NoModel}
Forecast == [model : AnyModel, at : Nat]
NoForecast == [model |-> NoModel, at |-> 0]

(* wind_cache_load: the newest slot of that model.                         *)
Cached(m) == IF newer.model = m THEN newer
             ELSE IF older.model = m THEN older ELSE NoForecast

(* A rendered frame is determined by the forecast it shows, its freshness  *)
(* and the offline mark; the other contents of the panel are one value     *)
(* each.                                                                   *)
Freshness(f, t) == IF f = NoForecast THEN "unavailable"
                   ELSE IF t - f.at < AgedAfter THEN "fresh"
                   ELSE IF t - f.at < StaleAfter THEN "aged" ELSE "stale"

Frame(f, offline, t) == <<"forecast", f, offline, Freshness(f, t)>>
NoFrame == <<"none", NoForecast, FALSE, "unavailable">>
Torn    == <<"torn", NoForecast, FALSE, "unavailable">>
Other   == <<"other", NoForecast, FALSE, "unavailable">>
Frames  == {"none", "torn", "other", "forecast"} \X Forecast \X BOOLEAN
             \X {"unavailable", "fresh", "aged", "stale"}

Modes == {"refresh", "prefetch", "cached", "prefetched", "verify"}
MayFetch(mode) == mode \in {"refresh", "prefetch", "verify"}

(* wind_app_forecast_covers_window: the forecast starts on today's date. *)
Covers(f, t) == f \div DayLength = t \div DayLength

Run == [ mode : Modes, model : AnyModel, forced : BOOLEAN,
         round : BOOLEAN, at : Nat, boundary : Nat, due : BOOLEAN,
         retryDue : BOOLEAN, finalAt : Nat, recover : BOOLEAN,
         hadRetry : BOOLEAN, ok : BOOLEAN, attempted : BOOLEAN,
         fetchOk : BOOLEAN, published : BOOLEAN ]

NoRun == [ mode |-> "refresh", model |-> NoModel, forced |-> FALSE,
           round |-> FALSE, at |-> 0, boundary |-> 0, due |-> FALSE,
           retryDue |-> FALSE, finalAt |-> 0, recover |-> FALSE,
           hadRetry |-> FALSE, ok |-> TRUE, attempted |-> FALSE,
           fetchOk |-> TRUE, published |-> FALSE ]

Points == {"idle", "fetch", "fetched", "show", "draw", "confirm", "screen"}

RefreshFailed == run.attempted /\ ~run.fetchOk

(* wind_app_seconds_until_next_wake for this spot. *)
NextWake(isReady, s) == IF isReady THEN NextAttempt(s, now) ELSE NextBoundary(now)

(* wind_schedule_state_store: a new record is renamed over the old one, or *)
(* the write fails and the old one stays.                                  *)
StoreSchedule(s) == disk' \in {s, disk}

(* Return to the caller; the schedule decides the next wake.  The setup    *)
(* verification leaves the runtime to be initialised again.                *)
Return(mode, s) ==
  /\ pc' = "idle" /\ run' = NoRun
  /\ ready' = (mode # "verify")
  /\ wakeAt' = NextWake(mode # "verify", s)

-----------------------------------------------------------------------------
Init ==
  /\ now = Start
  /\ newer = NoForecast /\ older = NoForecast /\ model \in Models
  /\ disk = EmptySchedule /\ confirmed = NoFrame /\ panel = Other
  /\ ready = FALSE /\ mem = EmptySchedule /\ cov = 0
  /\ force = FALSE /\ forceNext = FALSE
  /\ wakeAt = Start /\ pc = "idle" /\ run = NoRun
  /\ tried = 0 /\ retries = 0 /\ stale = FALSE
  /\ budget = [resets |-> MaxResets, screens |-> MaxScreens,
               user |-> MaxUser, refused |-> MaxRefused]

Bounds == {"resets", "screens", "user", "refused"}

Spend(what) == /\ budget[what] > 0
               /\ budget' = [budget EXCEPT ![what] = @ - 1]

(* What run_internal decides before it touches anything: f is the cached   *)
(* forecast, s the schedule it starts from, c the coverage marker.  In a   *)
(* prefetch, the second call of wind_app_prefetch_spot_fetch amounts to a  *)
(* forced first one.                                                       *)
Decision(mode, userForced, f, s, c) ==
  LET have     == f # NoForecast
      reset    == mode \in {"refresh", "prefetch"} /\ ~have /\ s.satisfied > 0
      m        == IF reset THEN EmptySchedule ELSE s
      due      == IsDue(m, now)
      pending  == RetryIsDue(m, now)
      retryDue == pending /\ ~due
      coverage == have /\ ~Covers(f.at, now) /\ c # f.at
      recover  == coverage \/ (~have /\ m.attempted = 0)
      forced   == userForced \/ (mode = "prefetch" /\ ~have /\ m.retryAt <= now)
  IN [ reset |-> reset, schedule |-> m, due |-> due, pending |-> pending,
       retryDue |-> retryDue, coverage |-> coverage, recover |-> recover,
       forced |-> forced,
       hadRetry |-> RetryIsDue(s, now),
       finalAt |-> IF retryDue /\ m.finalAt > now THEN m.finalAt ELSE 0,
       fetch |-> MayFetch(mode) /\ (forced \/ due \/ retryDue \/ recover) ]

(* The schedule with this attempt booked: a due boundary is marked, a due  *)
(* retry is spent and the remaining one scheduled.                         *)
Booked(d) ==
  LET m == d.schedule
      consumed == ConsumeRetry(m)
  IN IF ~d.fetch THEN m
     ELSE IF d.due
     THEN LET marked == MarkAttempted(m, LatestBoundary(now))
          IN IF d.pending THEN ConsumeRetry(marked) ELSE marked
     ELSE IF d.retryDue
     THEN IF d.finalAt > 0
          THEN ScheduleRetry(consumed, m.retryBoundary, d.finalAt)
          ELSE consumed
     ELSE m

(* The locals of a run of model m with decision d; ~ok when the record     *)
(* could not be written, and no request is made.                           *)
Started(d, mode, m, round, carried, ok) ==
  [ mode |-> mode, model |-> m, forced |-> d.forced, round |-> round,
    at |-> now,
    boundary |-> IF d.fetch /\ d.retryDue THEN d.schedule.retryBoundary
                 ELSE LatestBoundary(now),
    due |-> d.due, retryDue |-> d.retryDue, finalAt |-> d.finalAt,
    recover |-> d.recover, hadRetry |-> d.hadRetry, ok |-> ok,
    attempted |-> (d.fetch /\ ok) \/ carried.attempted,
    fetchOk |-> carried.fetchOk, published |-> FALSE ]

(* The attempt is on storage before the request is made. *)
MustStore_retryOnly(d) == d.fetch /\ d.retryDue
MustStore(d) == d.fetch /\ (d.due \/ d.retryDue)

(* ensure_ready and the head of run_internal, up to the network request.   *)
(* m is the model of the configuration in force, the candidate's while a   *)
(* setup is verified.  `isReady` is FALSE when the caller has the runtime  *)
(* initialised anew; `carried` is the outcome the cycle starts from.       *)
Begin(mode, m, userForced, round, isReady, carried) ==
  LET f0 == IF isReady THEN force ELSE forceNext
      c0 == IF isReady THEN cov ELSE 0
      d  == Decision(mode, userForced, Cached(m),
                     IF isReady THEN mem ELSE disk, c0)
      s  == Booked(d)
      mustStore == MustStore(d)
      Enter(point, ok) == /\ pc' = point
                          /\ run' = Started(d, mode, m, round, carried, ok)
                          /\ ready' = TRUE
                          /\ UNCHANGED wakeAt
  IN /\ mem' = s
     /\ force' = f0
     /\ cov' = IF d.fetch /\ d.coverage THEN Cached(m).at ELSE c0
     /\ \/ ~mustStore /\ d.fetch /\ Enter("fetch", TRUE) /\ UNCHANGED disk
        \/ ~d.fetch /\ Enter("fetched", TRUE) /\ UNCHANGED disk
        \/ mustStore /\ disk' = s /\ Enter("fetch", TRUE)
        \* The record could not be written: no request is made.
        \/ /\ mustStore /\ mode = "prefetch"
           /\ Enter("fetched", FALSE) /\ UNCHANGED disk
        \/ /\ mustStore /\ mode # "prefetch"
           /\ Return(mode, s) /\ UNCHANGED disk
     /\ tried' = IF pc' = "fetch" /\ d.due THEN LatestBoundary(now)
                 ELSE IF d.reset THEN 0 ELSE tried
     /\ retries' = IF d.retryDue /\ d.fetch
                   THEN IF pc' = "fetch" THEN retries + 1 ELSE retries
                   ELSE IF d.fetch \/ d.due \/ mode = "cached"
                             \/ (f0 /\ mode # "prefetched") THEN 0
                   ELSE retries
     /\ UNCHANGED <<now, newer, older, model, confirmed, panel, forceNext,
                    stale>>

(* E1001/E1002: dashboard_task and boot call wind_app_refresh(false).      *)
WakeRefresh ==
  /\ ~E1003 /\ pc = "idle" /\ now >= wakeAt
  /\ Begin("refresh", model, FALSE, FALSE, ready, NoRun)
  /\ UNCHANGED budget

(* E1001/E1002: a spot button; a spot without a cache is fetched at once.  *)
Navigate ==
  /\ ~E1003 /\ pc = "idle"
  /\ Begin("refresh", model, Cached(model) = NoForecast, FALSE, ready, NoRun)
  /\ Spend("user")

(* E1003: every refresh is a forced device-wide round.                     *)
Round == Begin("prefetch", model, TRUE, TRUE, ready, NoRun)

WakeRound ==
  /\ E1003 /\ pc = "idle" /\ now >= wakeAt
  /\ Round
  /\ UNCHANGED budget

(* E1003: s_interactive_refresh_requested.                                 *)
RequestRound ==
  /\ E1003 /\ pc = "idle"
  /\ Round
  /\ Spend("user")

(* E1003: setup_forecasts_task sweeps the other spots.                     *)
BackgroundPrefetch ==
  /\ E1003 /\ pc = "idle"
  /\ Begin("prefetch", model, FALSE, FALSE, ready, NoRun)
  /\ Spend("user")

(* E1003: navigation shows the cache first.                                *)
NavigateCached ==
  /\ E1003 /\ pc = "idle"
  /\ Begin("cached", model, FALSE, FALSE, ready, NoRun)
  /\ Spend("user")

(* The installer verifies a candidate of this spot, which may choose       *)
(* another model: preview_configuration initialises the runtime anew,      *)
(* before and after.                                                       *)
VerifySetup ==
  /\ pc = "idle"
  /\ \E m \in Models : Begin("verify", m, TRUE, FALSE, FALSE, NoRun)
  /\ Spend("user")

(* wind_app_activate_configuration.  The slots stay as they are: those of  *)
(* another model are not seen any more, and an older one of this model is  *)
(* seen again, while the schedule record stays what it was.                *)
Reconfigure ==
  /\ pc = "idle"
  /\ model' \in Models
  /\ ready' = FALSE
  /\ Spend("user")
  /\ UNCHANGED <<now, newer, older, disk, confirmed, panel, mem, cov, force,
                 forceNext, wakeAt, pc, run, tried, retries, stale>>

-----------------------------------------------------------------------------
(* A success spends the retry, unless the display may still need the last  *)
(* one; and it satisfies the boundary the run began with.                  *)
AfterSuccess_spent == ConsumeRetry(mem)
AfterSuccess == IF run.mode = "refresh" /\ run.finalAt > 0
                THEN mem ELSE ConsumeRetry(mem)

Satisfied_now(s) == MarkSatisfied(s, LatestBoundary(now))
Satisfied(s) == MarkSatisfied(s, run.boundary)

(* wind_cache_store replaces the older slot, whatever model it is of.      *)
StoreForecast == /\ newer' = [model |-> run.model, at |-> run.at]
                 /\ older' = newer

(* The provider answered with a forecast for today and the cache took it.  *)
FetchStored ==
  /\ pc = "fetch"
  /\ StoreForecast /\ cov' = 0
  /\ mem' = Satisfied(AfterSuccess)
  /\ StoreSchedule(mem')
  /\ pc' = "fetched"
  /\ run' = [run EXCEPT !.fetchOk = TRUE, !.published = TRUE]
  /\ UNCHANGED <<now, model, confirmed, panel, ready, force, forceNext,
                 wakeAt, tried, retries, stale, budget>>

(* Only a first attempt is followed by a retry. *)
Rearms == (run.due \/ run.recover) /\ ~run.retryDue

(* No answer, an invalid one, or the cache could not be written: a store   *)
(* that fails between unlink and rename has lost the older slot.           *)
FetchFailed ==
  /\ pc = "fetch"
  /\ IF Rearms
     THEN /\ mem' = ScheduleRetry(mem, run.boundary, run.at + FailedRetry)
          /\ StoreSchedule(mem')
     ELSE UNCHANGED <<mem, disk>>
  /\ older' \in {older, NoForecast}
  /\ pc' = "fetched"
  /\ run' = [run EXCEPT !.fetchOk = FALSE]
  /\ UNCHANGED <<now, newer, model, confirmed, panel, ready, cov, force,
                 forceNext, wakeAt, tried, retries, stale, budget>>

(* The rest of wind_app_prefetch_spot_fetch: swell and tide, the single    *)
(* retry they share with the forecast, and the merged outcome.             *)
PrefetchTail(marineOk) ==
  /\ pc = "fetched" /\ run.mode = "prefetch"
  /\ LET complete == run.ok /\ run.fetchOk /\ marineOk
                       /\ Cached(run.model) # NoForecast
         rearm == ~complete /\ ~run.hadRetry /\ mem.retryAt = 0
         s == ScheduleRetry(mem, LatestBoundary(run.at), run.at + FailedRetry)
         spoiled == ~marineOk /\ run.fetchOk
     IN /\ IF rearm THEN mem' = s /\ StoreSchedule(s) ELSE UNCHANGED <<mem, disk>>
        /\ IF run.round
           THEN /\ pc' = "show"
                /\ run' = [run EXCEPT !.attempted = @ \/ spoiled,
                                      !.fetchOk = @ /\ ~spoiled]
                /\ UNCHANGED <<ready, wakeAt>>
           ELSE Return("prefetch", mem')
  /\ UNCHANGED <<now, newer, older, model, confirmed, panel, cov, force,
                 forceNext, tried, retries, stale, budget>>

(* The round ends by showing the selected spot from the cache.             *)
ShowPrefetched ==
  /\ pc = "show"
  /\ Begin("prefetched", run.model, FALSE, FALSE, TRUE, run)
  /\ UNCHANGED budget

(* The setup verification must have fetched real data.                     *)
VerifyRejected ==
  /\ pc = "fetched" /\ run.mode = "verify" /\ ~run.published
  /\ Return("verify", mem)
  /\ UNCHANGED <<now, newer, older, model, disk, confirmed, panel, mem, cov,
                 force, forceNext, tried, retries, stale, budget>>

-----------------------------------------------------------------------------
(* The display half of run_internal.                                       *)
Rendering == pc = "fetched" /\ run.mode # "prefetch"
               /\ (run.mode = "verify" => run.published)

Rendered == Frame(Cached(run.model), RefreshFailed, run.at)

RenderFailed ==
  /\ Rendering
  /\ Return(run.mode, mem)
  /\ UNCHANGED <<now, newer, older, model, disk, confirmed, panel, mem, cov,
                 force, forceNext, tried, retries, stale, budget>>

(* A recovered refresh gives up the final retry it held back.              *)
KeepsFinalRetry == MayFetch(run.mode) /\ run.finalAt > 0 /\ ~RefreshFailed

SettleRetry ==
  IF KeepsFinalRetry
  THEN mem' = ConsumeRetry(mem) /\ StoreSchedule(mem')
  ELSE UNCHANGED <<mem, disk>>

(* The same frame is already confirmed: the panel is left alone.           *)
Unchanged ==
  /\ Rendering
  /\ ~force /\ confirmed = Rendered
  /\ SettleRetry
  /\ Return(run.mode, mem')
  /\ UNCHANGED <<now, newer, older, model, confirmed, panel, cov, force,
                 forceNext, tried, retries, stale, budget>>

Erase_untouched == UNCHANGED confirmed

(* wind_cache_panel_invalidate, when it succeeds. *)
Erase == confirmed' = NoFrame

Invalidate ==
  /\ Rendering
  /\ force \/ confirmed # Rendered
  /\ Erase
  /\ pc' = "draw"
  /\ UNCHANGED <<now, newer, older, model, disk, panel, ready, mem, cov,
                 force, forceNext, wakeAt, run, tried, retries, stale,
                 budget>>

Draw ==
  /\ pc = "draw"
  /\ panel' = Rendered
  /\ pc' = "confirm"
  /\ UNCHANGED <<now, newer, older, model, disk, confirmed, ready, mem, cov,
                 force, forceNext, wakeAt, run, tried, retries, stale,
                 budget>>

(* The final attempt that follows a fast retry, and whether a run that     *)
(* attempted nothing may book them.                                        *)
ArmFinal_past(s) == [s EXCEPT !.finalAt = run.at - FailedRetry]
ArmFinal(s) == [s EXCEPT !.finalAt = run.at + FailedRetry]

Recoverable_fetching == mem.retryAt = 0 /\ (run.recover \/ force)
Recoverable ==
  mem.retryAt = 0 /\ (run.recover \/ force \/ ~MayFetch(run.mode))

Rebooks_retry == run.due \/ run.forced \/ run.retryDue \/ Recoverable
Rebooks == ~run.retryDue /\ (run.due \/ run.forced \/ Recoverable)

(* The confirmation could not be erased, or the panel reported an error.   *)
(* A fast retry and one final attempt share the forecast's retry budget.   *)
DisplayFailed ==
  LET mayFetch == MayFetch(run.mode)
      marked   == IF run.due THEN MarkAttempted(mem, run.boundary) ELSE mem
      fast     == ScheduleRetry(marked, run.boundary, run.at + FastRetry)
      s == IF run.retryDue /\ run.finalAt > 0
           THEN ScheduleRetry(mem, run.boundary, run.finalAt)
           ELSE IF Rebooks
           THEN ArmFinal(fast)
           ELSE mem
  IN /\ IF run.mode # "verify" /\ (mayFetch \/ mem.retryAt = 0)
        THEN mem' = s /\ StoreSchedule(s)
        ELSE UNCHANGED <<mem, disk>>
     /\ Return(run.mode, mem')

InvalidateFailed ==
  /\ Rendering
  /\ force \/ confirmed # Rendered
  /\ confirmed # NoFrame
  /\ DisplayFailed
  /\ UNCHANGED <<now, newer, older, model, confirmed, panel, cov, force,
                 forceNext, tried, retries, stale, budget>>

DrawFailed ==
  /\ pc = "draw"
  /\ panel' \in {panel, Torn}
  /\ DisplayFailed
  /\ UNCHANGED <<now, newer, older, model, confirmed, cov, force, forceNext,
                 tried, retries, stale, budget>>

(* The E1003 round does not look at outcome.displayed: only the shown      *)
(* spot's own flag is cleared there.                                       *)
Confirm ==
  /\ pc = "confirm"
  /\ confirmed' = Rendered
  /\ force' = FALSE
  /\ forceNext' = (forceNext /\ run.mode = "prefetched")
  /\ SettleRetry
  /\ Return(run.mode, mem')
  /\ UNCHANGED <<now, newer, older, model, panel, cov, tried, retries, stale,
                 budget>>

ConfirmFailed ==
  /\ pc = "confirm"
  /\ Return(run.mode, mem)
  /\ UNCHANGED <<now, newer, older, model, disk, confirmed, panel, mem, cov,
                 force, forceNext, tried, retries, stale, budget>>

-----------------------------------------------------------------------------
(* Screens drawn outside the cycle: clear_panel_confirmation first, then   *)
(* the panel is written.  The confirmation may resist erasure.             *)
ArmOverride_next == forceNext' = TRUE /\ UNCHANGED force
ArmOverride == forceNext' = TRUE /\ force' = (force \/ ready)

ClearConfirmation ==
  /\ pc = "idle"
  /\ ArmOverride
  /\ confirmed' \in {NoFrame, confirmed}
  /\ pc' = "screen"
  /\ Spend("screens")
  /\ UNCHANGED <<now, newer, older, model, disk, panel, ready, mem, cov,
                 wakeAt, run, tried, retries, stale>>

DrawScreen ==
  /\ pc = "screen"
  /\ panel' \in {Other, Torn, panel}
  /\ pc' = "idle"
  /\ UNCHANGED <<now, newer, older, model, disk, confirmed, ready, mem, cov,
                 force, forceNext, wakeAt, run, tried, retries, stale,
                 budget>>

-----------------------------------------------------------------------------
(* A crash, a brownout or a deep sleep; a waveform may be cut short.  The  *)
(* boot refreshes at once.                                                 *)
Reset ==
  /\ Spend("resets")
  /\ panel' \in IF pc \in {"draw", "screen"} THEN {panel, Torn} ELSE {panel}
  /\ stale' = (stale \/ (confirmed # NoFrame /\ panel' # confirmed))
  /\ mem' = disk /\ ready' = FALSE /\ cov' = 0
  /\ force' = FALSE /\ forceNext' = FALSE
  /\ wakeAt' = now /\ pc' = "idle" /\ run' = NoRun
  /\ UNCHANGED <<now, newer, older, model, disk, confirmed, tried, retries>>

Tick ==
  /\ now < MaxNow
  /\ now' = now + 1
  /\ UNCHANGED <<newer, older, model, disk, confirmed, panel, ready, mem,
                 cov, force, forceNext, wakeAt, pc, run, tried, retries,
                 stale, budget>>

(* The modelled clock stops; a device that only waits for it may rest.     *)
ClockEnd == now = MaxNow /\ pc = "idle" /\ UNCHANGED vars

Step ==
  \/ FetchStored \/ FetchFailed
  \/ \E marineOk \in BOOLEAN : PrefetchTail(marineOk)
  \/ ShowPrefetched \/ VerifyRejected
  \/ RenderFailed \/ Unchanged \/ Invalidate \/ InvalidateFailed
  \/ Draw \/ DrawFailed \/ Confirm \/ ConfirmFailed \/ DrawScreen

Wake == WakeRefresh \/ WakeRound

(* dashboard_task found an installer session or a battery that refuses     *)
(* work: it goes back to wait for the next attempt.                        *)
WakeRefused ==
  /\ pc = "idle" /\ now >= wakeAt
  /\ wakeAt' = NextWake(ready, mem)
  /\ Spend("refused")
  /\ UNCHANGED <<now, newer, older, model, disk, confirmed, panel, ready, mem,
                 cov, force, forceNext, pc, run, tried, retries, stale>>

Entry ==
  \/ Navigate \/ RequestRound \/ BackgroundPrefetch \/ NavigateCached
  \/ VerifySetup \/ Reconfigure \/ ClearConfirmation

Next == Step \/ Wake \/ WakeRefused \/ Entry \/ Reset \/ Tick \/ ClockEnd

Spec == Init /\ [][Next]_vars

(* A tick stands for hours: a timer that is due wakes its task within it.  *)
WakeIsPrompt == now' = now \/ ~(pc = "idle" /\ now >= wakeAt)

(* Whatever runs, runs on: tasks are scheduled, a timer that is due wakes  *)
(* its task, and the clock goes on.                                        *)
FairSpec ==
  /\ Init /\ [][Next /\ WakeIsPrompt]_vars
  /\ WF_vars(Step) /\ WF_vars(Wake) /\ WF_vars(Tick /\ WakeIsPrompt)

-----------------------------------------------------------------------------
TypeOK ==
  /\ now \in Start..MaxNow
  /\ newer \in Forecast /\ older \in Forecast /\ model \in Models
  /\ cov \in Nat /\ wakeAt \in Nat
  /\ disk \in Schedule /\ mem \in Schedule
  /\ confirmed \in Frames /\ panel \in Frames
  /\ ready \in BOOLEAN /\ force \in BOOLEAN /\ forceNext \in BOOLEAN
  /\ pc \in Points /\ run \in Run
  /\ tried \in Nat /\ retries \in Nat /\ stale \in BOOLEAN
  /\ budget \in [Bounds -> Nat]

(* A confirmation that survives in the panel cache describes the panel, or *)
(* a force-display override is armed that keeps the next refresh from      *)
(* trusting it (wind_cache_panel_invalidate before the waveform, and       *)
(* clear_panel_confirmation_unlocked).  Only a reset may drop the override.*)
ConfirmationSound ==
  confirmed # NoFrame /\ panel # confirmed =>
    \/ stale
    \/ (IF ready THEN force ELSE forceNext)

(* A boundary is only recorded as satisfied, in memory or on storage, when *)
(* a forecast that recent is stored, whatever write fails, wherever a      *)
(* reset strikes and whatever models are tried: the forecast of the        *)
(* installed model, or, once a setup was tried with another model, the     *)
(* newest one of that model.                                               *)
CacheCoversSatisfied ==
  \A s \in {mem, disk} :
    \/ s.satisfied <= Cached(model).at
    \/ newer.model # model /\ s.satisfied <= newer.at

(* The forecast that is shown is as recent as the boundary that counts as  *)
(* satisfied.                                                              *)
ShownCoversSatisfied ==
  pc = "idle" /\ ready /\ Cached(model) # NoForecast
    => mem.satisfied <= Cached(model).at

(* While a retry is being attempted the remaining one stays on storage: a  *)
(* reset during the attempt loses no recovery opportunity.                 *)
FinalRetryHeld ==
  pc \in {"fetch", "fetched", "draw", "confirm"} /\ run.mode = "refresh"
    /\ run.finalAt > 0
  => disk.retryAt = run.finalAt /\ mem.retryAt = run.finalAt

(* A failed attempt is followed by at most two retries before the device   *)
(* waits for an ordinary start, resets included.                           *)
RetryBudget == retries <= 2

(* A boundary that is due reaches the network once: the attempt is on      *)
(* storage before the request, so no reset repeats it.  Only the loss of   *)
(* the forecast it had satisfied starts it over.                           *)
OneDueRequest ==
  [][ pc # "fetch" /\ pc' = "fetch" /\ run'.due
      => \/ run'.boundary > tried
         \/ /\ Cached(model) = NoForecast
            /\ (IF ready THEN mem ELSE disk).satisfied > 0 ]_vars

(* Boundaries that enough later ones follow in the modelled time.          *)
FollowedBoundaries ==
  {b \in Boundaries :
     Cardinality({c \in Boundaries : b < c /\ c <= MaxNow}) > MaxRefused}

(* A boundary that is due is attempted, or a later one that overtook it:   *)
(* also when it passed during a refresh, when a session or the battery     *)
(* refuses wakes, when attempts fail and when the device restarts.         *)
DueIsAttempted ==
  \A b \in FollowedBoundaries :
    (pc = "idle" /\ IsDue(mem, now) /\ LatestBoundary(now) = b)
      ~> (mem.attempted >= b \/ mem.satisfied >= b)

(* The forecast is attempted at every boundary: an idle device has no due  *)
(* boundary that its next wake skips.                                      *)
NoBoundarySlept ==
  pc = "idle" /\ ready /\ IsDue(mem, now) => wakeAt <= now

(* A failed automatic panel write schedules a retry, unless it was the     *)
(* last one of its budget.                                                 *)
DisplayRetried ==
  [][ DrawFailed /\ run.mode \in {"refresh", "prefetched"}
        /\ ~(run.retryDue /\ run.finalAt = 0)
      => mem'.retryAt > 0 ]_vars

(* A stale confirmation never suppresses the forecast after another screen.*)
NeverSuppressed ==
  [][ Unchanged => panel = confirmed ]_vars
=============================================================================
