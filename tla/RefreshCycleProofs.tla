------------------------- MODULE RefreshCycleProofs -------------------------
(***************************************************************************)
(* Type correctness and the safety properties of RefreshCycle, proved for  *)
(* every set of boundaries, every pair of retry delays and any number of   *)
(* resets, screens and user actions; the budget of retries for the E100X   *)
(* builds, the retry of a failed display for the E1003.                    *)
(***************************************************************************)
EXTENDS RefreshCycle, TLAPS

-----------------------------------------------------------------------------
(* The boundaries of an instant are what their definitions say             *)
(* (wind_schedule_latest_boundary and wind_schedule_next_boundary).        *)
LEMMA BoundaryFacts ==
  ASSUME NEW t \in Start..MaxNow
  PROVE  /\ LatestBoundary(t) \in Nat \ {0} /\ LatestBoundary(t) <= t
         /\ NextBoundary(t) \in Nat /\ NextBoundary(t) > t
<1>1. LatestBoundary(t) \in Boundaries /\ IsLatest(LatestBoundary(t), t)
  <2>1. \E b \in Boundaries : IsLatest(b, t)
    BY BoundariesAssumption
  <2> QED BY <2>1 DEF LatestBoundary
<1>2. NextBoundary(t) \in Boundaries /\ IsNext(NextBoundary(t), t)
  <2>1. \E b \in Boundaries : IsNext(b, t)
    BY BoundariesAssumption
  <2> QED BY <2>1 DEF NextBoundary
<1> QED BY <1>1, <1>2, BoundariesAssumption DEF IsLatest, IsNext

(* A schedule that knows nothing later than t, except when it retries.     *)
Bounded(s, t) == s.satisfied <= t /\ s.retryBoundary <= t

(* What each operation of wind_schedule.c does to a schedule.              *)
LEMMA MarkAttemptedFacts ==
  ASSUME NEW s \in Schedule, NEW b \in Nat
  PROVE  /\ MarkAttempted(s, b) \in Schedule
         /\ MarkAttempted(s, b).attempted >= b
         /\ MarkAttempted(s, b).attempted >= s.attempted
         /\ MarkAttempted(s, b).satisfied = s.satisfied
         /\ MarkAttempted(s, b).retryBoundary = s.retryBoundary
BY DEF MarkAttempted, Schedule

(* wind_schedule_mark_satisfied moves the satisfied boundary only.         *)
LEMMA MarkSatisfiedFacts ==
  ASSUME NEW s \in Schedule, NEW b \in Nat
  PROVE  /\ MarkSatisfied(s, b) \in Schedule
         /\ MarkSatisfied(s, b).attempted = s.attempted
         /\ MarkSatisfied(s, b).satisfied \in {s.satisfied, b}
         /\ MarkSatisfied(s, b).retryBoundary = s.retryBoundary
BY DEF MarkSatisfied, Schedule

(* wind_schedule_schedule_retry moves the retry only.                      *)
LEMMA ScheduleRetryFacts ==
  ASSUME NEW s \in Schedule, NEW b \in Nat, NEW at \in Nat
  PROVE  /\ ScheduleRetry(s, b, at) \in Schedule
         /\ ScheduleRetry(s, b, at).attempted = s.attempted
         /\ ScheduleRetry(s, b, at).satisfied = s.satisfied
         /\ ScheduleRetry(s, b, at).retryBoundary \in {s.retryBoundary, b}
BY DEF ScheduleRetry, Schedule

(* wind_schedule_consume_retry ends the retry.                             *)
LEMMA ConsumeRetryFacts ==
  ASSUME NEW s \in Schedule
  PROVE  /\ ConsumeRetry(s) \in Schedule
         /\ ConsumeRetry(s).attempted = s.attempted
         /\ ConsumeRetry(s).satisfied = s.satisfied
         /\ ConsumeRetry(s).retryBoundary = 0
BY DEF ConsumeRetry, Schedule

(* What a record that cannot be read is taken for.                         *)
LEMMA EmptyScheduleFacts ==
  EmptySchedule \in Schedule /\ EmptySchedule.satisfied = 0
    /\ EmptySchedule.attempted = 0 /\ EmptySchedule.retryBoundary = 0
BY DEF EmptySchedule, Schedule

(* The locals between two runs are well typed.                             *)
LEMMA NoRunType == NoRun \in Run
BY DEF NoRun, Run, Modes, AnyModel

(* The dashboard always sleeps until a natural instant.                    *)
LEMMA NextWakeType ==
  ASSUME NEW r \in BOOLEAN, NEW s \in Schedule, now \in Start..MaxNow
  PROVE  NextWake(r, s) \in Nat
BY BoundaryFacts DEF NextWake, NextAttempt, Schedule

-----------------------------------------------------------------------------
(* A load finds a forecast, or none.                                       *)
LEMMA CachedType ==
  ASSUME newer \in Forecast, older \in Forecast, NEW m
  PROVE  Cached(m) \in Forecast
BY DEF Cached, Forecast, NoForecast, AnyModel

(* What run_internal decides at its head.                                  *)
LEMMA DecisionFacts ==
  ASSUME NEW mode \in Modes, NEW uf \in BOOLEAN, NEW f \in Forecast,
         NEW s \in Schedule, NEW c \in Nat, now \in Start..MaxNow
  PROVE  LET d == Decision(mode, uf, f, s, c)
         IN /\ d.due \in BOOLEAN /\ d.pending \in BOOLEAN
            /\ d.retryDue \in BOOLEAN /\ d.coverage \in BOOLEAN
            /\ d.recover \in BOOLEAN /\ d.forced \in BOOLEAN
            /\ d.hadRetry \in BOOLEAN /\ d.fetch \in BOOLEAN
            /\ d.reset \in BOOLEAN /\ d.finalAt \in Nat
            /\ d.schedule \in Schedule
            /\ d.schedule = IF d.reset THEN EmptySchedule ELSE s
            /\ d.reset => /\ f = NoForecast /\ s.satisfied > 0
                          /\ mode \in {"refresh", "prefetch"}
            /\ d.due => ~d.retryDue
            /\ d.due => LatestBoundary(now) > d.schedule.attempted
<1> DEFINE d == Decision(mode, uf, f, s, c)
<1>1. d.schedule \in Schedule
  BY EmptyScheduleFacts DEF Decision
<1>2. LatestBoundary(now) \in Nat
  BY BoundaryFacts
<1>3. /\ d.due \in BOOLEAN /\ d.pending \in BOOLEAN /\ d.hadRetry \in BOOLEAN
      /\ d.retryDue \in BOOLEAN /\ d.reset \in BOOLEAN
      /\ d.finalAt \in Nat
  BY <1>1, <1>2 DEF Decision, IsDue, RetryIsDue, Schedule
<1>4. /\ d.coverage \in BOOLEAN /\ d.recover \in BOOLEAN /\ d.forced \in BOOLEAN
      /\ d.fetch \in BOOLEAN
  BY DEF Decision, MayFetch
<1>5. /\ d.schedule = IF d.reset THEN EmptySchedule ELSE s
      /\ d.reset => /\ f = NoForecast /\ s.satisfied > 0
                    /\ mode \in {"refresh", "prefetch"}
      /\ d.due => ~d.retryDue
      /\ d.due => LatestBoundary(now) > d.schedule.attempted
  BY DEF Decision, IsDue
<1> QED BY <1>1, <1>3, <1>4, <1>5

(* Booking an attempt keeps what the schedule knows and marks a due        *)
(* boundary.                                                               *)
LEMMA BookedFacts ==
  ASSUME NEW mode \in Modes, NEW uf \in BOOLEAN, NEW f \in Forecast,
         NEW s \in Schedule, NEW c \in Nat, now \in Start..MaxNow
  PROVE  LET d == Decision(mode, uf, f, s, c)
             b == Booked(d)
         IN /\ b \in Schedule
            /\ b.satisfied = d.schedule.satisfied
            /\ b.retryBoundary \in {0, d.schedule.retryBoundary}
            /\ b.attempted >= d.schedule.attempted
            /\ d.fetch /\ d.due => b.attempted >= LatestBoundary(now)
            /\ ~(d.fetch /\ (d.due \/ d.retryDue)) => b = d.schedule
<1> DEFINE d == Decision(mode, uf, f, s, c)
           m == d.schedule
           marked == MarkAttempted(m, LatestBoundary(now))
           consumed == ConsumeRetry(m)
<1>1. m \in Schedule /\ d.finalAt \in Nat
  BY DecisionFacts, EmptyScheduleFacts
<1>2. LatestBoundary(now) \in Nat
  BY BoundaryFacts
<1>3. /\ marked \in Schedule /\ marked.attempted >= LatestBoundary(now)
      /\ marked.attempted >= m.attempted /\ marked.satisfied = m.satisfied
      /\ marked.retryBoundary = m.retryBoundary
  BY <1>1, <1>2, MarkAttemptedFacts
<1>4. /\ ConsumeRetry(marked) \in Schedule
      /\ ConsumeRetry(marked).attempted = marked.attempted
      /\ ConsumeRetry(marked).satisfied = m.satisfied
      /\ ConsumeRetry(marked).retryBoundary = 0
  BY <1>3, ConsumeRetryFacts
<1>5. /\ consumed \in Schedule /\ consumed.attempted = m.attempted
      /\ consumed.satisfied = m.satisfied /\ consumed.retryBoundary = 0
  BY <1>1, ConsumeRetryFacts
<1>6. m.retryBoundary \in Nat /\ m.attempted \in Nat
  BY <1>1 DEF Schedule
<1> DEFINE again == ScheduleRetry(consumed, m.retryBoundary, d.finalAt)
<1> HIDE DEF consumed, d
<1>7. /\ again \in Schedule /\ again.attempted = m.attempted
      /\ again.satisfied = m.satisfied
      /\ again.retryBoundary \in {0, m.retryBoundary}
  BY <1>1, <1>5, <1>6, ScheduleRetryFacts, ZenonT(30)
<1>8. d.due => ~d.retryDue
  BY DecisionFacts DEF d
<1> HIDE DEF marked, again
<1>9. Booked(d) = IF ~d.fetch THEN m
                  ELSE IF d.due
                  THEN IF d.pending THEN ConsumeRetry(marked) ELSE marked
                  ELSE IF d.retryDue
                  THEN IF d.finalAt > 0 THEN again ELSE consumed
                  ELSE m
  BY DEF Booked, marked, consumed, again
<1>10. /\ Booked(d) \in Schedule
       /\ Booked(d).satisfied = m.satisfied
       /\ Booked(d).retryBoundary \in {0, m.retryBoundary}
       /\ Booked(d).attempted >= m.attempted
       /\ d.fetch /\ d.due => Booked(d).attempted >= LatestBoundary(now)
       /\ ~(d.fetch /\ (d.due \/ d.retryDue)) => Booked(d) = m
  BY <1>1, <1>3, <1>4, <1>5, <1>6, <1>7, <1>9
<1> QED BY <1>10 DEF d

-----------------------------------------------------------------------------
(* Type correctness.  A run knows the instant it began at, so that its     *)
(* boundary exists.                                                        *)
RunClock == pc \notin {"idle", "screen"} => run.at \in Start..now

TInv == TypeOK /\ RunClock

(* An empty slot is a slot.                                                *)
LEMMA NoForecastType == NoForecast \in Forecast
BY DEF NoForecast, Forecast, AnyModel

(* So is every frame.                                                      *)
LEMMA FrameType ==
  ASSUME NEW f \in Forecast, NEW off \in BOOLEAN, NEW t \in Nat
  PROVE  Frame(f, off, t) \in Frames
BY DEF Frame, Frames, Freshness

(* The decision of a run of a model on the runtime it finds or             *)
(* initialises.                                                            *)
Decided(mode, m, uf, isReady) ==
  Decision(mode, uf, Cached(m), IF isReady THEN mem ELSE disk,
           IF isReady THEN cov ELSE 0)

(* What holds of a decision d and of the schedule b with its attempt       *)
(* booked, starting from the cached forecast f and the schedule s.         *)
DecidedOn(mode, f, s, d, b) ==
  /\ d.due \in BOOLEAN /\ d.retryDue \in BOOLEAN
  /\ d.recover \in BOOLEAN /\ d.forced \in BOOLEAN
  /\ d.hadRetry \in BOOLEAN /\ d.fetch \in BOOLEAN
  /\ d.reset \in BOOLEAN /\ d.finalAt \in Nat
  /\ d.schedule \in Schedule
  /\ d.schedule = IF d.reset THEN EmptySchedule ELSE s
  /\ d.reset => /\ f = NoForecast /\ s.satisfied > 0
                /\ mode \in {"refresh", "prefetch"}
  /\ d.due => ~d.retryDue
  /\ d.due => LatestBoundary(now) > d.schedule.attempted
  /\ b \in Schedule
  /\ b.satisfied = d.schedule.satisfied
  /\ b.retryBoundary \in {0, d.schedule.retryBoundary}
  /\ b.attempted >= d.schedule.attempted
  /\ d.fetch /\ d.due => b.attempted >= LatestBoundary(now)

(* What the entry decides and books, from the record it has read.          *)
LEMMA DecidedFacts ==
  ASSUME TypeOK, NEW mode \in Modes, NEW m \in AnyModel, NEW uf \in BOOLEAN,
         NEW isReady \in BOOLEAN
  PROVE  DecidedOn(mode, Cached(m), IF isReady THEN mem ELSE disk,
                   Decided(mode, m, uf, isReady),
                   Booked(Decided(mode, m, uf, isReady)))
<1> DEFINE s0 == IF isReady THEN mem ELSE disk
           c0 == IF isReady THEN cov ELSE 0
<1>1. /\ s0 \in Schedule /\ c0 \in Nat
      /\ Cached(m) \in Forecast /\ now \in Start..MaxNow
  BY CachedType DEF TypeOK
<1> HIDE DEF s0, c0
<1> DEFINE e == Decision(mode, uf, Cached(m), s0, c0)
<1>2. /\ e.due \in BOOLEAN /\ e.retryDue \in BOOLEAN
      /\ e.recover \in BOOLEAN /\ e.forced \in BOOLEAN
      /\ e.hadRetry \in BOOLEAN /\ e.fetch \in BOOLEAN
      /\ e.reset \in BOOLEAN /\ e.finalAt \in Nat
      /\ e.schedule \in Schedule
      /\ e.schedule = IF e.reset THEN EmptySchedule ELSE s0
      /\ e.reset => /\ Cached(m) = NoForecast /\ s0.satisfied > 0
                    /\ mode \in {"refresh", "prefetch"}
      /\ e.due => ~e.retryDue
      /\ e.due => LatestBoundary(now) > e.schedule.attempted
  BY <1>1, DecisionFacts
<1>3. /\ Booked(e) \in Schedule
      /\ Booked(e).satisfied = e.schedule.satisfied
      /\ Booked(e).retryBoundary \in {0, e.schedule.retryBoundary}
      /\ Booked(e).attempted >= e.schedule.attempted
      /\ e.fetch /\ e.due => Booked(e).attempted >= LatestBoundary(now)
      /\ ~(e.fetch /\ (e.due \/ e.retryDue)) => Booked(e) = e.schedule
  BY <1>1, BookedFacts
<1>4. Decided(mode, m, uf, isReady) = e
  BY DEF Decided, s0, c0
<1> HIDE DEF e
<1>5. DecidedOn(mode, Cached(m), s0, e, Booked(e))
  BY <1>2, <1>3 DEF DecidedOn
<1> QED BY <1>4, <1>5 DEF s0

(* Beginning a run, in the terms the invariants need.                      *)
Begun(mode, m, uf, round, isReady, carried) ==
  LET d == Decided(mode, m, uf, isReady)
      b == Booked(d)
  IN /\ UNCHANGED <<now, newer, older, model, confirmed, panel, forceNext,
                    stale>>
     /\ mem' = b /\ cov' \in Nat /\ retries' \in Nat
     /\ force' = IF isReady THEN force ELSE forceNext
     /\ disk' \in {b, disk}
     /\ pc' = "fetch" /\ d.due => disk' = b /\ d.fetch
     /\ pc' \in {"fetch", "fetched", "idle"}
     /\ pc' # "idle" => ready' = TRUE /\ wakeAt' = wakeAt
     /\ pc' = "idle" => ready' = (mode # "verify") /\ run' = NoRun
                          /\ wakeAt' = NextWake(mode # "verify", b)
     /\ pc' # "idle" => \E ok \in BOOLEAN :
                          run' = Started(d, mode, m, round, carried, ok)
     /\ tried' = IF pc' = "fetch" /\ d.due THEN LatestBoundary(now)
                 ELSE IF d.reset THEN 0 ELSE tried

(* What the beginning of a run leaves behind.                              *)
LEMMA BeginFacts ==
  ASSUME TypeOK, NEW mode \in Modes, NEW m \in AnyModel, NEW uf \in BOOLEAN,
         NEW round \in BOOLEAN, NEW isReady \in BOOLEAN, NEW carried \in Run,
         Begin(mode, m, uf, round, isReady, carried)
  PROVE  Begun(mode, m, uf, round, isReady, carried)
<1> DEFINE c0 == IF isReady THEN cov ELSE 0
           d == Decided(mode, m, uf, isReady)
           b == Booked(d)
<1>1. /\ mem' = b
      /\ force' = IF isReady THEN force ELSE forceNext
      /\ cov' = IF d.fetch /\ d.coverage THEN Cached(m).at ELSE c0
      /\ tried' = IF pc' = "fetch" /\ d.due THEN LatestBoundary(now)
                  ELSE IF d.reset THEN 0 ELSE tried
      /\ UNCHANGED <<now, newer, older, model, confirmed, panel, forceNext,
                     stale>>
  BY DEF Begin, Decided
<1>2. retries' \in {retries + 1, retries, 0}
  BY DEF Begin
<1>3. \/ /\ pc' = "fetch" /\ run' = Started(d, mode, m, round, carried, TRUE)
         /\ ready' = TRUE /\ wakeAt' = wakeAt /\ disk' = disk
         /\ ~d.due /\ d.fetch
      \/ /\ pc' = "fetched" /\ run' = Started(d, mode, m, round, carried, TRUE)
         /\ ready' = TRUE /\ wakeAt' = wakeAt /\ disk' = disk
      \/ /\ pc' = "fetch" /\ run' = Started(d, mode, m, round, carried, TRUE)
         /\ ready' = TRUE /\ wakeAt' = wakeAt /\ disk' = b /\ d.fetch
      \/ /\ pc' = "fetched" /\ run' = Started(d, mode, m, round, carried, FALSE)
         /\ ready' = TRUE /\ wakeAt' = wakeAt /\ disk' = disk
      \/ /\ pc' = "idle" /\ run' = NoRun /\ ready' = (mode # "verify")
         /\ wakeAt' = NextWake(mode # "verify", b) /\ disk' = disk
  BY DEF Begin, MustStore, Return, Decided
<1>4. Cached(m).at \in Nat /\ c0 \in Nat /\ retries \in Nat
  BY CachedType DEF TypeOK, Forecast
<1> HIDE DEF b, c0, d
<1>5. cov' \in Nat /\ retries' \in Nat
  BY <1>1, <1>2, <1>4
<1>6. /\ disk' \in {b, disk}
      /\ pc' = "fetch" /\ d.due => disk' = b /\ d.fetch
      /\ pc' \in {"fetch", "fetched", "idle"}
      /\ pc' # "idle" => ready' = TRUE /\ wakeAt' = wakeAt
      /\ pc' = "idle" => ready' = (mode # "verify") /\ run' = NoRun
                           /\ wakeAt' = NextWake(mode # "verify", b)
      /\ pc' # "idle" => \E ok \in BOOLEAN :
                           run' = Started(d, mode, m, round, carried, ok)
  BY <1>3
<1> QED BY <1>1, <1>5, <1>6 DEF b, d, Begun

(* The locals r of a run with decision d are well typed and remember when  *)
(* it began.                                                               *)
LocalsOf(d, r) ==
  /\ r \in Run /\ r.at = now /\ r.due = d.due
  /\ r.boundary \in {d.schedule.retryBoundary, LatestBoundary(now)}
  /\ d.due => r.boundary = LatestBoundary(now)

(* The locals of a run that has started are those it decided.              *)
LEMMA StartedFacts ==
  ASSUME TypeOK, NEW mode \in Modes, NEW m \in AnyModel, NEW uf \in BOOLEAN,
         NEW round \in BOOLEAN, NEW isReady \in BOOLEAN, NEW carried \in Run,
         Begun(mode, m, uf, round, isReady, carried), pc' # "idle"
  PROVE  LocalsOf(Decided(mode, m, uf, isReady), run')
<1>0. PICK ok \in BOOLEAN :
        run' = Started(Decided(mode, m, uf, isReady), mode, m, round, carried, ok)
  BY DEF Begun
<1> DEFINE d == Decided(mode, m, uf, isReady)
           r == run'
<1>1. now \in Start..MaxNow /\ now \in Nat
  BY ClockAssumption DEF TypeOK
<1>2. /\ d.due \in BOOLEAN /\ d.retryDue \in BOOLEAN /\ d.recover \in BOOLEAN
      /\ d.forced \in BOOLEAN /\ d.hadRetry \in BOOLEAN
      /\ d.fetch \in BOOLEAN /\ d.finalAt \in Nat /\ d.schedule \in Schedule
      /\ d.due => ~d.retryDue
  BY DecidedFacts DEF DecidedOn
<1> HIDE DEF d
<1>3. LatestBoundary(now) \in Nat
  BY <1>1, BoundaryFacts
<1>4. d.schedule.retryBoundary \in Nat
  BY <1>2 DEF Schedule
<1>5. carried.attempted \in BOOLEAN /\ carried.fetchOk \in BOOLEAN
  BY DEF Run
<1>6. /\ r.at = now /\ r.due = d.due
      /\ r.boundary = IF d.fetch /\ d.retryDue THEN d.schedule.retryBoundary
                      ELSE LatestBoundary(now)
  BY <1>0 DEF Started, d
<1>7. r \in Run
  BY <1>1, <1>2, <1>3, <1>4, <1>5, <1>0 DEF Started, Run, d
<1> QED BY <1>2, <1>6, <1>7 DEF d, LocalsOf

(* The beginning of a run keeps the types.                                 *)
LEMMA BeginType ==
  ASSUME TInv, NEW mode \in Modes, NEW m \in AnyModel, NEW uf \in BOOLEAN,
         NEW round \in BOOLEAN, NEW isReady \in BOOLEAN, NEW carried \in Run,
         Begun(mode, m, uf, round, isReady, carried),
         budget' \in [Bounds -> Nat]
  PROVE  TInv'
<1>1. /\ TypeOK
      /\ now \in Start..MaxNow /\ now \in Nat
      /\ force \in BOOLEAN /\ forceNext \in BOOLEAN /\ tried \in Nat
  BY ClockAssumption DEF TInv, TypeOK
<1> DEFINE d == Decided(mode, m, uf, isReady)
<1>2. Booked(d) \in Schedule /\ d.reset \in BOOLEAN /\ d.due \in BOOLEAN
  BY <1>1, DecidedFacts DEF DecidedOn
<1>3. LatestBoundary(now) \in Nat
  BY <1>1, BoundaryFacts
<1>4. NextWake(mode # "verify", Booked(d)) \in Nat
  BY <1>1, <1>2, NextWakeType
<1>5. /\ UNCHANGED <<now, newer, older, model, confirmed, panel, forceNext,
                     stale>>
      /\ mem' = Booked(d) /\ cov' \in Nat /\ retries' \in Nat
      /\ force' = IF isReady THEN force ELSE forceNext
      /\ disk' \in {Booked(d), disk}
      /\ pc' \in {"fetch", "fetched", "idle"}
      /\ pc' # "idle" => ready' = TRUE /\ wakeAt' = wakeAt
      /\ pc' = "idle" => ready' = (mode # "verify") /\ run' = NoRun
                           /\ wakeAt' = NextWake(mode # "verify", Booked(d))
      /\ tried' = IF pc' = "fetch" /\ d.due THEN LatestBoundary(now)
                  ELSE IF d.reset THEN 0 ELSE tried
  BY DEF Begun
<1>6. pc' # "idle" => run' \in Run /\ run'.at = now
  BY <1>1, StartedFacts DEF LocalsOf
<1> HIDE DEF d
<1>7. /\ ready' \in BOOLEAN /\ wakeAt' \in Nat /\ run' \in Run
      /\ pc' \in Points /\ tried' \in Nat
  BY <1>1, <1>3, <1>4, <1>5, <1>6, NoRunType DEF Points, TypeOK
<1>8. TypeOK'
  BY <1>1, <1>2, <1>5, <1>7 DEF TypeOK
<1>9. RunClock'
  BY <1>1, <1>5, <1>6 DEF RunClock
<1> QED BY <1>8, <1>9 DEF TInv

(* Every action that begins a run, and what distinguishes them.            *)
EntryStep ==
  \/ WakeRefresh \/ Navigate \/ WakeRound \/ RequestRound
  \/ BackgroundPrefetch \/ NavigateCached \/ VerifySetup \/ ShowPrefetched

Entered(mode, m, uf, round, isReady, carried) ==
  /\ Begun(mode, m, uf, round, isReady, carried)
  /\ budget' \in [Bounds -> Nat]
  /\ pc \in {"idle", "show"}
  /\ isReady = ready \/ mode \in {"verify", "prefetched"}
  /\ isReady => ready \/ pc = "show"
  /\ mode \in {"refresh", "prefetch"} => m = model

(* What is left of the bounds stays a number.                              *)
LEMMA SpendType ==
  ASSUME TypeOK, NEW what \in Bounds, Spend(what)
  PROVE  budget' \in [Bounds -> Nat]
BY DEF TypeOK, Spend, Bounds

(* Every way to enter a run is its beginning, in some mode.                *)
LEMMA EntryFacts ==
  ASSUME TypeOK, EntryStep
  PROVE  \E mode \in Modes, m \in AnyModel, uf \in BOOLEAN,
            round \in BOOLEAN, isReady \in BOOLEAN, carried \in Run :
           Entered(mode, m, uf, round, isReady, carried)
<1> USE DEF Entered
<1>0. /\ ready \in BOOLEAN /\ NoRun \in Run /\ run \in Run
      /\ (Cached(model) = NoForecast) \in BOOLEAN
      /\ {"refresh", "prefetch", "cached", "prefetched", "verify"} \subseteq Modes
      /\ budget \in [Bounds -> Nat]
      /\ model \in AnyModel /\ run.model \in AnyModel
  BY NoRunType DEF TypeOK, Modes, Run, AnyModel
<1>1. CASE WakeRefresh
  <2>1. Entered("refresh", model, FALSE, FALSE, ready, NoRun)
    BY <1>0, <1>1, BeginFacts DEF WakeRefresh
  <2> QED BY <1>0, <2>1
<1>2. CASE Navigate
  <2> DEFINE uncached == Cached(model) = NoForecast
  <2>1. uncached \in BOOLEAN
    BY <1>0
  <2>2. /\ Begin("refresh", model, uncached, FALSE, ready, NoRun)
        /\ Spend("user") /\ pc = "idle"
    BY <1>2 DEF Navigate
  <2> HIDE DEF uncached
  <2>3. Begun("refresh", model, uncached, FALSE, ready, NoRun)
    <3>1. "refresh" \in Modes /\ model \in AnyModel /\ ready \in BOOLEAN
      BY <1>0
    <3>2. NoRun \in Run /\ FALSE \in BOOLEAN
      BY <1>0
    <3> QED
      BY <2>1, <2>2, <3>1, <3>2, BeginFacts, Zenon
  <2>4. budget' \in [Bounds -> Nat]
    BY <2>2, SpendType DEF Bounds
  <2>5. Entered("refresh", model, uncached, FALSE, ready, NoRun)
    BY <2>2, <2>3, <2>4
  <2> QED BY <1>0, <2>1, <2>5
<1>3. CASE WakeRound
  <2>1. Entered("prefetch", model, TRUE, TRUE, ready, NoRun)
    BY <1>0, <1>3, BeginFacts DEF WakeRound, Round
  <2> QED BY <1>0, <2>1
<1>4. CASE RequestRound
  <2>1. Entered("prefetch", model, TRUE, TRUE, ready, NoRun)
    BY <1>0, <1>4, BeginFacts, SpendType DEF RequestRound, Bounds, Round
  <2> QED BY <1>0, <2>1
<1>5. CASE BackgroundPrefetch
  <2>1. Entered("prefetch", model, FALSE, FALSE, ready, NoRun)
    BY <1>0, <1>5, BeginFacts, SpendType DEF BackgroundPrefetch, Bounds
  <2> QED BY <1>0, <2>1
<1>6. CASE NavigateCached
  <2>1. Entered("cached", model, FALSE, FALSE, ready, NoRun)
    BY <1>0, <1>6, BeginFacts, SpendType DEF NavigateCached, Bounds
  <2> QED BY <1>0, <2>1
<1>7. CASE VerifySetup
  <2>1. PICK m \in Models : Begin("verify", m, TRUE, FALSE, FALSE, NoRun)
    BY <1>7 DEF VerifySetup
  <2>2. m \in AnyModel
    BY DEF AnyModel
  <2>3. Entered("verify", m, TRUE, FALSE, FALSE, NoRun)
    BY <1>0, <1>7, <2>1, <2>2, BeginFacts, SpendType DEF VerifySetup, Bounds
  <2> QED BY <1>0, <2>2, <2>3
<1>8. CASE ShowPrefetched
  <2>1. Entered("prefetched", run.model, FALSE, FALSE, TRUE, run)
    BY <1>0, <1>8, BeginFacts DEF ShowPrefetched
  <2> QED BY <1>0, <2>1
<1> QED BY <1>1, <1>2, <1>3, <1>4, <1>5, <1>6, <1>7, <1>8 DEF EntryStep

(* How the schedule may change within a run that stores no forecast: its   *)
(* satisfied boundary stays, an attempted one never goes back and a new    *)
(* retry is for the boundary of the run.                                   *)
Follows(s, t) ==
  /\ s \in Schedule
  /\ s.attempted >= t.attempted /\ s.satisfied = t.satisfied
  /\ s.retryBoundary \in {0, t.retryBoundary, run.boundary,
                          LatestBoundary(run.at)}

(* Leaving the schedule alone follows it. *)
LEMMA FollowsSelf ==
  ASSUME NEW s \in Schedule
  PROVE  Follows(s, s)
BY DEF Follows, Schedule

(* A retry of the run's boundary. *)
LEMMA RetryFollows ==
  ASSUME NEW s \in Schedule, NEW b \in Nat, NEW at \in Nat,
         b \in {run.boundary, LatestBoundary(run.at)}
  PROVE  Follows(ScheduleRetry(s, b, at), s)
<1>1. s.attempted \in Nat
  BY DEF Schedule
<1>2. /\ ScheduleRetry(s, b, at) \in Schedule
      /\ ScheduleRetry(s, b, at).attempted = s.attempted
      /\ ScheduleRetry(s, b, at).satisfied = s.satisfied
      /\ ScheduleRetry(s, b, at).retryBoundary \in {s.retryBoundary, b}
  BY ScheduleRetryFacts
<1> QED BY <1>1, <1>2 DEF Follows

(* A recovered run that gives up its held retry, or leaves it.             *)
LEMMA SettleFacts ==
  ASSUME TypeOK, SettleRetry
  PROVE  Follows(mem', mem) /\ disk' \in {mem', disk}
<1>1. mem \in Schedule
  BY DEF TypeOK
<1>2. CASE KeepsFinalRetry
  <2>1. mem' = ConsumeRetry(mem) /\ disk' \in {mem', disk}
    BY <1>2 DEF SettleRetry, StoreSchedule
  <2>2. Follows(ConsumeRetry(mem), mem)
    BY <1>1, ConsumeRetryFacts DEF Follows, Schedule
  <2> QED BY <2>1, <2>2
<1>3. CASE ~KeepsFinalRetry
  <2>1. mem' = mem /\ disk' = disk
    BY <1>3 DEF SettleRetry
  <2> QED BY <1>1, <2>1, FollowsSelf
<1> QED BY <1>2, <1>3

(* Returning to the caller.                                                *)
LEMMA ReturnFacts ==
  ASSUME now \in Start..MaxNow, NEW mode, NEW s \in Schedule, Return(mode, s)
  PROVE  /\ pc' = "idle" /\ run' = NoRun /\ ready' = (mode # "verify")
         /\ wakeAt' \in Nat
<1>1. NextWake(mode # "verify", s) \in Nat
  BY NextWakeType
<1> QED BY <1>1 DEF Return

(* A failed panel write books its retries and returns.                     *)
LEMMA DisplayFailedFacts ==
  ASSUME TypeOK, DisplayFailed
  PROVE  /\ Follows(mem', mem) /\ disk' \in {mem', disk}
         /\ pc' = "idle" /\ run' = NoRun /\ ready' = (run.mode # "verify")
         /\ wakeAt' \in Nat
<1> DEFINE marked == IF run.due THEN MarkAttempted(mem, run.boundary) ELSE mem
           fast == ScheduleRetry(marked, run.boundary, run.at + FastRetry)
           armed == [fast EXCEPT !.finalAt = run.at + FailedRetry]
           held == ScheduleRetry(mem, run.boundary, run.finalAt)
<1>1. /\ mem \in Schedule /\ run.boundary \in Nat /\ run.finalAt \in Nat
      /\ run.at + FastRetry \in Nat /\ run.at + FailedRetry \in Nat
      /\ now \in Start..MaxNow
  BY CycleAssumption DEF TypeOK, Run
<1>2. /\ marked \in Schedule /\ marked.attempted >= mem.attempted
      /\ marked.satisfied = mem.satisfied
      /\ marked.retryBoundary = mem.retryBoundary
  <2>1. mem.attempted >= mem.attempted
    BY <1>1 DEF Schedule
  <2>2. CASE run.due
    BY <1>1, <2>2, MarkAttemptedFacts
  <2>3. CASE ~run.due
    BY <1>1, <2>1, <2>3
  <2> QED BY <2>2, <2>3
<1> HIDE DEF marked
<1>3. /\ fast \in Schedule /\ fast.attempted = marked.attempted
      /\ fast.satisfied = marked.satisfied
      /\ fast.retryBoundary \in {marked.retryBoundary, run.boundary}
  BY <1>1, <1>2, ScheduleRetryFacts
<1> HIDE DEF fast
<1>4. Follows(armed, mem)
  <2>1. /\ armed \in Schedule /\ armed.attempted = fast.attempted
        /\ armed.satisfied = fast.satisfied
        /\ armed.retryBoundary = fast.retryBoundary
    BY <1>1, <1>3 DEF Schedule
  <2> QED BY <1>2, <1>3, <2>1 DEF Follows
<1>5. Follows(held, mem)
  BY <1>1, RetryFollows
<1>6. Follows(mem, mem)
  BY <1>1, FollowsSelf
<1> HIDE DEF armed, held
<1>7. mem' \in {armed, held, mem} /\ disk' \in {mem', disk}
  BY DEF DisplayFailed, ArmFinal, StoreSchedule, armed, held, fast, marked
<1>8. Follows(mem', mem)
  BY <1>4, <1>5, <1>6, <1>7
<1>9. mem' \in Schedule
  BY <1>8 DEF Follows
<1>10. Return(run.mode, mem')
  BY DEF DisplayFailed
<1> QED BY <1>1, <1>7, <1>8, <1>9, <1>10, ReturnFacts

(* The steps of a run that store no forecast.                              *)
QuietStep ==
  \/ FetchFailed \/ (\E marineOk \in BOOLEAN : PrefetchTail(marineOk))
  \/ VerifyRejected \/ RenderFailed \/ Unchanged \/ Invalidate
  \/ InvalidateFailed \/ Draw \/ DrawFailed \/ Confirm \/ ConfirmFailed

(* What none of these steps touches, and how they return.                  *)
LEMMA QuietFacts ==
  ASSUME TInv, QuietStep
  PROVE  /\ UNCHANGED <<now, newer, model, tried, retries, stale, cov, budget>>
         /\ older' \in {older, NoForecast}
         /\ Follows(mem', mem) /\ disk' \in {mem', disk}
         /\ wakeAt' \in Nat /\ run' \in Run /\ ready' \in BOOLEAN
         /\ pc' \in {"idle", "fetched", "show", "draw", "confirm"}
         /\ pc' = "idle" => run' = NoRun /\ ready' = (run.mode # "verify")
         /\ pc' # "idle" => /\ run'.at = run.at
                            /\ run'.boundary = run.boundary
                            /\ run'.mode = run.mode /\ ready' = ready
<1>1. /\ mem \in Schedule /\ run \in Run /\ wakeAt \in Nat /\ ready \in BOOLEAN
      /\ now \in Start..MaxNow /\ now \in Nat /\ NoRun \in Run /\ TypeOK
      /\ run.boundary \in Nat /\ run.at \in Nat /\ run.mode \in Modes
  BY NoRunType, ClockAssumption DEF TInv, TypeOK, Run
<1>2. Follows(mem, mem)
  BY <1>1, FollowsSelf
<1>3. CASE FetchFailed
  <2> DEFINE s == ScheduleRetry(mem, run.boundary, run.at + FailedRetry)
  <2>0. run.at + FailedRetry \in Nat
    BY <1>1, CycleAssumption
  <2>1. Follows(s, mem)
    BY <1>1, <2>0, RetryFollows
  <2> HIDE DEF s
  <2>2. mem' \in {s, mem} /\ disk' \in {mem', disk}
    BY <1>3 DEF FetchFailed, StoreSchedule, s
  <2>3. run' \in Run /\ run'.at = run.at /\ run'.boundary = run.boundary
        /\ run'.mode = run.mode
    BY <1>1, <1>3 DEF FetchFailed, Run
  <2> QED BY <1>1, <1>2, <1>3, <2>1, <2>2, <2>3 DEF FetchFailed
<1>4. ASSUME NEW marineOk \in BOOLEAN, PrefetchTail(marineOk)
      PROVE  /\ UNCHANGED <<now, newer, model, tried, retries, stale, cov, budget>>
             /\ older' \in {older, NoForecast}
             /\ Follows(mem', mem) /\ disk' \in {mem', disk}
             /\ wakeAt' \in Nat /\ run' \in Run /\ ready' \in BOOLEAN
             /\ pc' \in {"idle", "show"}
             /\ pc' = "idle" => run' = NoRun /\ ready' = (run.mode # "verify")
             /\ pc' # "idle" => /\ run'.at = run.at
                                /\ run'.boundary = run.boundary
                                /\ run'.mode = run.mode /\ ready' = ready
  <2>1. run.at \in Start..MaxNow
    BY <1>1, <1>4, ClockAssumption DEF TInv, RunClock, PrefetchTail
  <2>2. LatestBoundary(run.at) \in Nat
    BY <2>1, BoundaryFacts
  <2> DEFINE s == ScheduleRetry(mem, LatestBoundary(run.at), run.at + FailedRetry)
  <2>0. run.at + FailedRetry \in Nat
    BY <1>1, CycleAssumption
  <2>3. Follows(s, mem)
    BY <1>1, <2>0, <2>2, RetryFollows
  <2> HIDE DEF s
  <2>4. mem' \in {s, mem} /\ disk' \in {mem', disk}
    BY <1>4 DEF PrefetchTail, StoreSchedule, s
  <2>5. Follows(mem', mem) /\ mem' \in Schedule
    BY <1>1, <1>2, <2>3, <2>4 DEF Follows
  <2>6. run.mode = "prefetch"
    BY <1>4 DEF PrefetchTail
  <2>7. CASE run.round
    <3>1. /\ run' \in Run /\ run'.at = run.at /\ run'.boundary = run.boundary
          /\ run'.mode = run.mode
      BY <1>1, <1>4, <2>7 DEF PrefetchTail, Run
    <3> QED BY <1>1, <1>4, <2>4, <2>5, <2>7, <3>1 DEF PrefetchTail
  <2>8. CASE ~run.round
    <3>1. Return("prefetch", mem')
      BY <1>4, <2>8 DEF PrefetchTail
    <3>2. /\ pc' = "idle" /\ run' = NoRun /\ ready' = ("prefetch" # "verify")
          /\ wakeAt' \in Nat
      BY <1>1, <2>5, <3>1, ReturnFacts
    <3> QED BY <1>1, <1>4, <2>4, <2>5, <2>6, <3>2 DEF PrefetchTail
  <2> QED BY <2>7, <2>8
<1>5. ASSUME VerifyRejected \/ RenderFailed \/ ConfirmFailed
      PROVE  /\ UNCHANGED <<now, newer, model, tried, retries, stale, cov, budget, mem, disk>>
             /\ older' \in {older, NoForecast}
             /\ Return(run.mode, mem)
  BY <1>5 DEF VerifyRejected, RenderFailed, ConfirmFailed
<1>6. CASE VerifyRejected \/ RenderFailed \/ ConfirmFailed
  BY <1>1, <1>2, <1>5, <1>6, ReturnFacts
<1>7. CASE Unchanged \/ Confirm
  <2>1. SettleRetry /\ Return(run.mode, mem')
        /\ UNCHANGED <<now, newer, model, tried, retries, stale, cov, budget>>
        /\ older' \in {older, NoForecast}
    BY <1>7 DEF Unchanged, Confirm
  <2>2. Follows(mem', mem) /\ disk' \in {mem', disk} /\ mem' \in Schedule
    BY <1>1, <2>1, SettleFacts DEF Follows
  <2> QED BY <1>1, <2>1, <2>2, ReturnFacts
<1>8. CASE Invalidate \/ Draw
  BY <1>1, <1>2, <1>8 DEF Invalidate, Draw
<1>9. CASE InvalidateFailed \/ DrawFailed
  BY <1>1, <1>9, DisplayFailedFacts DEF InvalidateFailed, DrawFailed
<1> QED BY <1>3, <1>4, <1>6, <1>7, <1>8, <1>9 DEF QuietStep

(* Every step keeps the types. *)
LEMMA QuietType ==
  ASSUME TInv, QuietStep
  PROVE  TInv'
<1>1. /\ UNCHANGED <<now, newer, model, tried, retries, stale, cov, budget>>
      /\ older' \in {older, NoForecast}
      /\ Follows(mem', mem) /\ disk' \in {mem', disk}
      /\ wakeAt' \in Nat /\ run' \in Run /\ ready' \in BOOLEAN
      /\ pc' \in {"idle", "fetched", "show", "draw", "confirm"}
      /\ pc' # "idle" => run'.at = run.at
  BY QuietFacts
<1>2. /\ TypeOK /\ Cached(run.model) \in Forecast /\ run \in Run /\ now \in Nat
      /\ confirmed \in Frames /\ panel \in Frames /\ disk \in Schedule
      /\ force \in BOOLEAN /\ forceNext \in BOOLEAN
  BY CachedType, ClockAssumption DEF TInv, TypeOK
<1>3. Rendered \in Frames
  <2>1. RefreshFailed \in BOOLEAN /\ run.at \in Nat
    BY <1>2 DEF RefreshFailed, Run
  <2> QED BY <1>2, <2>1, FrameType DEF Rendered
<1>4. NoFrame \in Frames /\ Torn \in Frames
  BY NoForecastType DEF NoFrame, Torn, Frames
<1>5. mem' \in Schedule /\ disk' \in Schedule
  BY <1>1, <1>2 DEF Follows
<1>6. /\ confirmed' \in {confirmed, NoFrame, Rendered}
      /\ panel' \in {panel, Torn, Rendered}
      /\ force' \in BOOLEAN /\ forceNext' \in BOOLEAN
  <2>1. CASE \/ FetchFailed \/ (\E marineOk \in BOOLEAN : PrefetchTail(marineOk))
             \/ VerifyRejected \/ RenderFailed \/ Unchanged
             \/ InvalidateFailed \/ ConfirmFailed
    BY <1>2, <2>1 DEF FetchFailed, PrefetchTail, VerifyRejected, RenderFailed,
                      Unchanged, InvalidateFailed, ConfirmFailed
  <2>2. CASE Invalidate \/ Draw \/ DrawFailed
    BY <1>2, <2>2 DEF Invalidate, Erase, Draw, DrawFailed
  <2>3. CASE Confirm
    BY <1>2, <2>3 DEF Confirm
  <2> QED BY <2>1, <2>2, <2>3 DEF QuietStep
<1>7. pc' \in Points
  BY <1>1 DEF Points
<1>10. newer' \in Forecast /\ older' \in Forecast /\ model' \in Models
  BY <1>1, <1>2, NoForecastType DEF TypeOK
<1>8. TypeOK'
  BY <1>1, <1>2, <1>3, <1>4, <1>5, <1>6, <1>7, <1>10 DEF TypeOK
<1>9. RunClock'
  <2>1. CASE pc' = "idle"
    BY <2>1 DEF RunClock
  <2>2. CASE pc' # "idle"
    <3>1. pc \notin {"idle", "screen"}
      BY <1>1, <2>2 DEF QuietStep, FetchFailed, PrefetchTail, VerifyRejected,
                        RenderFailed, Unchanged, Invalidate, InvalidateFailed,
                        Draw, DrawFailed, Confirm, ConfirmFailed, Rendering
    <3> QED BY <1>1, <2>2, <3>1 DEF RunClock, TInv
  <2> QED BY <2>1, <2>2
<1> QED BY <1>8, <1>9 DEF TInv

(* What storing a forecast writes. *)
LEMMA StoredFacts ==
  ASSUME TInv, FetchStored
  PROVE  /\ UNCHANGED <<now, model, confirmed, panel, ready, force, forceNext,
                        wakeAt, tried, retries, stale, budget>>
         /\ pc = "fetch" /\ pc' = "fetched"
         /\ newer' \in Forecast /\ newer'.at = run.at /\ older' = newer
         /\ cov' = 0
         /\ mem' \in Schedule /\ mem'.attempted = mem.attempted
         /\ mem'.satisfied \in {mem.satisfied, run.boundary}
         /\ mem'.retryBoundary \in {0, mem.retryBoundary}
         /\ disk' \in {mem', disk}
         /\ run' \in Run /\ run'.at = run.at /\ run'.boundary = run.boundary
         /\ run'.mode = run.mode
<1>1. mem \in Schedule /\ run \in Run /\ run.boundary \in Nat
  BY DEF TInv, TypeOK, Run
<1> DEFINE kept == AfterSuccess
<1>2. /\ kept \in Schedule /\ kept.attempted = mem.attempted
      /\ kept.satisfied = mem.satisfied
      /\ kept.retryBoundary \in {0, mem.retryBoundary}
  BY <1>1, ConsumeRetryFacts DEF AfterSuccess
<1> HIDE DEF kept
<1> DEFINE s == MarkSatisfied(kept, run.boundary)
<1>3. /\ s \in Schedule /\ s.attempted = kept.attempted
      /\ s.satisfied \in {kept.satisfied, run.boundary}
      /\ s.retryBoundary = kept.retryBoundary
  BY <1>1, <1>2, MarkSatisfiedFacts
<1> HIDE DEF s
<1>4. mem' = s /\ disk' \in {s, disk}
  BY DEF FetchStored, StoreSchedule, Satisfied, s, kept
<1>5. run' \in Run /\ run'.at = run.at /\ run'.boundary = run.boundary
      /\ run'.mode = run.mode
  BY <1>1 DEF FetchStored, Run
<1>6. /\ UNCHANGED <<now, model, confirmed, panel, ready, force, forceNext,
                     wakeAt, tried, retries, stale, budget>>
      /\ pc = "fetch" /\ pc' = "fetched" /\ cov' = 0
      /\ newer' = [model |-> run.model, at |-> run.at] /\ older' = newer
  BY DEF FetchStored, StoreForecast
<1>7. newer' \in Forecast /\ newer'.at = run.at
  BY <1>1, <1>6 DEF Run, Forecast
<1> QED BY <1>2, <1>3, <1>4, <1>5, <1>6, <1>7

(* Every kind of step of the specification. *)
LEMMA NextCases ==
  ASSUME [Next]_vars
  PROVE  \/ EntryStep \/ QuietStep \/ FetchStored \/ Reconfigure
         \/ ClearConfirmation \/ DrawScreen \/ WakeRefused \/ Reset \/ Tick
         \/ UNCHANGED vars
BY DEF Next, Step, Wake, Entry, EntryStep, QuietStep, ClockEnd

(* TypeOK and RunClock are inductive. *)
LEMMA TypeStep ==
  ASSUME TInv, [Next]_vars
  PROVE  TInv'
<1>1. /\ TypeOK /\ run \in Run /\ run.at \in Nat /\ NoRun \in Run
      /\ now \in Start..MaxNow /\ now \in Nat /\ Start \in Nat /\ MaxNow \in Nat
      /\ pc \in Points
  BY NoRunType, ClockAssumption DEF TInv, TypeOK, Run
<1>2. CASE EntryStep
  <2>1. PICK mode \in Modes, m \in AnyModel, uf \in BOOLEAN, round \in BOOLEAN,
             isReady \in BOOLEAN, carried \in Run :
               Entered(mode, m, uf, round, isReady, carried)
    BY <1>1, <1>2, EntryFacts
  <2> QED BY <2>1, BeginType DEF Entered
<1>3. CASE QuietStep
  BY <1>3, QuietType
<1>4. CASE FetchStored
  <2>1. mem' \in Schedule /\ disk \in Schedule /\ run' \in Run
        /\ disk' \in {mem', disk} /\ run'.at = run.at
        /\ newer' \in Forecast /\ older' = newer
        /\ cov' = 0 /\ pc' = "fetched" /\ pc = "fetch"
        /\ UNCHANGED <<now, model, confirmed, panel, ready, force, forceNext,
                       wakeAt, tried, retries, stale, budget>>
    BY <1>1, <1>4, StoredFacts DEF TypeOK
  <2>2. TypeOK'
    BY <1>1, <2>1 DEF TypeOK, Points
  <2>3. RunClock'
    BY <1>1, <2>1 DEF RunClock, TInv
  <2> QED BY <2>2, <2>3 DEF TInv
<1>5. CASE Reconfigure
  <2>1. budget' \in [Bounds -> Nat]
    BY <1>1, <1>5, SpendType DEF Reconfigure, Bounds
  <2>2. model' \in Models /\ ready' = FALSE
        /\ UNCHANGED <<now, newer, older, disk, confirmed, panel, mem, cov,
                       force, forceNext, wakeAt, pc, run, tried, retries, stale>>
    BY <1>5 DEF Reconfigure
  <2>3. TypeOK'
    BY <1>1, <2>1, <2>2 DEF TypeOK
  <2>4. RunClock'
    BY <1>1, <2>2 DEF TInv, RunClock
  <2> QED BY <2>3, <2>4 DEF TInv
<1>6. CASE ClearConfirmation
  <2>1. budget' \in [Bounds -> Nat]
    BY <1>1, <1>6, SpendType DEF ClearConfirmation, Bounds
  <2>2. NoFrame \in Frames
    BY NoForecastType DEF NoFrame, Frames
  <2>3. /\ confirmed' \in Frames /\ force' \in BOOLEAN /\ forceNext' \in BOOLEAN
        /\ pc' = "screen"
        /\ UNCHANGED <<now, newer, older, model, disk, panel, ready, mem,
                       cov, wakeAt, run, tried, retries, stale>>
    BY <1>1, <1>6, <2>2 DEF ClearConfirmation, ArmOverride, TypeOK
  <2> QED BY <1>1, <2>1, <2>3 DEF TInv, TypeOK, RunClock, Points
<1>7. CASE DrawScreen
  <2>1. Other \in Frames /\ Torn \in Frames
    BY NoForecastType DEF Other, Torn, Frames
  <2>2. panel' \in Frames /\ pc' = "idle"
        /\ UNCHANGED <<now, newer, older, model, disk, confirmed, ready, mem,
                       cov, force, forceNext, wakeAt, run, tried, retries,
                       stale, budget>>
    BY <1>1, <1>7, <2>1 DEF DrawScreen, TypeOK
  <2> QED BY <1>1, <2>2 DEF TInv, TypeOK, RunClock, Points
<1>8. CASE Reset
  <2>1. budget' \in [Bounds -> Nat]
    BY <1>1, <1>8, SpendType DEF Reset, Bounds
  <2>2. panel' \in {panel, Torn} /\ stale' \in BOOLEAN
    BY <1>1, <1>8 DEF Reset, TypeOK
  <2>3. Torn \in Frames
    BY NoForecastType DEF Torn, Frames
  <2>4. /\ mem' = disk /\ ready' = FALSE /\ cov' = 0 /\ force' = FALSE
        /\ forceNext' = FALSE /\ wakeAt' = now /\ pc' = "idle" /\ run' = NoRun
        /\ UNCHANGED <<now, newer, older, model, disk, confirmed, tried,
                       retries>>
    BY <1>8 DEF Reset
  <2> QED BY <1>1, <2>1, <2>2, <2>3, <2>4 DEF TInv, TypeOK, RunClock, Points
<1>9. CASE Tick
  <2>1. now' \in Start..MaxNow /\ now <= now'
    BY <1>1, <1>9 DEF Tick
  <2>2. RunClock'
    BY <1>1, <1>9, <2>1 DEF Tick, RunClock, TInv
  <2>3. TypeOK'
    BY <1>1, <1>9, <2>1 DEF Tick, TypeOK
  <2> QED BY <2>2, <2>3 DEF TInv
<1>11. CASE WakeRefused
  <2>1. budget' \in [Bounds -> Nat]
    BY <1>1, <1>11, SpendType DEF WakeRefused, Bounds
  <2>2. wakeAt' = NextWake(ready, mem)
        /\ UNCHANGED <<now, newer, older, model, disk, confirmed, panel, ready,
                       mem, cov, force, forceNext, pc, run, tried, retries,
                       stale>>
    BY <1>11 DEF WakeRefused
  <2>3. NextWake(ready, mem) \in Nat
    BY <1>1, NextWakeType DEF TypeOK
  <2> QED BY <1>1, <2>1, <2>2, <2>3 DEF TInv, TypeOK, RunClock
<1>10. CASE UNCHANGED vars
  BY <1>1, <1>10 DEF TInv, TypeOK, RunClock, vars
<1> QED BY <1>2, <1>3, <1>4, <1>5, <1>6, <1>7, <1>8, <1>9, <1>10, <1>11,
           NextCases

(* The first boot is well typed. *)
LEMMA TypeInit ==
  ASSUME Init
  PROVE  TInv
<1>0. NoFrame \in Frames /\ Other \in Frames
  BY NoForecastType DEF NoFrame, Other, Frames
<1>1. /\ NoFrame \in Frames /\ Other \in Frames /\ NoRun \in Run
      /\ EmptySchedule \in Schedule /\ Start \in Start..MaxNow /\ Start \in Nat
  BY <1>0, NoRunType, EmptyScheduleFacts, ClockAssumption
<1>2. budget \in [Bounds -> Nat]
  BY CycleAssumption DEF Init, Bounds
<1> QED BY <1>1, <1>2, NoForecastType DEF Init, TInv, TypeOK, RunClock, Points

(* Type correctness of the refresh cycle. *)
THEOREM TypeCorrect == Spec => []TypeOK
<1>1. Init => TInv
  BY TypeInit
<1>2. TInv /\ [Next]_vars => TInv'
  BY TypeStep
<1>3. TInv => TypeOK
  BY DEF TInv
<1> QED BY <1>1, <1>2, <1>3, PTL DEF Spec

-----------------------------------------------------------------------------
(* What the schedule and the forecast cache know of each other.  The       *)
(* newest forecast, of any model, covers what is satisfied; no record is   *)
(* ahead of the clock, a run is about a boundary that has passed, and no   *)
(* reset forgets a boundary that was tried.                                *)
NewestCovers == mem.satisfied <= newer.at /\ disk.satisfied <= newer.at

SInv ==
  /\ Bounded(mem, now) /\ Bounded(disk, now)
  /\ pc \notin {"idle", "screen"} => run.boundary <= run.at
  /\ pc = "fetch" => mem.satisfied <= run.at /\ disk.satisfied <= run.at
  /\ NewestCovers
  /\ tried <= mem.attempted /\ tried <= disk.attempted

(* A run is about a boundary that has passed, on a schedule no newer.      *)
LEMMA SatisfiedEntry ==
  ASSUME TInv, SInv, NEW mode \in Modes, NEW m \in AnyModel, NEW uf \in BOOLEAN,
         NEW round \in BOOLEAN, NEW isReady \in BOOLEAN, NEW carried \in Run,
         Begun(mode, m, uf, round, isReady, carried)
  PROVE  SInv'
<1> DEFINE d == Decided(mode, m, uf, isReady)
           b == Booked(d)
           s0 == IF isReady THEN mem ELSE disk
<1>1. /\ TypeOK /\ now \in Start..MaxNow /\ now \in Nat /\ tried \in Nat
      /\ mem \in Schedule /\ disk \in Schedule /\ s0 \in Schedule
      /\ newer.at \in Nat
  BY ClockAssumption DEF TInv, TypeOK, Forecast
<1>2. /\ Bounded(s0, now) /\ Bounded(disk, now)
      /\ tried <= s0.attempted /\ tried <= disk.attempted
      /\ s0.satisfied <= newer.at /\ disk.satisfied <= newer.at
  BY DEF SInv, NewestCovers
<1>0. DecidedOn(mode, Cached(m), s0, d, b)
  BY <1>1, DecidedFacts
<1>4. /\ UNCHANGED <<now, newer, older, model>> /\ mem' = b /\ disk' \in {b, disk}
      /\ pc' = "fetch" /\ d.due => disk' = b /\ d.fetch
      /\ pc' \in {"fetch", "fetched", "idle"}
      /\ tried' = IF pc' = "fetch" /\ d.due THEN LatestBoundary(now)
                  ELSE IF d.reset THEN 0 ELSE tried
  BY DEF Begun
<1>5. pc' # "idle" => /\ run' \in Run /\ run'.at = now
                      /\ run'.boundary \in {d.schedule.retryBoundary,
                                            LatestBoundary(now)}
  BY <1>1, StartedFacts DEF LocalsOf
<1> HIDE DEF d, b, s0
<1>3. /\ d.schedule = IF d.reset THEN EmptySchedule ELSE s0
      /\ d.schedule \in Schedule /\ b \in Schedule
      /\ b.satisfied = d.schedule.satisfied
      /\ b.retryBoundary \in {0, d.schedule.retryBoundary}
      /\ b.attempted >= d.schedule.attempted
      /\ d.fetch /\ d.due => b.attempted >= LatestBoundary(now)
      /\ d.reset \in BOOLEAN
  BY <1>0 DEF DecidedOn
<1>6. LatestBoundary(now) \in Nat /\ LatestBoundary(now) <= now
  BY <1>1, BoundaryFacts
<1>7. /\ b.satisfied \in Nat /\ b.retryBoundary \in Nat /\ b.attempted \in Nat
      /\ disk.satisfied \in Nat /\ disk.attempted \in Nat
      /\ disk.retryBoundary \in Nat /\ d.schedule.attempted \in Nat
      /\ s0.attempted \in Nat /\ s0.satisfied \in Nat
  BY <1>1, <1>3 DEF Schedule
<1>8. Bounded(d.schedule, now)
  BY <1>1, <1>2, <1>3, EmptyScheduleFacts DEF Bounded
<1>9. Bounded(b, now)
  BY <1>1, <1>3, <1>8 DEF Bounded
<1>10. Bounded(mem, now)' /\ Bounded(disk, now)'
  BY <1>2, <1>4, <1>9 DEF Bounded
<1>11. pc' \notin {"idle", "screen"} => run'.boundary <= run'.at
  BY <1>5, <1>6, <1>8 DEF Bounded
<1>12. pc' = "fetch" => mem'.satisfied <= run'.at /\ disk'.satisfied <= run'.at
  BY <1>2, <1>4, <1>5, <1>9 DEF Bounded
<1>13. NewestCovers'
  <2>1. b.satisfied <= newer.at
    BY <1>1, <1>2, <1>3, EmptyScheduleFacts
  <2> QED BY <1>2, <1>4, <2>1 DEF NewestCovers
<1>14. tried' <= mem'.attempted /\ tried' <= disk'.attempted
  <2>1. CASE pc' = "fetch" /\ d.due
    BY <1>3, <1>4, <1>7, <2>1
  <2>2. CASE ~(pc' = "fetch" /\ d.due) /\ d.reset
    BY <1>3, <1>4, <1>7, <2>2
  <2>3. CASE ~(pc' = "fetch" /\ d.due) /\ ~d.reset
    <3>1. tried' = tried /\ b.attempted >= s0.attempted
      BY <1>3, <1>4, <2>3
    <3>2. tried <= b.attempted
      BY <1>1, <1>2, <1>7, <3>1
    <3> QED BY <1>2, <1>4, <3>1, <3>2
  <2> QED BY <1>3, <2>1, <2>2, <2>3
<1> QED BY <1>10, <1>11, <1>12, <1>13, <1>14 DEF SInv

(* SInv is inductive on well-typed states. *)
LEMMA SatisfiedStep ==
  ASSUME TInv, SInv, [Next]_vars
  PROVE  SInv'
<1>1. /\ TypeOK /\ now \in Start..MaxNow /\ now \in Nat /\ tried \in Nat
      /\ mem \in Schedule /\ disk \in Schedule /\ newer.at \in Nat
      /\ run.at \in Nat /\ run.boundary \in Nat
      /\ Start \in Nat /\ MaxNow \in Nat
  BY ClockAssumption DEF TInv, TypeOK, Run, Forecast
<1>2. /\ mem.satisfied \in Nat /\ mem.attempted \in Nat
      /\ mem.retryBoundary \in Nat /\ disk.satisfied \in Nat
      /\ disk.attempted \in Nat /\ disk.retryBoundary \in Nat
  BY <1>1 DEF Schedule
<1>3. CASE EntryStep
  <2>1. PICK mode \in Modes, m \in AnyModel, uf \in BOOLEAN, round \in BOOLEAN,
             isReady \in BOOLEAN, carried \in Run :
               Entered(mode, m, uf, round, isReady, carried)
    BY <1>1, <1>3, EntryFacts
  <2> QED BY <2>1, SatisfiedEntry DEF Entered
<1>4. CASE QuietStep
  <2>1. /\ UNCHANGED <<now, newer, tried>>
        /\ Follows(mem', mem) /\ disk' \in {mem', disk}
        /\ pc' \in {"idle", "fetched", "show", "draw", "confirm"}
        /\ pc' # "idle" => run'.at = run.at /\ run'.boundary = run.boundary
    BY <1>4, QuietFacts
  <2>2. pc \notin {"idle", "screen"}
    BY <1>4 DEF QuietStep, FetchFailed, PrefetchTail, VerifyRejected,
                RenderFailed, Unchanged, Invalidate, InvalidateFailed, Draw,
                DrawFailed, Confirm, ConfirmFailed, Rendering
  <2>3. run.at \in Start..now /\ run.boundary <= run.at
    BY <2>2 DEF TInv, RunClock, SInv
  <2>4. LatestBoundary(run.at) \in Nat /\ LatestBoundary(run.at) <= run.at
    BY <1>1, <2>3, BoundaryFacts
  <2>5. /\ mem' \in Schedule /\ mem'.attempted >= mem.attempted
        /\ mem'.satisfied = mem.satisfied
        /\ mem'.retryBoundary \in {0, mem.retryBoundary, run.boundary,
                                   LatestBoundary(run.at)}
    BY <2>1 DEF Follows
  <2>6. mem'.attempted \in Nat
    BY <2>5 DEF Schedule
  <2>7. Bounded(mem', now)
    BY <1>1, <1>2, <2>3, <2>4, <2>5 DEF Bounded, SInv
  <2>8. Bounded(mem, now)' /\ Bounded(disk, now)'
    BY <2>1, <2>7 DEF Bounded, SInv
  <2>9. NewestCovers'
    BY <2>1, <2>5 DEF NewestCovers, SInv
  <2>10. tried' <= mem'.attempted /\ tried' <= disk'.attempted
    BY <1>1, <1>2, <2>1, <2>5, <2>6 DEF SInv
  <2> QED BY <2>1, <2>3, <2>8, <2>9, <2>10 DEF SInv
<1>5. CASE FetchStored
  <2>1. /\ UNCHANGED <<now, tried>> /\ pc = "fetch" /\ pc' = "fetched"
        /\ newer'.at = run.at /\ mem'.attempted = mem.attempted
        /\ mem'.satisfied \in {mem.satisfied, run.boundary}
        /\ mem'.retryBoundary \in {0, mem.retryBoundary}
        /\ disk' \in {mem', disk}
        /\ run'.at = run.at /\ run'.boundary = run.boundary
    BY <1>5, StoredFacts
  <2>2. /\ run.at <= now /\ run.boundary <= run.at
        /\ mem.satisfied <= run.at /\ disk.satisfied <= run.at
    BY <1>1, <2>1 DEF TInv, RunClock, SInv
  <2>3. mem'.satisfied <= run.at /\ mem'.retryBoundary <= now
    BY <1>1, <2>1, <2>2 DEF SInv, Bounded
  <2>4. mem'.satisfied <= now
    BY <1>1, <1>2, <2>1, <2>2
  <2>5. Bounded(mem, now)' /\ Bounded(disk, now)'
    BY <2>1, <2>3, <2>4 DEF SInv, Bounded
  <2>6. NewestCovers'
    BY <2>1, <2>2, <2>3 DEF NewestCovers
  <2>7. tried' <= mem'.attempted /\ tried' <= disk'.attempted
    BY <2>1 DEF SInv
  <2> QED BY <2>1, <2>2, <2>5, <2>6, <2>7 DEF SInv
<1>6. CASE Reconfigure
  <2>1. UNCHANGED <<now, newer, disk, mem, pc, run, tried>>
    BY <1>6 DEF Reconfigure
  <2> QED BY <2>1 DEF SInv, Bounded, NewestCovers
<1>7. CASE ClearConfirmation \/ DrawScreen
  <2>1. pc' \in {"idle", "screen"}
        /\ UNCHANGED <<now, newer, older, model, disk, mem, run, tried>>
    BY <1>7 DEF ClearConfirmation, DrawScreen
  <2> QED BY <2>1 DEF SInv, Bounded, NewestCovers
<1>8. CASE Reset
  <2>1. mem' = disk /\ pc' = "idle" /\ UNCHANGED <<now, newer, older, model,
                                                   disk, tried>>
    BY <1>8 DEF Reset
  <2> QED BY <2>1 DEF SInv, Bounded, NewestCovers
<1>9. CASE Tick
  <2>1. now' = now + 1 /\ UNCHANGED <<newer, older, model, disk, mem, pc,
                                      run, tried>>
    BY <1>9 DEF Tick
  <2>2. Bounded(mem, now)' /\ Bounded(disk, now)'
    BY <1>1, <1>2, <2>1 DEF SInv, Bounded
  <2> QED BY <2>1, <2>2 DEF SInv, NewestCovers
<1>11. CASE WakeRefused
  <2>1. UNCHANGED <<now, newer, disk, mem, pc, run, tried>>
    BY <1>11 DEF WakeRefused
  <2> QED BY <2>1 DEF SInv, Bounded, NewestCovers
<1>10. CASE UNCHANGED vars
  BY <1>10 DEF SInv, Bounded, NewestCovers, vars
<1> QED BY <1>3, <1>4, <1>5, <1>6, <1>7, <1>8, <1>9, <1>10, <1>11,
           NextCases

(* The first boot knows nothing. *)
LEMMA SatisfiedInit ==
  ASSUME Init
  PROVE  SInv
<1>1. Start \in Nat
  BY ClockAssumption
<1>2. mem = EmptySchedule /\ disk = EmptySchedule /\ now = Start
      /\ newer = NoForecast /\ pc = "idle" /\ tried = 0
  BY DEF Init
<1> QED BY <1>1, <1>2, EmptyScheduleFacts
        DEF SInv, Bounded, NewestCovers, NoForecast

(* The newest stored forecast is as recent as every boundary recorded as   *)
(* satisfied, in memory and on storage: the forecast of the installed      *)
(* model, unless another one was tried since.                              *)
THEOREM CacheCovers == Spec => []CacheCoversSatisfied
<1>1. Init => TInv /\ SInv
  BY TypeInit, SatisfiedInit
<1>2. (TInv /\ SInv) /\ [Next]_vars => (TInv /\ SInv)'
  BY TypeStep, SatisfiedStep
<1>3. SInv => CacheCoversSatisfied
  BY DEF SInv, NewestCovers, CacheCoversSatisfied, Cached
<1> QED BY <1>1, <1>2, <1>3, PTL DEF Spec

(* A step that makes a request for a due boundary makes it for one that    *)
(* was not tried, or after the forecast of a satisfied one was lost.       *)
LEMMA DueRequestStep ==
  ASSUME TInv, SInv, [Next]_vars,
         pc # "fetch", pc' = "fetch", run'.due
  PROVE  \/ run'.boundary > tried
         \/ /\ Cached(model) = NoForecast
            /\ (IF ready THEN mem ELSE disk).satisfied > 0
<1>1. /\ TypeOK /\ now \in Start..MaxNow /\ tried \in Nat
      /\ mem \in Schedule /\ disk \in Schedule
  BY DEF TInv, TypeOK
<1>2. EntryStep
  <2>1. ~QuietStep
    BY QuietFacts
  <2>2. ~FetchStored
    BY StoredFacts
  <2> QED BY <2>1, <2>2, NextCases
             DEF WakeRefused, Reconfigure, ClearConfirmation, DrawScreen, Reset, Tick, vars
<1>3. PICK mode \in Modes, m \in AnyModel, uf \in BOOLEAN, round \in BOOLEAN,
           isReady \in BOOLEAN, carried \in Run :
             Entered(mode, m, uf, round, isReady, carried)
  BY <1>1, <1>2, EntryFacts
<1> DEFINE d == Decided(mode, m, uf, isReady)
           s0 == IF isReady THEN mem ELSE disk
<1>4. DecidedOn(mode, Cached(m), s0, d, Booked(d))
  BY <1>1, DecidedFacts
<1>5. LocalsOf(d, run')
  BY <1>1, <1>3, StartedFacts DEF Entered
<1>6. isReady = ready \/ mode \in {"verify", "prefetched"}
  BY <1>3 DEF Entered
<1>7. s0 \in Schedule /\ tried <= s0.attempted /\ s0.attempted \in Nat
  BY <1>1 DEF SInv, Schedule
<1> HIDE DEF d
<1>8. LatestBoundary(now) \in Nat /\ LatestBoundary(now) = run'.boundary
      /\ LatestBoundary(now) > d.schedule.attempted
  BY <1>1, <1>4, <1>5, BoundaryFacts DEF DecidedOn, LocalsOf
<1>9. CASE d.reset
  <2>1. Cached(m) = NoForecast /\ s0.satisfied > 0
        /\ mode \in {"refresh", "prefetch"}
    BY <1>4, <1>9 DEF DecidedOn
  <2>2. isReady = ready /\ m = model
    BY <1>3, <1>6, <2>1 DEF Entered
  <2> QED BY <2>1, <2>2
<1>10. CASE ~d.reset
  <2>1. d.schedule = s0
    BY <1>4, <1>10 DEF DecidedOn
  <2> QED BY <1>1, <1>7, <1>8, <2>1
<1> QED BY <1>9, <1>10

(* A due boundary reaches the network once, whatever resets strike.        *)
THEOREM DueOnce == Spec => OneDueRequest
<1>1. Init => TInv /\ SInv
  BY TypeInit, SatisfiedInit
<1>2. (TInv /\ SInv) /\ [Next]_vars => (TInv /\ SInv)'
  BY TypeStep, SatisfiedStep
<1>3. (TInv /\ SInv) /\ [Next]_vars
        => [ pc # "fetch" /\ pc' = "fetch" /\ run'.due
               => \/ run'.boundary > tried
                  \/ /\ Cached(model) = NoForecast
                     /\ (IF ready THEN mem ELSE disk).satisfied > 0 ]_vars
  BY DueRequestStep
<1> QED BY <1>1, <1>2, <1>3, PTL DEF Spec, OneDueRequest

-----------------------------------------------------------------------------
(* What the panel, its confirmation and the override know of each other.   *)
(* The flag of the shown spot never outlives the one every spot shares;    *)
(* a run that draws has erased the confirmation, and a screen is drawn     *)
(* under an armed override.                                                *)
PInv ==
  /\ ConfirmationSound
  /\ ready /\ force => forceNext
  /\ pc \notin {"idle", "screen"} => ready
  /\ pc \in {"draw", "confirm"} => confirmed = NoFrame
  /\ pc = "confirm" => panel = Rendered
  /\ pc = "screen" => forceNext /\ (ready => force)

(* PInv is inductive on well-typed states. *)
LEMMA PanelStep ==
  ASSUME TInv, PInv, [Next]_vars
  PROVE  PInv'
<1>1. /\ TypeOK /\ ready \in BOOLEAN /\ force \in BOOLEAN
      /\ forceNext \in BOOLEAN /\ stale \in BOOLEAN
  BY DEF TInv, TypeOK
<1>2. CASE EntryStep
  <2>1. PICK mode \in Modes, m \in AnyModel, uf \in BOOLEAN, round \in BOOLEAN,
             isReady \in BOOLEAN, carried \in Run :
               Entered(mode, m, uf, round, isReady, carried)
    BY <1>1, <1>2, EntryFacts
  <2>2. /\ UNCHANGED <<confirmed, panel, forceNext, stale>>
        /\ force' = IF isReady THEN force ELSE forceNext
        /\ pc' \in {"fetch", "fetched", "idle"}
        /\ pc' # "idle" => ready' = TRUE
        /\ pc' = "idle" => ready' = (mode # "verify")
        /\ isReady = ready \/ mode \in {"verify", "prefetched"}
    BY <2>1 DEF Entered, Begun
  <2>3. isReady => ready
    BY <2>1 DEF Entered, PInv
  <2> QED BY <1>1, <2>2, <2>3 DEF PInv, ConfirmationSound
<1>3. CASE QuietStep
  <2>1. /\ UNCHANGED stale /\ ready' \in BOOLEAN
        /\ pc' \in {"idle", "fetched", "show", "draw", "confirm"}
        /\ pc' = "idle" => ready' = (run.mode # "verify")
        /\ pc' # "idle" => ready' = ready
    BY <1>3, QuietFacts
  <2>2. pc \notin {"idle", "screen"} /\ ready
    BY <1>3 DEF PInv, QuietStep, FetchFailed, PrefetchTail, VerifyRejected,
                RenderFailed, Unchanged, Invalidate, InvalidateFailed, Draw,
                DrawFailed, Confirm, ConfirmFailed, Rendering
  <2>3. CASE \/ FetchFailed \/ (\E marineOk \in BOOLEAN : PrefetchTail(marineOk))
             \/ VerifyRejected \/ RenderFailed \/ Unchanged \/ InvalidateFailed
    <3>1. pc' \in {"idle", "fetched", "show"}
          /\ UNCHANGED <<confirmed, panel, force, forceNext>>
      BY <2>3 DEF FetchFailed, PrefetchTail, VerifyRejected, RenderFailed,
                  Unchanged, InvalidateFailed, DisplayFailed, Return
    <3> QED BY <1>1, <2>1, <2>2, <3>1 DEF PInv, ConfirmationSound
  <2>4. CASE Invalidate
    <3>1. pc' = "draw" /\ confirmed' = NoFrame
          /\ UNCHANGED <<panel, force, forceNext>>
      BY <2>4 DEF Invalidate, Erase
    <3> QED BY <1>1, <2>1, <2>2, <3>1 DEF PInv, ConfirmationSound
  <2>5. CASE Draw
    <3>1. pc = "draw" /\ pc' = "confirm" /\ panel' = Rendered
          /\ UNCHANGED <<confirmed, force, forceNext, newer, older, model,
                         run>>
      BY <2>5 DEF Draw
    <3>2. Rendered' = Rendered
      BY <3>1 DEF Rendered, RefreshFailed, Cached
    <3> QED BY <1>1, <2>1, <2>2, <3>1, <3>2 DEF PInv, ConfirmationSound
  <2>6. CASE DrawFailed
    <3>1. pc = "draw" /\ pc' = "idle" /\ UNCHANGED <<confirmed, force, forceNext>>
      BY <2>6 DEF DrawFailed, DisplayFailed, Return
    <3> QED BY <1>1, <2>1, <2>2, <3>1 DEF PInv, ConfirmationSound
  <2>7. CASE Confirm
    <3>1. pc = "confirm" /\ pc' = "idle" /\ confirmed' = Rendered
          /\ force' = FALSE /\ UNCHANGED panel
      BY <2>7 DEF Confirm, Return
    <3> QED BY <1>1, <2>1, <2>2, <3>1 DEF PInv, ConfirmationSound
  <2>8. CASE ConfirmFailed
    <3>1. pc = "confirm" /\ pc' = "idle"
          /\ UNCHANGED <<confirmed, panel, force, forceNext>>
      BY <2>8 DEF ConfirmFailed, Return
    <3> QED BY <1>1, <2>1, <2>2, <3>1 DEF PInv, ConfirmationSound
  <2> QED BY <1>3, <2>3, <2>4, <2>5, <2>6, <2>7, <2>8 DEF QuietStep
<1>4. CASE FetchStored
  <2>1. pc = "fetch" /\ pc' = "fetched"
        /\ UNCHANGED <<confirmed, panel, ready, force, forceNext, stale>>
    BY <1>4 DEF FetchStored
  <2> QED BY <1>1, <2>1 DEF PInv, ConfirmationSound
<1>5. CASE Reconfigure
  <2>1. pc = "idle" /\ ready' = FALSE
        /\ UNCHANGED <<confirmed, panel, force, forceNext, pc, stale>>
    BY <1>5 DEF Reconfigure
  <2> QED BY <1>1, <2>1 DEF PInv, ConfirmationSound
<1>6. CASE ClearConfirmation
  <2>1. /\ pc' = "screen" /\ forceNext' = TRUE /\ force' = (force \/ ready)
        /\ UNCHANGED <<panel, ready, stale>>
    BY <1>6 DEF ClearConfirmation, ArmOverride
  <2> QED BY <1>1, <2>1 DEF PInv, ConfirmationSound
<1>7. CASE DrawScreen
  <2>1. pc = "screen" /\ pc' = "idle"
        /\ UNCHANGED <<confirmed, ready, force, forceNext, stale>>
    BY <1>7 DEF DrawScreen
  <2> QED BY <1>1, <2>1 DEF PInv, ConfirmationSound
<1>8. CASE Reset
  <2>1. /\ stale' = (stale \/ (confirmed # NoFrame /\ panel' # confirmed))
        /\ ready' = FALSE /\ force' = FALSE /\ pc' = "idle"
        /\ UNCHANGED confirmed
    BY <1>8 DEF Reset
  <2> QED BY <1>1, <2>1 DEF PInv, ConfirmationSound
<1>9. CASE WakeRefused \/ Tick \/ UNCHANGED vars
  <2>1. UNCHANGED <<newer, older, model, confirmed, panel, ready, force,
                    forceNext, pc, run, stale>>
    BY <1>9 DEF WakeRefused, Tick, vars
  <2>2. Rendered' = Rendered
    BY <2>1 DEF Rendered, RefreshFailed, Cached
  <2> QED BY <1>1, <2>1, <2>2 DEF PInv, ConfirmationSound
<1> QED BY <1>2, <1>3, <1>4, <1>5, <1>6, <1>7, <1>8, <1>9, NextCases

(* A confirmation on storage describes the panel, or the next refresh of   *)
(* the same power cycle does not trust it.                                 *)
THEOREM ConfirmationIsSound == Spec => []ConfirmationSound
<1>1. Init => TInv /\ PInv
  <2>1. Init => PInv
    BY DEF Init, PInv, ConfirmationSound
  <2> QED BY <2>1, TypeInit
<1>2. (TInv /\ PInv) /\ [Next]_vars => (TInv /\ PInv)'
  BY TypeStep, PanelStep
<1>3. PInv => ConfirmationSound
  BY DEF PInv
<1> QED BY <1>1, <1>2, <1>3, PTL DEF Spec

-----------------------------------------------------------------------------
(* The retries of a series.  Only a schedule with a boundary to retry has  *)
(* one, and a run with a final attempt to hold is itself a retry.          *)
RetrySound(s) == s.retryAt > 0 => s.retryBoundary > 0

HInv ==
  /\ RetrySound(mem) /\ RetrySound(disk)
  /\ run.finalAt > 0 => run.retryDue
  /\ FinalRetryHeld

(* How many retries a schedule may still start.                            *)
Pending(s) == IF s.retryAt = 0 THEN 0 ELSE IF s.finalAt = 0 THEN 1 ELSE 2

(* A run whose failure books both retries, for it is no retry itself.      *)
Booking == run.due \/ run.forced \/ run.recover \/ force

(* The E1001/E1002 builds know the two runs that refresh and draw at once. *)
(* A schedule never holds more retries than the series has left; the run   *)
(* that may book both of them starts a series, and the one that may book   *)
(* the last again has made at most one.                                    *)
RInv ==
  /\ pc # "show" /\ run.mode \in {"refresh", "verify"}
  /\ retries + Pending(mem) <= 2 /\ retries + Pending(disk) <= 2
  /\ pc \in {"fetch", "fetched", "draw"}
       => /\ ~run.retryDue /\ Booking => retries = 0
          /\ run.retryDue /\ run.finalAt > 0 => retries <= 1

(* The E1003 build never refreshes and draws in one run, and the run that  *)
(* shows a round is about a real boundary.                                 *)
GInv ==
  pc \notin {"idle", "screen"} =>
    run.mode # "refresh" /\ (run.mode = "prefetched" => run.boundary > 0)

(* Each operation on the schedule keeps a retry with its boundary, and     *)
(* none but ScheduleRetry adds to the retries a schedule may start.        *)
LEMMA PendingRange ==
  ASSUME NEW s \in Schedule
  PROVE  Pending(s) \in 0..2
BY DEF Pending

(* A consumed retry leaves none pending.                                   *)
LEMMA ConsumeRetryPending ==
  ASSUME NEW s \in Schedule
  PROVE  RetrySound(ConsumeRetry(s)) /\ Pending(ConsumeRetry(s)) = 0
BY DEF ConsumeRetry, Schedule, RetrySound, Pending

(* Marking a boundary leaves the pending retries alone.                    *)
LEMMA MarkPending ==
  ASSUME NEW s \in Schedule, NEW b \in Nat
  PROVE  /\ MarkAttempted(s, b).retryAt = s.retryAt
         /\ MarkAttempted(s, b).retryBoundary = s.retryBoundary
         /\ Pending(MarkAttempted(s, b)) = Pending(s)
         /\ MarkSatisfied(s, b).retryAt = s.retryAt
         /\ MarkSatisfied(s, b).retryBoundary = s.retryBoundary
         /\ Pending(MarkSatisfied(s, b)) = Pending(s)
BY DEF MarkAttempted, MarkSatisfied, Schedule, Pending

(* Booking makes one retry pending, or changes nothing.                    *)
LEMMA ScheduleRetryPending ==
  ASSUME NEW s \in Schedule, NEW b \in Nat, NEW at \in Nat
  PROVE  /\ RetrySound(s) => RetrySound(ScheduleRetry(s, b, at))
         /\ Pending(ScheduleRetry(s, b, at)) \in {1, Pending(s)}
         /\ b > 0 /\ at > 0 => ScheduleRetry(s, b, at).retryAt = at
         /\ ScheduleRetry(s, b, at).retryAt \in {at, s.retryAt}
BY DEF ScheduleRetry, Schedule, RetrySound, Pending

(* What a decision says of the retry it found.                             *)
LEMMA DecidedRetry ==
  ASSUME TypeOK, NEW mode \in Modes, NEW m \in AnyModel, NEW uf \in BOOLEAN,
         NEW isReady \in BOOLEAN
  PROVE  LET d == Decided(mode, m, uf, isReady)
         IN /\ d.retryDue => d.schedule.retryAt > 0
            /\ d.finalAt > 0 => d.retryDue /\ d.schedule.finalAt > 0
            /\ d.fetch = (MayFetch(mode)
                            /\ (d.forced \/ d.due \/ d.retryDue \/ d.recover))
<1> DEFINE s0 == IF isReady THEN mem ELSE disk
           c0 == IF isReady THEN cov ELSE 0
           e == Decision(mode, uf, Cached(m), s0, c0)
<1>1. e.schedule \in Schedule
  BY DecidedFacts DEF DecidedOn, Decided
<1>2. /\ e.retryDue => e.schedule.retryAt > 0
      /\ e.finalAt = IF e.retryDue /\ e.schedule.finalAt > now
                     THEN e.schedule.finalAt ELSE 0
      /\ e.fetch = (MayFetch(mode)
                      /\ (e.forced \/ e.due \/ e.retryDue \/ e.recover))
  BY DEF Decision, RetryIsDue
<1>3. Decided(mode, m, uf, isReady) = e
  BY DEF Decided
<1>4. now \in Nat
  BY ClockAssumption DEF TypeOK
<1> HIDE DEF e
<1>5. e.finalAt > 0 => e.retryDue /\ e.schedule.finalAt > 0
  BY <1>1, <1>2, <1>4 DEF Schedule
<1> QED BY <1>2, <1>3, <1>5

(* Booking an attempt starts no retry without spending it, and schedules   *)
(* the final one again at once.                                            *)
BookedOn(d, b) ==
  /\ RetrySound(d.schedule) => RetrySound(b)
  /\ Pending(b) \in 0..2 /\ Pending(b) <= Pending(d.schedule)
  /\ d.fetch /\ d.retryDue => Pending(b) + 1 <= Pending(d.schedule)
  /\ d.fetch /\ d.retryDue /\ d.finalAt > 0
       => /\ Pending(d.schedule) = 2
          /\ d.schedule.retryBoundary > 0 => b.retryAt = d.finalAt

(* What the entry books, from any record it decided on.                    *)
LEMMA BookedPending ==
  ASSUME NEW d, now \in Start..MaxNow,
         d.schedule \in Schedule, d.finalAt \in Nat, d.fetch \in BOOLEAN,
         d.due \in BOOLEAN, d.retryDue \in BOOLEAN, d.due => ~d.retryDue,
         d.retryDue => d.schedule.retryAt > 0,
         d.finalAt > 0 => d.retryDue /\ d.schedule.finalAt > 0
  PROVE  BookedOn(d, Booked(d))
<1> DEFINE m == d.schedule
           marked == MarkAttempted(m, LatestBoundary(now))
           consumed == ConsumeRetry(m)
           again == ScheduleRetry(consumed, m.retryBoundary, d.finalAt)
<1>1. LatestBoundary(now) \in Nat /\ m.retryBoundary \in Nat
  <2>1. LatestBoundary(now) \in Nat
    BY BoundaryFacts
  <2>2. m.retryBoundary \in Nat
    BY DEF Schedule
  <2> QED BY <2>1, <2>2
<1>2. /\ marked \in Schedule /\ Pending(marked) = Pending(m)
      /\ RetrySound(m) => RetrySound(marked)
  <2>1. marked \in Schedule
    BY <1>1, MarkAttemptedFacts
  <2>2. /\ marked.retryAt = m.retryAt /\ marked.retryBoundary = m.retryBoundary
        /\ Pending(marked) = Pending(m)
    BY <1>1, MarkPending
  <2> HIDE DEF marked
  <2> QED BY <2>1, <2>2 DEF RetrySound
<1>3. RetrySound(ConsumeRetry(marked)) /\ Pending(ConsumeRetry(marked)) = 0
  BY <1>2, ConsumeRetryPending
<1>4. /\ consumed \in Schedule /\ RetrySound(consumed)
      /\ Pending(consumed) = 0
  <2>1. consumed \in Schedule
    BY ConsumeRetryFacts
  <2>2. RetrySound(consumed) /\ Pending(consumed) = 0
    BY ConsumeRetryPending
  <2> QED BY <2>1, <2>2
<1> HIDE DEF marked, consumed
<1>5. /\ RetrySound(again) /\ Pending(again) \in {0, 1}
      /\ m.retryBoundary > 0 /\ d.finalAt > 0 => again.retryAt = d.finalAt
  <2>1. /\ RetrySound(consumed) => RetrySound(again)
        /\ Pending(again) \in {1, Pending(consumed)}
        /\ m.retryBoundary > 0 /\ d.finalAt > 0 => again.retryAt = d.finalAt
    BY <1>1, <1>4, ScheduleRetryPending
  <2> QED BY <1>4, <2>1
<1> HIDE DEF again
<1>6. Booked(d) = IF ~d.fetch THEN m
                  ELSE IF d.due
                  THEN IF d.pending THEN ConsumeRetry(marked) ELSE marked
                  ELSE IF d.retryDue
                  THEN IF d.finalAt > 0 THEN again ELSE consumed
                  ELSE m
  BY DEF Booked, marked, consumed, again
<1>7. Pending(m) \in 0..2
  BY PendingRange
<1>8. /\ d.retryDue => Pending(m) >= 1
      /\ d.finalAt > 0 => Pending(m) = 2
  BY <1>2 DEF Pending, Schedule
<1> HIDE DEF m
<1>9. CASE ~d.fetch
  BY <1>6, <1>7, <1>9 DEF BookedOn, m
<1>10. CASE d.fetch /\ d.due
  BY <1>2, <1>3, <1>6, <1>7, <1>10 DEF BookedOn, m
<1>11. CASE d.fetch /\ ~d.due /\ d.retryDue
  <2>1. Booked(d) = IF d.finalAt > 0 THEN again ELSE consumed
    BY <1>6, <1>11
  <2>2. RetrySound(Booked(d)) /\ Pending(Booked(d)) \in {0, 1}
    BY <1>4, <1>5, <2>1
  <2>3. Pending(Booked(d)) + 1 <= Pending(m)
    <3>1. CASE d.finalAt > 0
      BY <1>8, <2>2, <3>1
    <3>2. CASE ~(d.finalAt > 0)
      BY <1>4, <1>7, <1>8, <1>11, <2>1, <3>2
    <3> QED BY <3>1, <3>2
  <2>4. d.finalAt > 0 => /\ Pending(m) = 2
                         /\ m.retryBoundary > 0 => Booked(d).retryAt = d.finalAt
    BY <1>5, <1>8, <2>1
  <2> QED BY <1>7, <2>2, <2>3, <2>4 DEF BookedOn, m
<1>12. CASE d.fetch /\ ~d.due /\ ~d.retryDue
  BY <1>6, <1>7, <1>12 DEF BookedOn, m
<1> QED BY <1>9, <1>10, <1>11, <1>12

(* The record that the entry decides on satisfies what that needs.         *)
LEMMA BookedRetry ==
  ASSUME TypeOK, NEW mode \in Modes, NEW m \in AnyModel, NEW uf \in BOOLEAN,
         NEW isReady \in BOOLEAN
  PROVE  BookedOn(Decided(mode, m, uf, isReady), Booked(Decided(mode, m, uf, isReady)))
<1> DEFINE d == Decided(mode, m, uf, isReady)
<1>1. now \in Start..MaxNow
  BY DEF TypeOK
<1>2. /\ d.schedule \in Schedule /\ d.finalAt \in Nat
      /\ d.due => ~d.retryDue
      /\ d.fetch \in BOOLEAN /\ d.due \in BOOLEAN /\ d.retryDue \in BOOLEAN
  BY DecidedFacts DEF DecidedOn
<1>3. /\ d.retryDue => d.schedule.retryAt > 0
      /\ d.finalAt > 0 => d.retryDue /\ d.schedule.finalAt > 0
  BY DecidedRetry
<1> HIDE DEF d
<1>4. BookedOn(d, Booked(d))
  BY <1>1, <1>2, <1>3, BookedPending
<1> QED BY <1>4 DEF d

(* Beginning a run, in the terms the retries need.                         *)
Retried(mode, m, uf, isReady) ==
  LET d == Decided(mode, m, uf, isReady)
      b == Booked(d)
      f0 == IF isReady THEN force ELSE forceNext
  IN /\ mem' = b /\ disk' \in {b, disk}
     /\ pc' \in {"idle", "fetch", "fetched"}
     /\ pc' = "fetch" => d.fetch /\ (d.due \/ d.retryDue => disk' = b)
     /\ pc' = "fetched" => ~d.fetch \/ mode = "prefetch"
     /\ pc' = "idle" => run' = NoRun
     /\ pc' # "idle" =>
          /\ run'.mode = mode /\ run'.forced = d.forced /\ run'.due = d.due
          /\ run'.retryDue = d.retryDue /\ run'.finalAt = d.finalAt
          /\ run'.recover = d.recover
          /\ run'.boundary = IF d.fetch /\ d.retryDue
                             THEN d.schedule.retryBoundary ELSE LatestBoundary(now)
     /\ force' = f0
     /\ retries' = IF d.retryDue /\ d.fetch
                   THEN IF pc' = "fetch" THEN retries + 1 ELSE retries
                   ELSE IF d.fetch \/ d.due \/ mode = "cached"
                             \/ (f0 /\ mode # "prefetched") THEN 0
                   ELSE retries

(* The beginning of a run spends what its decision books.                  *)
LEMMA BeginRetries ==
  ASSUME NEW mode, NEW m, NEW uf, NEW round, NEW isReady, NEW carried,
         Begin(mode, m, uf, round, isReady, carried)
  PROVE  Retried(mode, m, uf, isReady)
<1> DEFINE d == Decided(mode, m, uf, isReady)
           b == Booked(d)
           f0 == IF isReady THEN force ELSE forceNext
<1>1. /\ mem' = b /\ force' = f0
      /\ retries' = IF d.retryDue /\ d.fetch
                    THEN IF pc' = "fetch" THEN retries + 1 ELSE retries
                    ELSE IF d.fetch \/ d.due \/ mode = "cached"
                              \/ (f0 /\ mode # "prefetched") THEN 0
                    ELSE retries
  BY DEF Begin, Decided
<1>2. \/ /\ pc' = "fetch" /\ run' = Started(d, mode, m, round, carried, TRUE)
         /\ disk' = disk /\ ~MustStore(d) /\ d.fetch
      \/ /\ pc' = "fetched" /\ run' = Started(d, mode, m, round, carried, TRUE)
         /\ disk' = disk /\ ~d.fetch
      \/ /\ pc' = "fetch" /\ run' = Started(d, mode, m, round, carried, TRUE)
         /\ disk' = b /\ MustStore(d)
      \/ /\ pc' = "fetched" /\ run' = Started(d, mode, m, round, carried, FALSE)
         /\ disk' = disk /\ mode = "prefetch"
      \/ /\ pc' = "idle" /\ run' = NoRun /\ disk' = disk
  BY DEF Begin, Return, Decided
<1> HIDE DEF b, d
<1>3. ASSUME NEW ok, run' = Started(d, mode, m, round, carried, ok)
      PROVE  /\ run'.mode = mode /\ run'.forced = d.forced /\ run'.due = d.due
             /\ run'.retryDue = d.retryDue /\ run'.finalAt = d.finalAt
             /\ run'.recover = d.recover
             /\ run'.boundary = IF d.fetch /\ d.retryDue
                                THEN d.schedule.retryBoundary ELSE LatestBoundary(now)
  BY <1>3 DEF Started
<1>4. /\ disk' \in {b, disk} /\ pc' \in {"idle", "fetch", "fetched"}
      /\ pc' = "fetch" => d.fetch /\ (d.due \/ d.retryDue => disk' = b)
      /\ pc' = "fetched" => ~d.fetch \/ mode = "prefetch"
      /\ pc' = "idle" => run' = NoRun
  BY <1>2 DEF MustStore
<1>5. pc' # "idle" => \E ok : run' = Started(d, mode, m, round, carried, ok)
  BY <1>2
<1> QED BY <1>1, <1>3, <1>4, <1>5 DEF Retried, b, d

(* Every action that begins a run, with the builds that have it.           *)
LEMMA EntryRetries ==
  ASSUME TypeOK, EntryStep
  PROVE  \E mode \in Modes, m \in AnyModel, uf \in BOOLEAN, isReady \in BOOLEAN :
           /\ Retried(mode, m, uf, isReady)
           /\ E1003 => mode # "refresh"
           /\ ~E1003 /\ pc # "show" => mode \in {"refresh", "verify"}
<1>0. /\ ready \in BOOLEAN /\ (Cached(model) = NoForecast) \in BOOLEAN
      /\ E1003 \in BOOLEAN
      /\ {"refresh", "prefetch", "cached", "prefetched", "verify"} \subseteq Modes
      /\ model \in AnyModel /\ run.model \in AnyModel
  BY CycleAssumption DEF TypeOK, Modes, Run, AnyModel
<1>1. CASE WakeRefresh
  <2>1. Retried("refresh", model, FALSE, ready) /\ ~E1003
    BY <1>1, BeginRetries DEF WakeRefresh
  <2> QED BY <1>0, <2>1
<1>2. CASE Navigate
  <2>1. Retried("refresh", model, Cached(model) = NoForecast, ready) /\ ~E1003
    BY <1>2, BeginRetries DEF Navigate
  <2> QED BY <1>0, <2>1
<1>3. CASE WakeRound \/ RequestRound
  <2>1. Retried("prefetch", model, TRUE, ready) /\ E1003
    BY <1>3, BeginRetries DEF WakeRound, RequestRound, Round
  <2> QED BY <1>0, <2>1
<1>4. CASE BackgroundPrefetch
  <2>1. Retried("prefetch", model, FALSE, ready) /\ E1003
    BY <1>4, BeginRetries DEF BackgroundPrefetch
  <2> QED BY <1>0, <2>1
<1>5. CASE NavigateCached
  <2>1. Retried("cached", model, FALSE, ready) /\ E1003
    BY <1>5, BeginRetries DEF NavigateCached
  <2> QED BY <1>0, <2>1
<1>6. CASE VerifySetup
  <2>1. PICK m \in Models : Begin("verify", m, TRUE, FALSE, FALSE, NoRun)
    BY <1>6 DEF VerifySetup
  <2>2. m \in AnyModel
    BY DEF AnyModel
  <2>3. Retried("verify", m, TRUE, FALSE)
    BY <2>1, BeginRetries
  <2> QED BY <1>0, <2>2, <2>3
<1>7. CASE ShowPrefetched
  <2>1. Retried("prefetched", run.model, FALSE, TRUE) /\ pc = "show"
    BY <1>7, BeginRetries DEF ShowPrefetched
  <2> QED BY <1>0, <2>1
<1> QED BY <1>1, <1>2, <1>3, <1>4, <1>5, <1>6, <1>7 DEF EntryStep

(* How a step of a run that stores no forecast may change the retries: not *)
(* at all, by spending them, or by booking those of a first attempt.       *)
RetryChange ==
  \/ mem' = mem
  \/ Pending(mem') = 0 /\ pc' = "idle"
  \/ pc = "fetch" /\ Rearms /\ Pending(mem') \in {1, Pending(mem)}
  \/ run.mode = "prefetch" /\ Pending(mem') \in {1, Pending(mem)}
  \/ /\ pc \in {"fetched", "draw"} /\ pc' = "idle"
     /\ \/ /\ run.retryDue /\ run.finalAt > 0
           /\ Pending(mem') \in {1, Pending(mem)}
        \/ run.mode # "verify" /\ Rebooks

(* A settled boundary keeps the pending retries or ends them.              *)
LEMMA SettleRetries ==
  ASSUME mem \in Schedule, SettleRetry
  PROVE  /\ RetrySound(mem) => RetrySound(mem')
         /\ mem' = mem \/ Pending(mem') = 0
BY ConsumeRetryPending DEF SettleRetry

(* A failed display changes the retries only as RetryChange says.          *)
LEMMA DisplayRetries ==
  ASSUME TypeOK, DisplayFailed, pc \in {"fetched", "draw"}
  PROVE  /\ RetrySound(mem) => RetrySound(mem')
         /\ RetryChange
<1> DEFINE marked == IF run.due THEN MarkAttempted(mem, run.boundary) ELSE mem
           fast == ScheduleRetry(marked, run.boundary, run.at + FastRetry)
           armed == [fast EXCEPT !.finalAt = run.at + FailedRetry]
           held == ScheduleRetry(mem, run.boundary, run.finalAt)
<1>1. /\ mem \in Schedule /\ run.boundary \in Nat /\ run.finalAt \in Nat
      /\ run.at + FastRetry \in Nat /\ run.at + FailedRetry \in Nat
  BY CycleAssumption DEF TypeOK, Run
<1>2. marked \in Schedule /\ (RetrySound(mem) => RetrySound(marked))
  <2>1. CASE run.due
    <3>1. /\ MarkAttempted(mem, run.boundary) \in Schedule
          /\ MarkAttempted(mem, run.boundary).retryAt = mem.retryAt
          /\ MarkAttempted(mem, run.boundary).retryBoundary = mem.retryBoundary
      BY <1>1, MarkAttemptedFacts, MarkPending
    <3> QED BY <2>1, <3>1 DEF RetrySound
  <2>2. CASE ~run.due
    BY <1>1, <2>2
  <2> QED BY <2>1, <2>2
<1> HIDE DEF marked
<1>3. fast \in Schedule /\ (RetrySound(marked) => RetrySound(fast))
  BY <1>1, <1>2, ScheduleRetryFacts, ScheduleRetryPending
<1> HIDE DEF fast
<1>4. RetrySound(fast) => RetrySound(armed)
  BY <1>3 DEF RetrySound, Schedule
<1>5. /\ RetrySound(mem) => RetrySound(held)
      /\ Pending(held) \in {1, Pending(mem)}
  BY <1>1, ScheduleRetryPending
<1> HIDE DEF armed, held
<1>6. /\ pc' = "idle"
      /\ \/ mem' = mem
         \/ run.mode # "verify" /\ run.retryDue /\ run.finalAt > 0 /\ mem' = held
         \/ run.mode # "verify" /\ Rebooks /\ mem' = armed
  BY DEF DisplayFailed, Return, ArmFinal, armed, held, fast, marked
<1> QED BY <1>2, <1>3, <1>4, <1>5, <1>6 DEF RetryChange

(* A step inside a run changes the retries only as RetryChange says.       *)
LEMMA QuietRetries ==
  ASSUME TInv, QuietStep
  PROVE  /\ RetrySound(mem) => RetrySound(mem')
         /\ RetryChange
         /\ pc' # "idle" =>
              /\ run'.finalAt = run.finalAt /\ run'.retryDue = run.retryDue
              /\ run'.due = run.due /\ run'.forced = run.forced
              /\ run'.recover = run.recover /\ force' = force
              /\ pc' # "show" => pc \in {"fetch", "fetched", "draw"}
              /\ pc' = "show" => run.mode = "prefetch"
<1>1. /\ TypeOK /\ mem \in Schedule /\ run \in Run /\ now \in Start..MaxNow
      /\ run.boundary \in Nat /\ run.at \in Nat /\ run.at + FailedRetry \in Nat
  BY CycleAssumption DEF TInv, TypeOK, Run
<1>2. CASE FetchFailed
  <2> DEFINE s == ScheduleRetry(mem, run.boundary, run.at + FailedRetry)
  <2>1. /\ RetrySound(mem) => RetrySound(s)
        /\ Pending(s) \in {1, Pending(mem)}
    BY <1>1, ScheduleRetryPending
  <2> HIDE DEF s
  <2>2. mem' = mem \/ (Rearms /\ mem' = s)
    BY <1>2 DEF FetchFailed, s
  <2>3. /\ pc = "fetch" /\ pc' = "fetched" /\ force' = force
        /\ run'.finalAt = run.finalAt /\ run'.retryDue = run.retryDue
        /\ run'.due = run.due /\ run'.forced = run.forced
        /\ run'.recover = run.recover
    BY <1>1, <1>2 DEF FetchFailed, Run
  <2> QED BY <2>1, <2>2, <2>3 DEF RetryChange
<1>3. ASSUME NEW marineOk \in BOOLEAN, PrefetchTail(marineOk)
      PROVE  /\ RetrySound(mem) => RetrySound(mem')
             /\ RetryChange
             /\ pc' # "idle" =>
                  /\ run'.finalAt = run.finalAt /\ run'.retryDue = run.retryDue
                  /\ run'.due = run.due /\ run'.forced = run.forced
                  /\ run'.recover = run.recover /\ force' = force
                  /\ pc' = "show" /\ run.mode = "prefetch"
  <2> DEFINE s == ScheduleRetry(mem, LatestBoundary(run.at), run.at + FailedRetry)
  <2>1. run.at \in Start..MaxNow
    BY <1>1, <1>3, ClockAssumption DEF TInv, RunClock, PrefetchTail
  <2>2. LatestBoundary(run.at) \in Nat
    BY <2>1, BoundaryFacts
  <2>3. /\ RetrySound(mem) => RetrySound(s)
        /\ Pending(s) \in {1, Pending(mem)}
    BY <1>1, <2>2, ScheduleRetryPending
  <2> HIDE DEF s
  <2>4. mem' \in {s, mem} /\ run.mode = "prefetch"
    BY <1>3 DEF PrefetchTail, s
  <2>5. pc' # "idle" =>
          /\ run'.finalAt = run.finalAt /\ run'.retryDue = run.retryDue
          /\ run'.due = run.due /\ run'.forced = run.forced
          /\ run'.recover = run.recover /\ force' = force /\ pc' = "show"
    BY <1>1, <1>3 DEF PrefetchTail, Return, Run
  <2> QED BY <2>3, <2>4, <2>5 DEF RetryChange
<1>4. CASE VerifyRejected \/ RenderFailed \/ ConfirmFailed
  BY <1>4 DEF VerifyRejected, RenderFailed, ConfirmFailed, Return, RetryChange
<1>5. CASE Unchanged \/ Confirm
  <2>1. SettleRetry /\ pc' = "idle"
    BY <1>5 DEF Unchanged, Confirm, Return
  <2> QED BY <1>1, <2>1, SettleRetries DEF RetryChange
<1>6. CASE Invalidate \/ Draw
  BY <1>6 DEF Invalidate, Draw, Rendering, RetryChange
<1>7. CASE InvalidateFailed \/ DrawFailed
  <2>1. DisplayFailed /\ pc \in {"fetched", "draw"} /\ pc' = "idle"
    BY <1>7 DEF InvalidateFailed, DrawFailed, DisplayFailed, Rendering, Return
  <2> QED BY <1>1, <2>1, DisplayRetries
<1> QED BY <1>2, <1>3, <1>4, <1>5, <1>6, <1>7 DEF QuietStep

(* Storing a forecast spends the retry or, in a refresh that holds its     *)
(* final attempt, leaves it.                                               *)
LEMMA StoredRetries ==
  ASSUME TInv, FetchStored
  PROVE  /\ RetrySound(mem) => RetrySound(mem')
         /\ Pending(mem') \in {0, Pending(mem)}
         /\ run.mode = "refresh" /\ run.finalAt > 0 => mem'.retryAt = mem.retryAt
         /\ run'.finalAt = run.finalAt /\ run'.retryDue = run.retryDue
         /\ run'.due = run.due /\ run'.forced = run.forced
         /\ run'.recover = run.recover
<1>1. mem \in Schedule /\ run \in Run /\ run.boundary \in Nat
  BY DEF TInv, TypeOK, Run
<1> DEFINE kept == AfterSuccess
<1>2. /\ kept \in Schedule /\ (RetrySound(mem) => RetrySound(kept))
      /\ Pending(kept) \in {0, Pending(mem)}
      /\ run.mode = "refresh" /\ run.finalAt > 0 => kept.retryAt = mem.retryAt
  BY <1>1, ConsumeRetryFacts, ConsumeRetryPending DEF AfterSuccess
<1> HIDE DEF kept
<1> DEFINE s == MarkSatisfied(kept, run.boundary)
<1>3. /\ s.retryAt = kept.retryAt /\ s.retryBoundary = kept.retryBoundary
      /\ Pending(s) = Pending(kept)
  BY <1>1, <1>2, MarkPending
<1> HIDE DEF s
<1>4. RetrySound(kept) => RetrySound(s)
  BY <1>3 DEF RetrySound
<1>5. mem' = s
  BY DEF FetchStored, Satisfied, s, kept
<1>6. /\ run'.finalAt = run.finalAt /\ run'.retryDue = run.retryDue
      /\ run'.due = run.due /\ run'.forced = run.forced
      /\ run'.recover = run.recover
  BY <1>1 DEF FetchStored, Run
<1> QED BY <1>2, <1>3, <1>4, <1>5, <1>6

(* HInv is inductive on well-typed states.                                 *)
LEMMA HeldStep ==
  ASSUME TInv, HInv, [Next]_vars
  PROVE  HInv'
<1>1. /\ TypeOK /\ mem \in Schedule /\ disk \in Schedule /\ run \in Run
      /\ run.finalAt \in Nat
  BY DEF TInv, TypeOK, Run
<1>2. RetrySound(mem) /\ RetrySound(disk) /\ (run.finalAt > 0 => run.retryDue)
  BY DEF HInv
<1>0. NoRun.finalAt = 0
  BY DEF NoRun
<1>3. CASE EntryStep
  <2>1. PICK mode \in Modes, m \in AnyModel, uf \in BOOLEAN, isReady \in BOOLEAN :
               Retried(mode, m, uf, isReady)
    BY <1>1, <1>3, EntryRetries
  <2> DEFINE d == Decided(mode, m, uf, isReady)
             b == Booked(d)
             s0 == IF isReady THEN mem ELSE disk
  <2>2. BookedOn(d, b)
    BY <1>1, BookedRetry
  <2>3. /\ d.schedule = IF d.reset THEN EmptySchedule ELSE s0
        /\ d.reset \in BOOLEAN /\ d.retryDue \in BOOLEAN /\ d.finalAt \in Nat
    BY <1>1, DecidedFacts DEF DecidedOn
  <2>4. /\ d.retryDue => d.schedule.retryAt > 0
        /\ d.finalAt > 0 => d.retryDue
        /\ d.fetch = (MayFetch(mode)
                        /\ (d.forced \/ d.due \/ d.retryDue \/ d.recover))
    BY <1>1, DecidedRetry
  <2>5. /\ mem' = b /\ disk' \in {b, disk}
        /\ pc' \in {"idle", "fetch", "fetched"}
        /\ pc' = "fetch" => d.fetch /\ (d.due \/ d.retryDue => disk' = b)
        /\ pc' = "fetched" => ~d.fetch \/ mode = "prefetch"
        /\ pc' = "idle" => run' = NoRun
        /\ pc' # "idle" => /\ run'.mode = mode /\ run'.retryDue = d.retryDue
                           /\ run'.finalAt = d.finalAt
    BY <2>1 DEF Retried
  <2> HIDE DEF d, b
  <2>6. RetrySound(d.schedule)
    BY <1>2, <2>3 DEF RetrySound, EmptySchedule
  <2>7. RetrySound(b) /\ RetrySound(mem') /\ RetrySound(disk')
    BY <1>2, <2>2, <2>5, <2>6 DEF BookedOn
  <2>8. run'.finalAt > 0 => run'.retryDue
    BY <1>0, <2>4, <2>5
  <2>9. FinalRetryHeld'
    <3> SUFFICES ASSUME pc' \in {"fetch", "fetched"}, run'.mode = "refresh",
                        run'.finalAt > 0
                 PROVE  disk'.retryAt = run'.finalAt /\ mem'.retryAt = run'.finalAt
      BY <1>0, <2>5 DEF FinalRetryHeld
    <3>1. /\ mode = "refresh" /\ d.finalAt > 0 /\ d.retryDue /\ d.fetch
          /\ pc' = "fetch" /\ disk' = b
      BY <2>4, <2>5 DEF MayFetch
    <3>2. b.retryAt = d.finalAt
      BY <2>2, <2>4, <2>6, <3>1 DEF BookedOn, RetrySound
    <3> QED BY <2>5, <3>1, <3>2
  <2> QED BY <2>7, <2>8, <2>9 DEF HInv, RetrySound
<1>4. CASE QuietStep
  <2>1. /\ disk' \in {mem', disk}
        /\ pc' \in {"idle", "fetched", "show", "draw", "confirm"}
        /\ pc' = "idle" => run' = NoRun
        /\ pc' # "idle" => run'.mode = run.mode
    BY <1>4, QuietFacts
  <2>2. /\ RetrySound(mem') /\ RetryChange
        /\ pc' # "idle" =>
              /\ run'.finalAt = run.finalAt /\ run'.retryDue = run.retryDue
              /\ pc' # "show" => pc \in {"fetch", "fetched", "draw"}
    BY <1>2, <1>4, QuietRetries
  <2>3. RetrySound(disk')
    BY <1>2, <2>1, <2>2
  <2>4. run'.finalAt > 0 => run'.retryDue
    BY <1>0, <1>2, <2>1, <2>2
  <2>5. FinalRetryHeld'
    <3> SUFFICES ASSUME pc' \in {"fetched", "draw", "confirm"},
                        run'.mode = "refresh", run'.finalAt > 0
                 PROVE  disk'.retryAt = run'.finalAt /\ mem'.retryAt = run'.finalAt
      BY <1>0, <2>1 DEF FinalRetryHeld
    <3>1. /\ run.mode = "refresh" /\ run.finalAt > 0 /\ run'.finalAt = run.finalAt
          /\ pc \in {"fetch", "fetched", "draw"} /\ run.retryDue
      BY <1>2, <2>1, <2>2
    <3>2. mem.retryAt = run.finalAt /\ disk.retryAt = run.finalAt
      BY <3>1 DEF HInv, FinalRetryHeld
    <3>3. mem' = mem
      BY <2>2, <3>1 DEF RetryChange, Rearms
    <3> QED BY <2>1, <3>1, <3>2, <3>3
  <2> QED BY <2>2, <2>3, <2>4, <2>5 DEF HInv, RetrySound
<1>5. CASE FetchStored
  <2>1. /\ RetrySound(mem')
        /\ run.mode = "refresh" /\ run.finalAt > 0 => mem'.retryAt = mem.retryAt
        /\ run'.finalAt = run.finalAt /\ run'.retryDue = run.retryDue
    BY <1>2, <1>5, StoredRetries
  <2>2. /\ disk' \in {mem', disk} /\ pc = "fetch" /\ pc' = "fetched"
        /\ run'.mode = run.mode
    BY <1>5, StoredFacts
  <2>3. RetrySound(disk')
    BY <1>2, <2>1, <2>2
  <2>4. FinalRetryHeld'
    BY <2>1, <2>2 DEF HInv, FinalRetryHeld
  <2> QED BY <1>2, <2>1, <2>3, <2>4 DEF HInv, RetrySound
<1>6. CASE Reset
  <2>1. mem' = disk /\ disk' = disk /\ pc' = "idle" /\ run' = NoRun
    BY <1>6 DEF Reset
  <2> QED BY <1>0, <1>2, <2>1 DEF HInv, RetrySound, FinalRetryHeld
<1>7. CASE \/ Reconfigure \/ ClearConfirmation \/ DrawScreen \/ WakeRefused
           \/ Tick \/ UNCHANGED vars
  <2>1. /\ UNCHANGED <<mem, disk, run>>
        /\ pc' = pc \/ pc' \in {"idle", "screen"}
    BY <1>7 DEF Reconfigure, ClearConfirmation, DrawScreen, WakeRefused, Tick,
                vars
  <2> QED BY <2>1 DEF HInv, RetrySound, FinalRetryHeld
<1> QED BY <1>3, <1>4, <1>5, <1>6, <1>7, NextCases

(* While a refresh of the E1001 and E1002 attempts a retry the final one   *)
(* is on storage, wherever a reset strikes.  The E1003 has no such run:    *)
(* there the statement is empty.                                           *)
THEOREM FinalRetryIsHeld == Spec => []FinalRetryHeld
<1>1. Init => TInv /\ HInv
  <2>1. Init => HInv
    BY DEF Init, HInv, RetrySound, FinalRetryHeld, EmptySchedule, NoRun
  <2> QED BY <2>1, TypeInit
<1>2. (TInv /\ HInv) /\ [Next]_vars => (TInv /\ HInv)'
  BY TypeStep, HeldStep
<1>3. HInv => FinalRetryHeld
  BY DEF HInv
<1> QED BY <1>1, <1>2, <1>3, PTL DEF Spec

-----------------------------------------------------------------------------
(* RInv is inductive on well-typed states of the E1001/E1002 builds.       *)
LEMMA BudgetEntry ==
  ASSUME TInv, RInv, ~E1003, EntryStep
  PROVE  RInv'
<1>1. /\ TypeOK /\ mem \in Schedule /\ disk \in Schedule /\ retries \in Nat
  BY DEF TInv, TypeOK
<1>2. PICK mode \in Modes, m \in AnyModel, uf \in BOOLEAN, isReady \in BOOLEAN :
             Retried(mode, m, uf, isReady) /\ mode \in {"refresh", "verify"}
  BY <1>1, EntryRetries DEF RInv
<1> DEFINE d == Decided(mode, m, uf, isReady)
           b == Booked(d)
           s0 == IF isReady THEN mem ELSE disk
           f0 == IF isReady THEN force ELSE forceNext
<1>3. BookedOn(d, b)
  BY <1>1, BookedRetry
<1>4. /\ d.schedule = IF d.reset THEN EmptySchedule ELSE s0
      /\ d.reset \in BOOLEAN /\ d.schedule \in Schedule
  BY <1>1, DecidedFacts DEF DecidedOn
<1>5. /\ d.finalAt > 0 => d.retryDue
      /\ d.fetch = (d.forced \/ d.due \/ d.retryDue \/ d.recover)
  BY <1>1, <1>2, DecidedRetry DEF MayFetch
<1>6. /\ mem' = b /\ disk' \in {b, disk}
      /\ pc' \in {"idle", "fetch", "fetched"}
      /\ pc' = "fetch" => d.fetch /\ (d.due \/ d.retryDue => disk' = b)
      /\ pc' = "fetched" => ~d.fetch
      /\ pc' = "idle" => run' = NoRun
      /\ pc' # "idle" =>
           /\ run'.mode = mode /\ run'.forced = d.forced /\ run'.due = d.due
           /\ run'.retryDue = d.retryDue /\ run'.finalAt = d.finalAt
           /\ run'.recover = d.recover
      /\ force' = f0
      /\ retries' = IF d.retryDue /\ d.fetch
                    THEN IF pc' = "fetch" THEN retries + 1 ELSE retries
                    ELSE IF d.fetch \/ d.due \/ f0 THEN 0 ELSE retries
  BY <1>2 DEF Retried
<1> HIDE DEF d, b
<1>7. /\ retries + Pending(mem) <= 2 /\ retries + Pending(disk) <= 2
      /\ Pending(mem) \in 0..2 /\ Pending(disk) \in 0..2
  BY <1>1, PendingRange DEF RInv
<1>8. Pending(d.schedule) \in 0..2 /\ retries + Pending(d.schedule) <= 2
  BY <1>1, <1>4, <1>7 DEF Pending, EmptySchedule
<1>9. /\ Pending(b) \in 0..2 /\ Pending(b) <= Pending(d.schedule)
      /\ d.fetch /\ d.retryDue => Pending(b) + 1 <= Pending(d.schedule)
      /\ d.fetch /\ d.retryDue /\ d.finalAt > 0 => Pending(d.schedule) = 2
  BY <1>3 DEF BookedOn
<1>10. retries' + Pending(b) <= 2 /\ retries' + Pending(disk') <= 2
  <2>1. CASE d.retryDue /\ d.fetch /\ pc' = "fetch"
    <3>1. retries' = retries + 1 /\ disk' = b
      BY <1>6, <2>1
    <3> QED BY <1>1, <1>8, <1>9, <2>1, <3>1
  <2>2. CASE ~(d.retryDue /\ d.fetch /\ pc' = "fetch")
    <3>1. retries' \in {0, retries}
      BY <1>6, <2>2
    <3> QED BY <1>1, <1>6, <1>7, <1>8, <1>9, <3>1
  <2> QED BY <2>1, <2>2
<1>11. ASSUME pc' \in {"fetch", "fetched", "draw"}
       PROVE  /\ ~run'.retryDue /\ (run'.due \/ run'.forced \/ run'.recover \/ force')
                   => retries' = 0
              /\ run'.retryDue /\ run'.finalAt > 0 => retries' <= 1
  <2>1. /\ run'.forced = d.forced /\ run'.due = d.due
        /\ run'.retryDue = d.retryDue /\ run'.finalAt = d.finalAt
        /\ run'.recover = d.recover
    BY <1>6, <1>11
  <2>2. ~d.retryDue /\ (d.due \/ d.forced \/ d.recover \/ f0) => retries' = 0
    BY <1>5, <1>6
  <2>3. ASSUME d.retryDue, d.finalAt > 0
        PROVE  retries' <= 1
    <3>1. d.fetch /\ pc' = "fetch"
      BY <1>5, <1>6, <1>11, <2>3
    <3>2. retries' = retries + 1
      BY <1>6, <2>3, <3>1
    <3>3. Pending(d.schedule) = 2
      BY <1>9, <2>3, <3>1
    <3> QED BY <1>1, <1>8, <3>2, <3>3
  <2> QED BY <1>6, <2>1, <2>2, <2>3
<1>12. pc' # "show" /\ run'.mode \in {"refresh", "verify"}
  BY <1>2, <1>6 DEF NoRun
<1>13. Pending(mem)' = Pending(mem') /\ Pending(disk)' = Pending(disk')
  BY DEF Pending
<1> QED BY <1>6, <1>10, <1>11, <1>12, <1>13 DEF RInv, Booking

(* A step inside a run keeps the budget.                                   *)
LEMMA BudgetQuiet ==
  ASSUME TInv, RInv, QuietStep
  PROVE  RInv'
<1>1. /\ mem \in Schedule /\ disk \in Schedule /\ retries \in Nat
      /\ run.mode \in {"refresh", "verify"}
      /\ retries + Pending(mem) <= 2 /\ retries + Pending(disk) <= 2
  BY DEF TInv, TypeOK, RInv
<1>2. /\ retries' = retries /\ mem' \in Schedule /\ disk' \in {mem', disk}
      /\ pc' \in {"idle", "fetched", "show", "draw", "confirm"}
      /\ pc' = "idle" => run' = NoRun
      /\ pc' # "idle" => run'.mode = run.mode
  BY QuietFacts DEF Follows
<1>3. /\ RetryChange
      /\ pc' # "idle" =>
           /\ run'.finalAt = run.finalAt /\ run'.retryDue = run.retryDue
           /\ run'.due = run.due /\ run'.forced = run.forced
           /\ run'.recover = run.recover /\ force' = force
           /\ pc' # "show" => pc \in {"fetch", "fetched", "draw"}
           /\ pc' = "show" => run.mode = "prefetch"
  BY QuietRetries
<1>4. /\ Pending(mem) \in 0..2 /\ Pending(disk) \in 0..2
      /\ Pending(mem') \in 0..2
  BY <1>1, <1>2, PendingRange
<1>5. retries + Pending(mem') <= 2
  <2>1. CASE mem' = mem \/ Pending(mem') = 0
    BY <1>1, <1>4, <2>1
  <2>2. CASE pc = "fetch" /\ Rearms
    <3>1. retries = 0
      BY <2>2 DEF RInv, Rearms, Booking
    <3> QED BY <1>4, <3>1
  <2>3. CASE /\ pc \in {"fetched", "draw"} /\ run.retryDue /\ run.finalAt > 0
             /\ Pending(mem') \in {1, Pending(mem)}
    <3>1. retries <= 1
      BY <2>3 DEF RInv
    <3> QED BY <1>1, <1>4, <2>3, <3>1
  <2>4. CASE pc \in {"fetched", "draw"} /\ Rebooks
    <3>1. MayFetch(run.mode)
      BY <1>1 DEF MayFetch
    <3>2. retries = 0
      BY <2>4, <3>1 DEF RInv, Rebooks, Recoverable, Booking
    <3> QED BY <1>4, <3>2
  <2> QED BY <1>1, <1>3, <2>1, <2>2, <2>3, <2>4 DEF RetryChange
<1>6. retries' + Pending(mem') <= 2 /\ retries' + Pending(disk') <= 2
  BY <1>1, <1>2, <1>5
<1>7. pc' # "show" /\ run'.mode \in {"refresh", "verify"}
  BY <1>1, <1>2, <1>3 DEF NoRun
<1>8. ASSUME pc' \in {"fetch", "fetched", "draw"}
      PROVE  /\ ~run'.retryDue /\ (run'.due \/ run'.forced \/ run'.recover \/ force')
                  => retries' = 0
             /\ run'.retryDue /\ run'.finalAt > 0 => retries' <= 1
  <2>1. pc \in {"fetch", "fetched", "draw"}
    BY <1>3, <1>8
  <2>2. /\ ~run.retryDue /\ (run.due \/ run.forced \/ run.recover \/ force)
             => retries = 0
        /\ run.retryDue /\ run.finalAt > 0 => retries <= 1
    BY <2>1 DEF RInv, Booking
  <2> QED BY <1>2, <1>3, <1>8, <2>2
<1>9. Pending(mem)' = Pending(mem') /\ Pending(disk)' = Pending(disk')
  BY DEF Pending
<1> QED BY <1>6, <1>7, <1>8, <1>9 DEF RInv, Booking

(* Every step keeps the budget.                                            *)
LEMMA BudgetStep ==
  ASSUME TInv, RInv, ~E1003, [Next]_vars
  PROVE  RInv'
<1>1. /\ mem \in Schedule /\ disk \in Schedule /\ retries \in Nat
      /\ retries + Pending(mem) <= 2 /\ retries + Pending(disk) <= 2
      /\ pc # "show" /\ run.mode \in {"refresh", "verify"}
  BY DEF TInv, TypeOK, RInv
<1>2. Pending(mem) \in 0..2 /\ Pending(disk) \in 0..2
  BY <1>1, PendingRange
<1>3. Pending(mem)' = Pending(mem') /\ Pending(disk)' = Pending(disk')
  BY DEF Pending
<1>4. CASE EntryStep
  BY <1>4, BudgetEntry
<1>5. CASE QuietStep
  BY <1>5, BudgetQuiet
<1>6. CASE FetchStored
  <2>1. /\ Pending(mem') \in {0, Pending(mem)}
        /\ run'.finalAt = run.finalAt /\ run'.retryDue = run.retryDue
        /\ run'.due = run.due /\ run'.forced = run.forced
        /\ run'.recover = run.recover
    BY <1>6, StoredRetries
  <2>2. /\ retries' = retries /\ force' = force /\ pc = "fetch"
        /\ pc' = "fetched" /\ disk' \in {mem', disk} /\ run'.mode = run.mode
    BY <1>6, StoredFacts
  <2>3. retries' + Pending(mem') <= 2 /\ retries' + Pending(disk') <= 2
    BY <1>1, <1>2, <2>1, <2>2
  <2>4. /\ ~run.retryDue /\ Booking => retries = 0
        /\ run.retryDue /\ run.finalAt > 0 => retries <= 1
    BY <2>2 DEF RInv
  <2>5. Booking' = Booking
    BY <2>1, <2>2 DEF Booking
  <2> QED BY <1>1, <1>3, <2>1, <2>2, <2>3, <2>4, <2>5 DEF RInv
<1>7. CASE Reset
  <2>1. mem' = disk /\ disk' = disk /\ retries' = retries /\ pc' = "idle"
        /\ run' = NoRun
    BY <1>7 DEF Reset
  <2> QED BY <1>1, <1>3, <2>1 DEF RInv, NoRun
<1>8. CASE Reconfigure \/ ClearConfirmation \/ DrawScreen
  <2>1. pc' \in {"idle", "screen"} /\ UNCHANGED <<mem, disk, run, retries>>
    BY <1>8 DEF Reconfigure, ClearConfirmation, DrawScreen
  <2> QED BY <1>1, <2>1 DEF RInv, Pending
<1>9. CASE WakeRefused \/ Tick \/ UNCHANGED vars
  <2>1. UNCHANGED <<mem, disk, run, retries, pc, force>>
    BY <1>9 DEF WakeRefused, Tick, vars
  <2> QED BY <2>1 DEF RInv, Pending, Booking
<1> QED BY <1>4, <1>5, <1>6, <1>7, <1>8, <1>9, NextCases

(* On the E1001 and E1002 a failed attempt is followed by at most two      *)
(* retries, whatever writes fail and however often the device restarts.    *)
THEOREM RetriesAreBounded ==
  ASSUME ~E1003
  PROVE  Spec => []RetryBudget
<1>1. Init => TInv /\ RInv
  <2>1. Init => RInv
    BY DEF Init, RInv, Pending, EmptySchedule, NoRun
  <2> QED BY <2>1, TypeInit
<1>2. (TInv /\ RInv) /\ [Next]_vars => (TInv /\ RInv)'
  BY TypeStep, BudgetStep
<1>3. TInv /\ RInv => RetryBudget
  <2> SUFFICES ASSUME TInv, RInv PROVE RetryBudget
    OBVIOUS
  <2>1. mem \in Schedule /\ retries \in Nat /\ retries + Pending(mem) <= 2
    BY DEF TInv, TypeOK, RInv
  <2>2. Pending(mem) \in 0..2
    BY <2>1, PendingRange
  <2> QED BY <2>1, <2>2 DEF RetryBudget
<1> QED BY <1>1, <1>2, <1>3, PTL DEF Spec

-----------------------------------------------------------------------------
(* GInv is inductive on well-typed states of the E1003 build.              *)
LEMMA ShownStep ==
  ASSUME TInv, GInv, E1003, [Next]_vars
  PROVE  GInv'
<1>1. TypeOK /\ now \in Start..MaxNow
  BY DEF TInv, TypeOK
<1>2. CASE EntryStep
  <2>1. PICK mode \in Modes, m \in AnyModel, uf \in BOOLEAN, isReady \in BOOLEAN :
               Retried(mode, m, uf, isReady) /\ mode # "refresh"
    BY <1>1, <1>2, EntryRetries
  <2> DEFINE d == Decided(mode, m, uf, isReady)
  <2>2. d.fetch => MayFetch(mode)
    BY <1>1, DecidedRetry
  <2>3. pc' # "idle" =>
          /\ run'.mode = mode
          /\ run'.boundary = IF d.fetch /\ d.retryDue
                             THEN d.schedule.retryBoundary ELSE LatestBoundary(now)
    BY <2>1 DEF Retried
  <2> HIDE DEF d
  <2>4. LatestBoundary(now) \in Nat \ {0}
    BY <1>1, BoundaryFacts
  <2>5. mode = "prefetched" => ~d.fetch
    BY <2>2 DEF MayFetch
  <2> QED BY <2>1, <2>3, <2>4, <2>5 DEF GInv
<1>3. CASE QuietStep
  <2>1. pc' # "idle" => run'.mode = run.mode /\ run'.boundary = run.boundary
    BY <1>3, QuietFacts
  <2>2. pc \notin {"idle", "screen"}
    BY <1>3 DEF QuietStep, FetchFailed, PrefetchTail, VerifyRejected,
                RenderFailed, Unchanged, Invalidate, InvalidateFailed, Draw,
                DrawFailed, Confirm, ConfirmFailed, Rendering
  <2> QED BY <2>1, <2>2 DEF GInv
<1>4. CASE FetchStored
  BY <1>4, StoredFacts DEF GInv
<1>5. CASE \/ Reconfigure \/ ClearConfirmation \/ DrawScreen \/ WakeRefused
           \/ Reset \/ Tick \/ UNCHANGED vars
  <2>1. pc' \in {"idle", "screen"} \/ (pc' = pc /\ run' = run)
    BY <1>5 DEF Reconfigure, ClearConfirmation, DrawScreen, WakeRefused, Reset,
                Tick, vars
  <2> QED BY <2>1 DEF GInv
<1> QED BY <1>2, <1>3, <1>4, <1>5, NextCases

(* The failed write of a shown round leaves a retry: the one it found, the *)
(* final one it holds or the fast one it books.                            *)
LEMMA ShownRetried ==
  ASSUME TInv, GInv, E1003, DrawFailed,
         run.mode \in {"refresh", "prefetched"},
         ~(run.retryDue /\ run.finalAt = 0)
  PROVE  mem'.retryAt > 0
<1>1. /\ mem \in Schedule /\ run.boundary \in Nat /\ run.finalAt \in Nat
      /\ run.at \in Nat /\ run.retryDue \in BOOLEAN
      /\ run.at + FastRetry \in Nat \ {0}
  BY CycleAssumption DEF TInv, TypeOK, Run
<1>2. pc = "draw" /\ DisplayFailed
  BY DEF DrawFailed
<1>3. run.mode = "prefetched" /\ run.boundary > 0
  BY <1>2 DEF GInv
<1>4. CASE mem.retryAt # 0
  <2>1. mem' = mem
    BY <1>2, <1>3, <1>4 DEF DisplayFailed, MayFetch
  <2> QED BY <1>1, <1>4, <2>1 DEF Schedule
<1>5. CASE mem.retryAt = 0 /\ run.retryDue
  <2>1. run.finalAt > 0
    BY <1>1, <1>5
  <2>2. mem' = ScheduleRetry(mem, run.boundary, run.finalAt)
    BY <1>2, <1>3, <1>5, <2>1 DEF DisplayFailed, MayFetch
  <2> QED BY <1>1, <1>3, <2>1, <2>2, ScheduleRetryPending
<1>6. CASE mem.retryAt = 0 /\ ~run.retryDue
  <2> DEFINE marked == IF run.due THEN MarkAttempted(mem, run.boundary) ELSE mem
             fast == ScheduleRetry(marked, run.boundary, run.at + FastRetry)
  <2>1. Rebooks
    BY <1>3, <1>6 DEF Rebooks, Recoverable, MayFetch
  <2>2. mem' = ArmFinal(fast)
    BY <1>2, <1>3, <1>6, <2>1 DEF DisplayFailed, MayFetch
  <2>3. marked \in Schedule
    BY <1>1, MarkAttemptedFacts
  <2> HIDE DEF marked
  <2>4. fast.retryAt = run.at + FastRetry
    BY <1>1, <1>3, <2>3, ScheduleRetryPending
  <2>5. fast \in Schedule
    BY <1>1, <2>3, ScheduleRetryFacts
  <2> HIDE DEF fast
  <2> QED BY <1>1, <2>2, <2>4, <2>5 DEF ArmFinal, Schedule
<1> QED BY <1>4, <1>5, <1>6

(* On the E1003 a failed automatic panel write is followed by a retry,     *)
(* unless it was the last one of its budget.                               *)
THEOREM FailedDisplayIsRetried ==
  ASSUME E1003
  PROVE  Spec => DisplayRetried
<1>1. Init => TInv /\ GInv
  <2>1. Init => GInv
    BY DEF Init, GInv
  <2> QED BY <2>1, TypeInit
<1>2. (TInv /\ GInv) /\ [Next]_vars => (TInv /\ GInv)'
  BY TypeStep, ShownStep
<1>3. (TInv /\ GInv) /\ [Next]_vars
        => [ DrawFailed /\ run.mode \in {"refresh", "prefetched"}
               /\ ~(run.retryDue /\ run.finalAt = 0)
             => mem'.retryAt > 0 ]_vars
  BY ShownRetried
<1> QED BY <1>1, <1>2, <1>3, PTL DEF Spec, DisplayRetried
=============================================================================
