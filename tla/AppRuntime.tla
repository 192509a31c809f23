------------------------------ MODULE AppRuntime ------------------------------
(***************************************************************************)
(* The E1003's runtime of several spots (wind_app.c, wind_app_prefetch.c)  *)
(* and the tasks that share it: a round or a sweep that downloads one spot *)
(* after another, the input task that changes spots, and an installation.  *)
(* The runtime lock makes every action below atomic; a round lets go of it *)
(* while it downloads and keeps only the fetch lock, which is held exactly *)
(* while "at" is not "idle".                                               *)
(***************************************************************************)
EXTENDS Integers, FiniteSets

CONSTANTS
  Configs,    \* setups with the same spots and different forecast models
  SpotCount,  \* wind_spots_count
  NoConfig

ASSUME RuntimeAssumption == SpotCount \in Nat \ {0} /\ NoConfig \notin Configs

VARIABLES
  stored,     \* the ACTIVE record
  selection,  \* the stored selection: a setup's digest and a spot of it
  file,       \* the setup whose forecast each spot's cache file holds
  disk,       \* whether each spot's schedule file has a retry booked
  record,     \* the panel record: the frame it confirms, or NoFrame
  panel,      \* what the glass shows
  spots,      \* wind_spots' configuration
  ready,      \* s_ready
  current,    \* s_installed_configuration and its digest
  selected,   \* s_selected_index
  booked,     \* whether each spot's schedule in memory has a retry booked
  forced,     \* the spots with app.force_display
  forceNext,  \* s_force_next_display
  last,       \* s_last_render_succeeded
  status,     \* wind_app_status
  at,         \* where the round or sweep is
  round,      \* its local variables
  inst,       \* where the installer is
  cand,       \* the configuration being applied, the spot it was proved with,
              \* and the configuration to go back to
  owed,       \* observer: retries booked since the spot was last captured
  fetched,    \* observer: spots downloaded in this round
  proved,     \* observer: the spot an installation downloaded a forecast for
  late        \* observer: the stages of an apply at which other work came in

flash   == <<stored, selection, file, disk, record>>
runtime == <<spots, ready, current, selected, booked, forced>>
vars    == <<flash, panel, runtime, forceNext, last, status, at, round,
             inst, cand, owed, fetched, proved, late>>

Spots == 0..SpotCount - 1

NoFrame == [of |-> NoConfig, spot |-> 0]  \* no forecast: torn, or a page
Frames  == [of : Configs, spot : Spots]

NoCand  == [new |-> NoConfig, old |-> NoConfig, spot |-> 0]
NoRound == [all |-> FALSE, of |-> NoConfig, from |-> 0, rank |-> 0,
            original |-> FALSE, snapshot |-> FALSE, incomplete |-> FALSE]

Rounds  == [all : BOOLEAN, of : Configs \cup {NoConfig}, from : Spots,
            rank : 0..SpotCount, original : BOOLEAN, snapshot : BOOLEAN,
            incomplete : BOOLEAN]

(* wind_spots_load_selected: a selection counts for the setup it names.    *)
SelectionOf(c) == IF selection.of = c THEN selection.spot ELSE 0

(* The neighbours first: 0, +1, -1, +2, ... around the selected spot.      *)
SpotAt(from, rank) ==
  LET offset == IF rank % 2 = 1 THEN (rank + 1) \div 2 ELSE -(rank \div 2)
  IN  (from + offset) % SpotCount

NoProof == [of |-> NoConfig, spot |-> 0, late |-> FALSE]

Init ==
  /\ stored \in Configs /\ spots = stored
  /\ selection = [of |-> stored, spot |-> 0]
  /\ file = [i \in Spots |-> NoConfig]
  /\ disk = [i \in Spots |-> FALSE]
  /\ record = NoFrame /\ panel = NoFrame
  /\ ready = FALSE /\ current = stored /\ selected = 0
  /\ booked = disk /\ forced = {} /\ forceNext = FALSE
  /\ last = FALSE /\ status = "idle"
  /\ at = "idle" /\ round = NoRound
  /\ inst = "off" /\ cand = NoCand
  /\ owed = {} /\ fetched = {} /\ proved = NoProof /\ late = {}

-----------------------------------------------------------------------------
(* ensure_ready: what the runtime works with from here on.                 *)

Current  == IF ready THEN current  ELSE stored
Selected == IF ready THEN selected ELSE SelectionOf(spots)
Booked   == IF ready THEN booked   ELSE disk
Forced   == IF ready THEN forced   ELSE IF forceNext THEN Spots ELSE {}
Owed     == IF ready THEN owed     ELSE {}

EnsureReady ==
  /\ ready' = TRUE /\ current' = Current /\ selected' = Selected
  /\ booked' = Booked /\ forced' = Forced /\ owed' = Owed
  /\ UNCHANGED spots

(* The end of run_internal: r is how far a frame gets to the glass.  A     *)
(* frame equal to the confirmed one is not drawn again.                    *)
Outcomes == {"render", "invalidate", "display", "confirm", "shown", "same"}
Good(r)  == r \in {"shown", "same"}

Paint(f, mustDraw, glass, rec, r) ==
  /\ r = "same" => ~mustDraw /\ rec = f
  /\ panel' = CASE r \in {"shown", "confirm"} -> f
                [] r = "display" -> NoFrame
                [] OTHER -> glass
  /\ record' = CASE r = "shown" -> f
                 [] r \in {"display", "confirm"} -> NoFrame
                 [] OTHER -> rec

(* A screen that failed to appear books a retry where none is booked.      *)
Book(i, b, o, r) ==
  IF r \in {"invalidate", "display"} /\ ~b[i]
  THEN /\ booked' = [b EXCEPT ![i] = TRUE] /\ owed' = o \cup {i}
       /\ disk' = [disk EXCEPT ![i] = TRUE]
  ELSE booked' = b /\ owed' = o /\ disk' = disk

(* Work looks for an installer long before it gets here: a press when it   *)
(* is queued, the dashboard before it connects and waits for the fetch     *)
(* lock.  It may come in at any stage of an apply.                         *)
Entering(stages) == late \cup ({inst} \cap stages)

-----------------------------------------------------------------------------
(* Rounds (all) and sweeps of the spots that are not selected.             *)

RoundBegin(all) ==
  /\ at = "idle"
  /\ EnsureReady /\ late' = Entering({"activated"})
  /\ at' = "next"
  /\ round' = [NoRound EXCEPT !.all = all, !.of = Current, !.from = Selected,
                              !.rank = IF all THEN 0 ELSE 1]
  /\ status' = IF all THEN "running" ELSE status
  /\ UNCHANGED <<flash, panel, forceNext, last, inst, cand, fetched, proved>>

Spot == SpotAt(round.from, round.rank)

(* An abandoned round leaves the status as it is.                          *)
Abandon == at' = "idle" /\ round' = NoRound /\ fetched' = {}

(* Each spot is looked at anew: the installer may have come, or gone with  *)
(* another setup.                                                          *)
MayCapture == inst = "off" /\ Current = round.of

Capture ==
  /\ at = "next" /\ round.rank < SpotCount
  /\ ready' = TRUE /\ current' = Current /\ selected' = Selected
  /\ booked' = Booked /\ forced' = Forced /\ late' = Entering({"activated"})
  /\ IF MayCapture
     THEN /\ at' = "fetch" /\ owed' = Owed \ {Spot}
          /\ round' = [round EXCEPT !.original = Booked[Spot],
                                    !.snapshot = Booked[Spot]]
          /\ UNCHANGED fetched
     ELSE Abandon /\ owed' = Owed
  /\ UNCHANGED <<spots, flash, panel, forceNext, last, status, inst, cand,
                 proved>>

(* Why a spot is downloaded: a boundary is due, without or with a retry    *)
(* that it supersedes; a retry is due, the last one or one before a final  *)
(* one; there is no cache and never was; or because it is asked for.       *)
Attempts == {"due", "overdue", "retry", "final", "initial", "asked"}
Reasons(have, b, asked) ==
  {"due"} \cup (IF b THEN {"overdue", "retry", "final"} ELSE {})
          \cup (IF have THEN {} ELSE {"initial"})
          \cup (IF asked THEN {"asked"} ELSE {})

(* The retry that run_internal leaves in the schedule.                     *)
AfterRun(b, why, ok) ==
  CASE ok -> FALSE
    [] ~ok /\ why \in {"due", "overdue", "initial", "final"} -> TRUE
    [] ~ok /\ why = "retry" -> FALSE
    [] OTHER -> b

(* One spot that is not complete spoils the round, whatever follows it.    *)
Incomplete_last(done) == ~done  \* mutant: only the last spot counts
Incomplete(done) == round.incomplete \/ ~done

(* wind_app_prefetch_spot_fetch, on the snapshot and without the lock.  A  *)
(* missing cache is asked for unless a retry will come, and a spot that is *)
(* not complete books one retry.                                           *)
Download(why, ok, marine) ==
  /\ at = "fetch"
  /\ LET have  == file[Spot] = round.of
         asked == round.all \/ (~have /\ ~round.original)
         after == AfterRun(round.original, why, ok)
         done  == marine /\ (IF why = "none" THEN have ELSE ok)
         left  == after \/ (~done /\ why \notin {"overdue", "retry", "final"})
     IN /\ IF why = "none"
           THEN ~asked /\ ~ok
           ELSE why \in Reasons(have, round.original, asked)
        /\ round' = [round EXCEPT !.snapshot = left,
                                  !.incomplete = Incomplete(done)]
        /\ disk' = [disk EXCEPT ![Spot] =
             IF why \notin {"none", "asked"} \/ ok \/ left # round.original
             THEN left ELSE @]
        /\ file' = IF ok THEN [file EXCEPT ![Spot] = round.of] ELSE file
        /\ fetched' = IF ok THEN fetched \cup {Spot} ELSE fetched
  /\ at' = "merge"
  /\ UNCHANGED <<stored, selection, record, panel, runtime, forceNext, last,
                 status, inst, cand, owed, proved, late>>

(* The schedule is taken over if it is still the one that was captured.    *)
Merged_blind == [Booked EXCEPT ![Spot] = round.snapshot]  \* mutant: no memcmp
Merged == IF Booked[Spot] = round.original
          THEN [Booked EXCEPT ![Spot] = round.snapshot] ELSE Booked

Merge ==
  /\ at = "merge"
  /\ ready' = TRUE /\ current' = Current /\ selected' = Selected
  /\ forced' = Forced /\ owed' = Owed /\ late' = Entering({"activated"})
  /\ IF Current # round.of
     THEN Abandon /\ booked' = Booked
     ELSE /\ booked' = Merged
          /\ at' = "next" /\ round' = [round EXCEPT !.rank = @ + 1, !.original = FALSE,
                                    !.snapshot = FALSE]
          /\ UNCHANGED fetched
  /\ UNCHANGED <<spots, flash, panel, forceNext, last, status, inst, cand,
                 proved>>

(* The end of a round shows the spot that is selected by now, with what    *)
(* the runtime holds: ensure_ready is not called again.                    *)
ShowRound(r) ==
  /\ at = "next" /\ round.rank >= SpotCount /\ round.all
  /\ current = round.of
  /\ Paint([of |-> spots, spot |-> selected], selected \in forced, panel, record, r)
  /\ Book(selected, booked, owed, r)
  /\ forced' = IF r = "shown" THEN forced \ {selected} ELSE forced
  /\ last' = (Good(r) /\ file[selected] = current)
  /\ status' = IF last' /\ ~round.incomplete THEN "ok" ELSE "failed"
  /\ late' = late \ {"previewed"}
  /\ Abandon
  /\ UNCHANGED <<stored, selection, file, spots, ready, current, selected,
                 forceNext, inst, cand, proved>>

EndSweep ==
  /\ at = "next" /\ round.rank >= SpotCount
  /\ ~round.all \/ current # round.of
  /\ Abandon
  /\ UNCHANGED <<flash, panel, runtime, forceNext, last, status, inst, cand,
                 owed, proved, late>>

-----------------------------------------------------------------------------
(* The input task.  A spot with a forecast is first looked for among the   *)
(* prepared frames, which leave the panel record cleared behind them.      *)
Quick(t) == IF file[t] = Current THEN {"missing", "torn", "shown"} ELSE {"none"}

(* show_quick_spot forgets the confirmed frame before and after it draws.  *)
Clears_torn(quick) == quick = "torn"  \* mutant: only where it fails to draw
Clears(quick) == quick # "none"

(* A prepared frame that is shown leaves nothing to draw.                  *)
Navigate(t, quick, r) ==
  /\ quick = "shown" => r = "render"
  /\ ready' = TRUE /\ current' = Current /\ UNCHANGED spots
  /\ LET cleared == Clears(quick)
         force   == IF cleared THEN Spots ELSE Forced
         rec     == IF cleared THEN NoFrame ELSE record
         good    == quick = "shown" \/ Good(r)
     IN /\ IF quick = "shown"
           THEN /\ panel' = [of |-> spots, spot |-> t] /\ record' = rec
                /\ booked' = Booked /\ owed' = Owed /\ disk' = disk
           ELSE /\ Paint([of |-> spots, spot |-> t], t \in force,
                         IF quick = "torn" THEN NoFrame ELSE panel, rec, r)
                /\ Book(t, Booked, Owed, r)
        /\ forced' = IF r = "shown" THEN force \ {t} ELSE force
        /\ forceNext' = ((forceNext \/ cleared) /\ r # "shown")
        /\ last' = good
        /\ selected' = IF good THEN t ELSE Selected
        /\ selection' = IF good THEN [of |-> spots, spot |-> t] ELSE selection
  /\ late' = (late \ {"previewed"}) \cup ({inst} \cap {"previewed", "activated"})
  /\ UNCHANGED <<stored, file, status, at, round, inst, cand, fetched, proved>>

-----------------------------------------------------------------------------
(* The installer: the session, and the steps of an apply.                  *)

Hello ==
  /\ inst = "off" /\ inst' = "open"
  /\ UNCHANGED <<flash, panel, runtime, forceNext, last, status, at, round,
                 cand, owed, fetched, proved, late>>

Release ==
  /\ inst = "open" /\ inst' = "off"
  /\ UNCHANGED <<flash, panel, runtime, forceNext, last, status, at, round,
                 cand, owed, fetched, proved, late>>

(* The fetch lock, which a round holds from its first step to its last.    *)
FetchLockFree_any == TRUE  \* mutant: the lock is not taken
FetchLockFree == at = "idle"

(* wind_app_preview_configuration holds both locks: it downloads and shows *)
(* the candidate's selected spot and leaves the runtime to be set up anew. *)
Preview(c, why, ok, r) ==
  /\ inst = "open" /\ FetchLockFree
  /\ LET i == SelectionOf(c)
         after == AfterRun(disk[i], why, ok)
     IN /\ why \in Reasons(file[i] = c, disk[i], TRUE)
        /\ disk' = [disk EXCEPT ![i] = after]
        /\ IF ok
           THEN /\ file' = [file EXCEPT ![i] = c]
                /\ Paint([of |-> c, spot |-> i], forceNext, panel, record, r)
                /\ proved' = NoProof
           ELSE r = "render" /\ UNCHANGED <<file, record, panel, proved>>
        /\ last' = (ok /\ Good(r))
        /\ forceNext' = (forceNext /\ ~(ok /\ r = "shown"))
        /\ inst' = IF last' THEN "previewed" ELSE "failed"
        /\ cand' = [new |-> c, old |-> stored, spot |-> i]
  /\ late' = {}
  /\ spots' = stored /\ ready' = FALSE /\ owed' = {}
  /\ UNCHANGED <<stored, selection, current, selected, booked, forced, status,
                 at, round, fetched>>

(* physical_commit.  Activation changes the spots and has the runtime set  *)
(* up anew, the promotion writes the record, and the reload reads it back. *)
ActivateConfiguration(c) == spots' = c /\ ready' = FALSE /\ owed' = {}

Activate(ok) ==
  /\ inst = "previewed"
  /\ IF ok
     THEN ActivateConfiguration(cand.new) /\ inst' = "activated"
     ELSE UNCHANGED <<spots, ready, owed>> /\ inst' = "failed"
  /\ UNCHANGED <<flash, panel, current, selected, booked, forced, forceNext,
                 last, status, at, round, cand, fetched, proved, late>>

Promote(ok) ==
  /\ inst = "activated"
  /\ stored' = IF ok THEN cand.new ELSE stored
  /\ inst' = IF ok THEN "promoted" ELSE "undo"
  /\ UNCHANGED <<selection, file, disk, record, panel, runtime, forceNext, last,
                 status, at, round, cand, owed, fetched, proved, late>>

Reload(ok) ==
  /\ inst = "promoted"
  /\ IF ok
     THEN /\ proved' = [of |-> cand.new, spot |-> cand.spot,
                        late |-> "activated" \in late]
          /\ spots' = stored /\ inst' = "open" /\ cand' = NoCand
          /\ UNCHANGED stored
     ELSE /\ stored' = cand.old /\ inst' = "undo"
          /\ UNCHANGED <<spots, proved, cand>>
  /\ UNCHANGED <<selection, file, disk, record, panel, ready, current, selected,
                 booked, forced, forceNext, last, status, at, round, owed,
                 fetched, late>>

Undo ==
  /\ inst = "undo" /\ inst' = "failed"
  /\ ActivateConfiguration(cand.old)
  /\ UNCHANGED <<flash, panel, current, selected, booked, forced, forceNext,
                 last, status, at, round, cand, fetched, proved, late>>

(* wind_app_show_failed_setup, and what becomes of the setup page.         *)
FailedScreen(glass) ==
  /\ inst = "failed" /\ inst' = "open" /\ cand' = NoCand /\ late' = {}
  /\ panel' = glass
  /\ record' = NoFrame /\ forceNext' = TRUE /\ last' = FALSE
  /\ forced' = IF ready THEN Spots ELSE forced
  /\ UNCHANGED <<stored, selection, file, disk, spots, ready, current, selected,
                 booked, status, at, round, owed, fetched, proved>>

-----------------------------------------------------------------------------
(* A reset, or deep sleep.  One in the middle of a waveform leaves a torn  *)
(* screen whose record was invalidated before.                             *)
Restart(glass) ==
  /\ panel' = glass
  /\ record' = IF glass = panel THEN record ELSE NoFrame
  /\ spots' = stored /\ ready' = FALSE /\ current' = stored /\ selected' = 0
  /\ booked' = disk /\ forced' = {} /\ forceNext' = FALSE
  /\ last' = FALSE /\ status' = "idle" /\ Abandon
  /\ inst' = "off" /\ cand' = NoCand
  /\ owed' = {} /\ late' = {}
  /\ UNCHANGED <<stored, selection, file, disk, proved>>

RoundStep ==
  \/ \E all \in BOOLEAN : RoundBegin(all)
  \/ Capture
  \/ \E why \in Attempts \cup {"none"}, ok, marine \in BOOLEAN :
       Download(why, ok, marine)
  \/ Merge
  \/ \E r \in Outcomes : ShowRound(r)
  \/ EndSweep

InputStep ==
  \E t \in Spots :
    \E quick \in Quick(t), r \in Outcomes : Navigate(t, quick, r)

InstallerStep ==
  \/ Hello \/ Release
  \/ \E c \in Configs, why \in Attempts, ok \in BOOLEAN, r \in Outcomes :
       Preview(c, why, ok, r)
  \/ \E ok \in BOOLEAN : Activate(ok) \/ Promote(ok) \/ Reload(ok)
  \/ Undo
  \/ \E glass \in {NoFrame, panel} : FailedScreen(glass)

Next ==
  \/ RoundStep \/ InputStep \/ InstallerStep
  \/ \E glass \in {panel, NoFrame} : Restart(glass)

Spec == Init /\ [][Next]_vars

-----------------------------------------------------------------------------
(* Properties.                                                             *)

(* What each variable ranges over.                                         *)
DeviceType ==
  /\ stored \in Configs
  /\ selection \in [of : Configs, spot : Spots]
  /\ file \in [Spots -> Configs \cup {NoConfig}]
  /\ disk \in [Spots -> BOOLEAN]
  /\ record \in Frames \cup {NoFrame}
  /\ panel \in Frames \cup {NoFrame}

MemoryType ==
  /\ spots \in Configs /\ current \in Configs
  /\ selected \in Spots
  /\ booked \in [Spots -> BOOLEAN]
  /\ forced \subseteq Spots /\ owed \subseteq Spots /\ fetched \subseteq Spots
  /\ ready \in BOOLEAN /\ forceNext \in BOOLEAN /\ last \in BOOLEAN

WorkType ==
  /\ status \in {"idle", "running", "ok", "failed"}
  /\ at \in {"idle", "next", "fetch", "merge"}
  /\ inst \in {"off", "open", "previewed", "activated", "promoted", "undo",
               "failed"}
  /\ cand \in [new : Configs \cup {NoConfig}, old : Configs \cup {NoConfig},
               spot : Spots]
  /\ round \in Rounds
  /\ proved \in [of : Configs \cup {NoConfig}, spot : Spots, late : BOOLEAN]
  /\ late \subseteq {"previewed", "activated"}

TypeOK == DeviceType /\ MemoryType /\ WorkType

(* Whenever the installer reads that the last render succeeded, outside    *)
(* an apply, the glass shows the selected spot of the setup in force,      *)
(* whatever was drawn, prepared, torn or reloaded since.  The exception is *)
(* a press queued before the session that navigates between a preview and  *)
(* the activation: until the next render its screen counts for the         *)
(* candidate's.                                                            *)
RenderedIsShown ==
  last /\ inst \in {"off", "open"} /\ "previewed" \notin late
    => panel = [of |-> spots, spot |-> Selected]

(* The same without the exception.                                         *)
LastIsShown ==
  last /\ inst \in {"off", "open"} => panel = [of |-> spots, spot |-> Selected]

(* The forecast that an installation downloaded to prove its setup stays:  *)
(* a round that set out under the earlier setup never puts that setup's    *)
(* forecast in its place.  The exception is an installation whose apply    *)
(* was entered between the activation and the record: the runtime then     *)
(* works on with the earlier setup's models, and so do its rounds.         *)
ForecastKept ==
  proved.of # NoConfig /\ ~proved.late => file[proved.spot] = proved.of

(* A retry that a failed screen books while a round downloads that spot    *)
(* is not lost when the round takes its own schedule over.                 *)
BookedSurvives == ready => \A i \in owed : booked[i]

(* Such a retry is also still stored, should the device reset.             *)
RetryStored == \A i \in owed : disk[i]

(* A round reports success only when each spot's forecast was downloaded   *)
(* in that round for one setup, across changes of the selected spot and    *)
(* installer sessions meanwhile.  That setup is the stored one, unless     *)
(* work that came in between an activation and its record had the runtime  *)
(* set up from the earlier one.                                            *)
RoundComplete ==
  [][round.all /\ status' = "ok"
       => /\ fetched = Spots /\ \A i \in Spots : file[i] = round.of
          /\ round.of = stored \/ "activated" \in late]_vars

(* Between applies the runtime works with the record's setup and no part   *)
(* of another one (wind_installer_device.c: physical_commit).              *)
SetupInForce ==
  ready /\ inst \in {"off", "open"} => current = stored /\ spots = stored

(* The runtime works with anything else only after work came in between    *)
(* the activation and the record of the last apply, until the next apply   *)
(* or reset sets it up anew; the spots themselves are always the record's. *)
InForceUnlessLate ==
  inst \in {"off", "open"} =>
    spots = stored /\ (ready /\ "activated" \notin late => current = stored)
=============================================================================
